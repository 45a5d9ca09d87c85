--------------------------- MODULE MCBootSources ----------------------------
(***************************************************************************)
(* An instance of BootSources for TLC: two VMs, a Secret and an answer file *)
(* that they may share, and every way in which a VM can bring its boot data. *)
(***************************************************************************)
EXTENDS BootSources, TLC

Admins == [u \in User |-> IF u = "admin" THEN "own" ELSE "absent"]

UserData == [EmptyDoc EXCEPT !.files = {"user"}, !.cmds = <<"user">>, !.users = Admins]

Script(form) == [EmptyDoc EXCEPT !.form = form, !.cmds = <<"user">>]

AnswerFile == [UserData EXCEPT !.form = "xml"]

\* User data that an earlier admission has merged: a cloned VM.
Cloned(os) == MergeCloudInit(UserData, os, {})

Inlined(os) ==
    {EmptyDoc, UserData, [UserData EXCEPT !.large = TRUE], Script("opaque"),
     Script("ps1"), Script("powershell"), [Script("powershell") EXCEPT !.large = TRUE],
     Cloned(os)}

Submit(os, kind, ref, data, user) ==
    [os |-> os, annotated |-> TRUE, kind |-> kind, ref |-> ref, data |-> data,
     user |-> user]

InlineVMs ==
    UNION { {Submit(os, kind, NoSource, d, "ops") : d \in Inlined(os)} :
              os \in {"linux", "windows"}, kind \in {"nocloud", "configdrive"} }
    \cup {Submit(os, "none", NoSource, EmptyDoc, "ops") : os \in {"linux", "windows", "unknown"}}

SecretVMs ==
    {Submit("linux", "nocloud", "shared", EmptyDoc, u) : u \in {"ops", "admin"}}
    \cup {Submit("windows", kind, "shared", EmptyDoc, "ops") : kind \in {"nocloud", "configdrive"}}

SysprepVMs == {Submit(os, "sysprep", "answers", EmptyDoc, "ops") : os \in {"linux", "windows"}}

Unannotated(s) == [s EXCEPT !.annotated = FALSE]

SharingVMs == SecretVMs \cup SysprepVMs

NotMonitored == Submit("unknown", "none", NoSource, EmptyDoc, "ops")

\* Two VMs that may share a source, or one of any kind.
TwoVMs ==
    {[v \in VM |-> IF v = "v1" THEN s ELSE t] : s \in SharingVMs, t \in SharingVMs}
    \cup {[v \in VM |-> IF v = "v1" THEN s ELSE NotMonitored] :
            s \in InlineVMs \cup {Unannotated(u) : u \in SharingVMs \cup InlineVMs}}

Contents(shared, answers) ==
    [n \in Source |-> CASE n = "shared" -> shared
                        [] n = "answers" -> answers
                        [] OTHER -> Missing]

SourceContents ==
    {Contents(UserData, AnswerFile), Contents(Missing, Missing),
     Contents(Script("opaque"), Script("opaque")),
     Contents(Cloned("linux"), MergeSysprep(AnswerFile))}

OwnSources == [v \in VM |-> v]
=============================================================================
