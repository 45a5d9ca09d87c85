----------------------------- MODULE BootProofs -----------------------------
(***************************************************************************)
(* Proofs about BootSources and the merges of BootData, for any VMs, any    *)
(* sources, any documents in them and any number of disturbances: types,    *)
(* truthful markers, the users' content, and the refinement of SharedSource. *)
(***************************************************************************)
EXTENDS BootSources, TLAPS

(***************************************************************************)
(* What the merges do to a document.                                       *)
(***************************************************************************)

\* Adding a command keeps the others, and the command is there afterwards.
LEMMA CommandAdded ==
    ASSUME NEW cmds \in Seq(Command), NEW c \in Command
    PROVE  /\ WithCommand(cmds, c) \in Seq(Command)
           /\ c \in Range(WithCommand(cmds, c))
           /\ Range(cmds) \subseteq Range(WithCommand(cmds, c))
<1>1. CASE c \in Range(cmds)
  BY <1>1 DEF WithCommand
<1>2. CASE c \notin Range(cmds)
  <2> DEFINE new == Append(cmds, c)
  <2>1. new \in Seq(Command) /\ Len(new) = Len(cmds) + 1
    OBVIOUS
  <2>2. \A i \in 1 .. Len(cmds) : new[i] = cmds[i]
    OBVIOUS
  <2>3. new[Len(cmds) + 1] = c
    OBVIOUS
  <2>4. DOMAIN new = 1 .. Len(cmds) + 1 /\ DOMAIN cmds = 1 .. Len(cmds)
    OBVIOUS
  <2>5. WithCommand(cmds, c) = new
    BY <1>2 DEF WithCommand
  <2> HIDE DEF new
  <2>6. Len(cmds) + 1 \in DOMAIN new /\ DOMAIN cmds \subseteq DOMAIN new
    BY <2>4
  <2>7. c \in Range(new)
    BY <2>3, <2>6 DEF Range
  <2>8. Range(cmds) \subseteq Range(new)
    BY <2>2, <2>4, <2>6 DEF Range
  <2> QED
    BY <2>1, <2>5, <2>7, <2>8
<1> QED
  BY <1>1, <1>2

\* A command is not added twice.
LEMMA CommandKept ==
    ASSUME NEW cmds, NEW c, c \in Range(cmds)
    PROVE  WithCommand(cmds, c) = cmds
BY DEF WithCommand

\* The commands are commands.
LEMMA Commands == {"user", "reload", "enable", "task"} \subseteq Command
BY DEF Command

\* The parts of a document, and a document of its parts.
LEMMA DocParts ==
    ASSUME NEW doc \in Doc
    PROVE  /\ doc.form \in Form /\ doc.files \subseteq File
           /\ doc.cmds \in Seq(Command) /\ doc.large \in BOOLEAN
           /\ doc.users \in [User -> {"absent", "own", "operator"}]
BY DEF Doc

\* Replacing parts of a record of these fields, one and several at a time.
AnyDoc(P, Q, R, S, T) == [form : P, files : Q, cmds : R, users : S, large : T]

\* One part: the files,
LEMMA ExceptFiles ==
    ASSUME NEW P, NEW Q, NEW R, NEW S, NEW T, NEW doc \in AnyDoc(P, Q, R, S, T),
           NEW files
    PROVE  [doc EXCEPT !.files = files]
             = [form |-> doc.form, files |-> files, cmds |-> doc.cmds,
                users |-> doc.users, large |-> doc.large]
BY DEF AnyDoc

\* the commands,
LEMMA ExceptCommands ==
    ASSUME NEW P, NEW Q, NEW R, NEW S, NEW T, NEW doc \in AnyDoc(P, Q, R, S, T),
           NEW cmds
    PROVE  [doc EXCEPT !.cmds = cmds]
             = [form |-> doc.form, files |-> doc.files, cmds |-> cmds,
                users |-> doc.users, large |-> doc.large]
BY DEF AnyDoc

\* and the users.
LEMMA ExceptUsers ==
    ASSUME NEW P, NEW Q, NEW R, NEW S, NEW T, NEW doc \in AnyDoc(P, Q, R, S, T),
           NEW users
    PROVE  [doc EXCEPT !.users = users]
             = [form |-> doc.form, files |-> doc.files, cmds |-> doc.cmds,
                users |-> users, large |-> doc.large]
BY DEF AnyDoc

\* Files and commands of a document.
LEMMA DocExcept2 ==
    ASSUME NEW doc \in Doc, NEW files, NEW cmds
    PROVE  [doc EXCEPT !.files = files, !.cmds = cmds]
             = [form |-> doc.form, files |-> files, cmds |-> cmds, users |-> doc.users,
                large |-> doc.large]
<1> DEFINE first == [form |-> doc.form, files |-> files, cmds |-> doc.cmds,
                     users |-> doc.users, large |-> doc.large]
           P == {doc.form}   Q == {files}   R == {doc.cmds}
           S == {doc.users}  T == {doc.large}
<1>1. doc \in AnyDoc(Form, SUBSET File, Seq(Command),
                     [User -> {"absent", "own", "operator"}], BOOLEAN)
  BY DEF AnyDoc, Doc
<1>2. [doc EXCEPT !.files = files] = first
  BY <1>1, ExceptFiles
<1>3. first \in AnyDoc(P, Q, R, S, T)
  BY DEF AnyDoc
<1>4. [first EXCEPT !.cmds = cmds]
        = [form |-> first.form, files |-> first.files, cmds |-> cmds,
           users |-> first.users, large |-> first.large]
  BY <1>3, ExceptCommands
<1>5. [doc EXCEPT !.files = files, !.cmds = cmds]
        = [[doc EXCEPT !.files = files] EXCEPT !.cmds = cmds]
  OBVIOUS
<1> QED
  BY <1>2, <1>4, <1>5

\* Users, files and commands of a document.
LEMMA DocExcept3 ==
    ASSUME NEW doc \in Doc, NEW users, NEW files, NEW cmds
    PROVE  [doc EXCEPT !.users = users, !.files = files, !.cmds = cmds]
             = [form |-> doc.form, files |-> files, cmds |-> cmds, users |-> users,
                large |-> doc.large]
<1> DEFINE first == [form |-> doc.form, files |-> doc.files, cmds |-> doc.cmds,
                     users |-> users, large |-> doc.large]
           second == [form |-> doc.form, files |-> files, cmds |-> doc.cmds,
                      users |-> users, large |-> doc.large]
           P == {doc.form}  Q == {doc.files, files}  R == {doc.cmds}
           S == {users}     T == {doc.large}
<1>1. doc \in AnyDoc(Form, SUBSET File, Seq(Command),
                     [User -> {"absent", "own", "operator"}], BOOLEAN)
  BY DEF AnyDoc, Doc
<1>2. [doc EXCEPT !.users = users] = first
  BY <1>1, ExceptUsers
<1>3. first \in AnyDoc(P, Q, R, S, T) /\ second \in AnyDoc(P, Q, R, S, T)
  BY DEF AnyDoc
<1>4. [first EXCEPT !.files = files] = second
  BY <1>3, ExceptFiles
<1>5. [second EXCEPT !.cmds = cmds]
        = [form |-> second.form, files |-> second.files, cmds |-> cmds,
           users |-> second.users, large |-> second.large]
  BY <1>3, ExceptCommands
<1>6. [doc EXCEPT !.users = users, !.files = files, !.cmds = cmds]
        = [[[doc EXCEPT !.users = users] EXCEPT !.files = files] EXCEPT !.cmds = cmds]
  OBVIOUS
<1> QED
  BY <1>2, <1>4, <1>5, <1>6

\* Merging for Linux gives a document that bootstraps a Linux guest.
LEMMA LinuxMerged ==
    ASSUME NEW doc \in Doc, NEW u
    PROVE  /\ MergeLinux(doc, u) \in Doc
           /\ MergeLinux(doc, u).form = doc.form
           /\ doc.form # "xml" => Bootstrapped(MergeLinux(doc, u), "linux")
<1> DEFINE users == [w \in User |-> IF w \in u /\ doc.users[w] = "absent"
                                    THEN "operator" ELSE doc.users[w]]
           files == doc.files \cup {"linux"}
           once == WithCommand(doc.cmds, "reload")
           cmds == WithCommand(once, "enable")
           merged == MergeLinux(doc, u)
<1>1. /\ once \in Seq(Command)
      /\ cmds \in Seq(Command)
      /\ {"reload", "enable"} \subseteq Range(cmds)
  BY DocParts, Commands, CommandAdded
<1>2. users \in [User -> {"absent", "own", "operator"}]
  BY DocParts
<1>3. files \subseteq File /\ "linux" \in files
  BY DocParts DEF File
<1>4. merged = [form |-> doc.form, files |-> files, cmds |-> cmds, users |-> users,
                large |-> doc.large]
  BY DocExcept3 DEF MergeLinux
<1> HIDE DEF users, files, once, cmds, merged
<1>5. merged \in Doc
  BY <1>1, <1>2, <1>3, <1>4, DocParts DEF Doc
<1>6. doc.form # "xml" => Bootstrapped(merged, "linux")
  BY <1>1, <1>3, <1>4 DEF Bootstrapped
<1> QED
  BY <1>4, <1>5, <1>6 DEF merged

\* Merging for Windows gives a document that bootstraps a Windows guest.
LEMMA WindowsMerged ==
    ASSUME NEW doc \in Doc
    PROVE  /\ MergeWindows(doc) \in Doc
           /\ MergeWindows(doc).form = doc.form
           /\ doc.form # "xml" => Bootstrapped(MergeWindows(doc), "windows")
<1> DEFINE files == doc.files \cup {"windows"}
           cmds == WithCommand(doc.cmds, "task")
           merged == MergeWindows(doc)
<1>1. cmds \in Seq(Command) /\ "task" \in Range(cmds)
  BY DocParts, Commands, CommandAdded
<1>2. files \subseteq File /\ "windows" \in files
  BY DocParts DEF File
<1>3. merged = [form |-> doc.form, files |-> files, cmds |-> cmds, users |-> doc.users,
                large |-> doc.large]
  BY DocExcept2 DEF MergeWindows
<1> HIDE DEF files, cmds, merged
<1>4. merged \in Doc
  BY <1>1, <1>2, <1>3, DocParts DEF Doc
<1>5. doc.form # "xml" => Bootstrapped(merged, "windows")
  BY <1>1, <1>2, <1>3 DEF Bootstrapped
<1> QED
  BY <1>3, <1>4, <1>5 DEF merged

\* Merging an answer file gives one that bootstraps the guest.
LEMMA SysprepMerged ==
    ASSUME NEW doc \in Doc, doc.form = "xml", NEW os
    PROVE  /\ MergeSysprep(doc) \in Doc
           /\ MergeSysprep(doc).form = doc.form
           /\ Bootstrapped(MergeSysprep(doc), os)
<1>1. CASE "task" \in Range(doc.cmds)
  BY <1>1 DEF MergeSysprep, Bootstrapped
<1>2. CASE "task" \notin Range(doc.cmds)
  <2> DEFINE cmds == Append(doc.cmds, "task")
             merged == MergeSysprep(doc)
  <2>1. cmds = WithCommand(doc.cmds, "task")
    BY <1>2 DEF WithCommand
  <2>2. cmds \in Seq(Command) /\ "task" \in Range(cmds)
    BY <2>1, DocParts, Commands, CommandAdded
  <2>3. merged = [form |-> doc.form, files |-> {}, cmds |-> cmds, users |-> doc.users,
                  large |-> doc.large]
    BY <1>2, DocExcept2 DEF MergeSysprep
  <2> HIDE DEF cmds, merged
  <2>4. merged \in Doc
    BY <2>2, <2>3, DocParts DEF Doc
  <2>5. Bootstrapped(merged, os)
    BY <2>2, <2>3 DEF Bootstrapped
  <2> QED
    BY <2>3, <2>4, <2>5 DEF merged
<1> QED
  BY <1>1, <1>2

\* Merging twice is merging once: what the marker is lost for is merged again
\* without harm.
LEMMA MergedOnce ==
    ASSUME NEW doc \in Doc
    PROVE  /\ MergeWindows(MergeWindows(doc)) = MergeWindows(doc)
           /\ MergeSysprep(MergeSysprep(doc)) = MergeSysprep(doc)
<1>1. MergeWindows(MergeWindows(doc)) = MergeWindows(doc)
  <2> DEFINE files == doc.files \cup {"windows"}
             cmds == WithCommand(doc.cmds, "task")
             merged == MergeWindows(doc)
  <2>1. cmds \in Seq(Command) /\ "task" \in Range(cmds)
    BY DocParts, Commands, CommandAdded
  <2>2. files \subseteq File /\ files \cup {"windows"} = files
    BY DocParts DEF File
  <2>3. WithCommand(cmds, "task") = cmds
    BY <2>1, CommandKept
  <2>4. merged = [form |-> doc.form, files |-> files, cmds |-> cmds, users |-> doc.users,
                  large |-> doc.large]
    BY DocExcept2 DEF MergeWindows
  <2> HIDE DEF files, cmds, merged
  <2>5. merged \in Doc
    BY <2>1, <2>2, <2>4, DocParts DEF Doc
  <2>6. MergeWindows(merged) = [form |-> merged.form, files |-> files, cmds |-> cmds,
                                users |-> merged.users, large |-> merged.large]
    <3>1. MergeWindows(merged)
            = [merged EXCEPT !.files = merged.files \cup {"windows"},
                             !.cmds = WithCommand(merged.cmds, "task")]
      BY DEF MergeWindows
    <3>2. merged.files \cup {"windows"} = files /\ WithCommand(merged.cmds, "task") = cmds
      BY <2>2, <2>3, <2>4
    <3> QED
      BY <2>5, <3>1, <3>2, DocExcept2
  <2> QED
    BY <2>4, <2>6 DEF merged
<1>2. MergeSysprep(MergeSysprep(doc)) = MergeSysprep(doc)
  <2>1. CASE "task" \in Range(doc.cmds)
    BY <2>1 DEF MergeSysprep
  <2>2. CASE "task" \notin Range(doc.cmds)
    <3> DEFINE cmds == Append(doc.cmds, "task")
               merged == MergeSysprep(doc)
    <3>1. cmds = WithCommand(doc.cmds, "task")
      BY <2>2 DEF WithCommand
    <3>2. "task" \in Range(cmds)
      BY <3>1, DocParts, Commands, CommandAdded
    <3>3. merged.cmds = cmds
      BY <2>2, DocExcept2 DEF MergeSysprep
    <3> HIDE DEF merged
    <3>4. MergeSysprep(merged) = merged
      BY <3>2, <3>3 DEF MergeSysprep
    <3> QED
      BY <3>4 DEF merged
  <2> QED
    BY <2>1, <2>2
<1> QED
  BY <1>1, <1>2

\* Merging user data gives a document, of the same form.
LEMMA MergeType ==
    ASSUME NEW doc \in Doc, NEW os, NEW u
    PROVE  MergeCloudInit(doc, os, u) \in Doc /\ MergeCloudInit(doc, os, u).form = doc.form
BY LinuxMerged, WindowsMerged DEF MergeCloudInit

(***************************************************************************)
(* Admission.                                                              *)
(***************************************************************************)

\* The empty cloud-config is a document, which bootstraps nothing.
LEMMA EmptyDocType ==
    /\ EmptyDoc \in Doc /\ EmptyDoc.form = "yaml"
    /\ \A os : ~Bootstrapped(EmptyDoc, os)
<1>1. EmptyDoc \in Doc
  BY DEF EmptyDoc, Doc, Form
<1>2. \A os : ~Bootstrapped(EmptyDoc, os)
  BY DEF EmptyDoc, Bootstrapped
<1> QED
  BY <1>1, <1>2 DEF EmptyDoc

\* What admission makes of a VM: the types, no inline data beside a secretRef, and
\* a request for a merge only on a VM whose OS is known.
Admissible(s, a) ==
    /\ a \in VMRecord
    /\ a.stage # "new"
    /\ a.kind = "nocloud" /\ a.ref # NoSource => a.data = EmptyDoc
    /\ a.marks \cap {"merge", "sysprep"} # {} => s.os \in {"linux", "windows"}
    /\ "merged" \notin a.marks

\* The marks of the webhook.
LEMMA MarksType ==
    /\ {} \in Marks
    /\ {"managed"} \in Marks
    /\ \A mark \in {"remediation", "merge", "sysprep"} : {"managed", mark} \in Marks
BY DEF Marks

\* A VM with inline data, with a marker, and one that is denied.
LEMMA InlineType ==
    ASSUME NEW os, NEW kind \in Kind, NEW ref \in Source \cup {NoSource}, NEW doc \in Doc,
           NEW s, s.kind = kind, s.ref = ref, s.data = doc, s.os = os,
           NEW new \in Doc,
           kind = "nocloud" /\ ref # NoSource => new = EmptyDoc
    PROVE  Admissible(s, Inline(s, new))
<1>1. Inline(s, new) = [stage |-> "admitted", kind |-> kind, ref |-> ref, data |-> new,
                        marks |-> {"managed"}]
  BY DEF Inline
<1> QED
  BY <1>1, MarksType DEF Admissible, VMRecord

\* A VM with a marker of the webhook.
LEMMA MarkedType ==
    ASSUME NEW s, s.kind \in Kind, s.ref \in Source \cup {NoSource}, s.data \in Doc,
           s.os \in {"linux", "windows"},
           s.kind = "nocloud" /\ s.ref # NoSource => s.data = EmptyDoc,
           NEW mark \in {"remediation", "merge", "sysprep"}
    PROVE  Admissible(s, Marked(s, mark))
<1> DEFINE marks == IF s.annotated THEN {"managed"} \cup {mark} ELSE {"managed"}
<1>1. Marked(s, mark) = [stage |-> "admitted", kind |-> s.kind, ref |-> s.ref,
                         data |-> s.data, marks |-> marks]
  BY DEF Marked, Inline
<1>2. marks \in Marks /\ "merged" \notin marks
  BY MarksType
<1> HIDE DEF marks
<1> QED
  BY <1>1, <1>2 DEF Admissible, VMRecord

\* A VM that is denied.
LEMMA DeniedType ==
    ASSUME NEW s, s.kind \in Kind, s.ref \in Source \cup {NoSource}, s.data \in Doc,
           s.kind = "nocloud" /\ s.ref # NoSource => s.data = EmptyDoc
    PROVE  Admissible(s, Denied(s))
<1>1. Denied(s) = [stage |-> "denied", kind |-> s.kind, ref |-> s.ref,
                   data |-> s.data, marks |-> {}]
  BY DEF Denied
<1> QED
  BY <1>1, MarksType DEF Admissible, VMRecord

\* A VM of an unknown OS.
LEMMA UnknownOSType ==
    ASSUME NEW s, s.kind \in Kind, s.ref \in Source \cup {NoSource}, s.data \in Doc,
           s.kind = "nocloud" /\ s.ref # NoSource => s.data = EmptyDoc
    PROVE  Admissible(s, UnknownOS(s))
<1> DEFINE marks == IF s.annotated THEN {"managed"} ELSE {}
<1>1. UnknownOS(s) = [stage |-> "admitted", kind |-> s.kind, ref |-> s.ref,
                      data |-> s.data, marks |-> marks]
  BY DEF UnknownOS, Inline
<1>2. marks \in Marks /\ marks \cap {"merge", "sysprep", "merged"} = {}
  BY MarksType
<1> HIDE DEF marks
<1> QED
  BY <1>1, <1>2 DEF Admissible, VMRecord

\* The merge of the inline data, unless it must not have any.
LEMMA MergedType ==
    ASSUME NEW s, s.data \in Doc
    PROVE  Merged(s) \in Doc
BY MergeType DEF Merged

\* What admission makes of any VM is admissible.
LEMMA AdmitType ==
    ASSUME NEW s \in Submitted, WellFormed(s), NEW own \in Source
    PROVE  Admissible(s, EnsureMonitoringBootstrap(s, own))
<1>1. /\ s.kind \in Kind /\ s.ref \in Source \cup {NoSource} /\ s.data \in Doc
      /\ s.os \in {"linux", "windows", "unknown"}
      /\ s.kind = "nocloud" /\ s.ref # NoSource => s.data = EmptyDoc
      /\ s.kind = "none" => s.ref = NoSource
  BY DEF Submitted, WellFormed
<1>2. CASE s.os = "unknown"
  BY <1>1, <1>2, UnknownOSType DEF EnsureMonitoringBootstrap
<1>3. CASE s.os # "unknown"
  <2>1. s.os \in {"linux", "windows"} /\ Merged(s) \in Doc
    BY <1>1, <1>3, MergedType
  <2>2. Admissible(s, Denied(s))
    BY <1>1, DeniedType
  <2>3. \A mark \in {"remediation", "merge", "sysprep"} : Admissible(s, Marked(s, mark))
    BY <1>1, <2>1, MarkedType
  <2>4. s.kind # "nocloud" \/ s.ref = NoSource => Admissible(s, Inline(s, Merged(s)))
    BY <1>1, <2>1, InlineType
  <2>5. CASE s.kind = "none"
    <3> DEFINE t == [s EXCEPT !.kind = "nocloud"]
               new == MergeCloudInit(EmptyDoc, s.os, {})
    <3>1. t.ref = NoSource /\ t.kind = "nocloud" /\ t.os = s.os /\ t.data = s.data
      BY <1>1, <2>5 DEF Submitted
    <3>2. new \in Doc
      BY EmptyDocType, MergeType
    <3> HIDE DEF t, new
    <3>3. Admissible(t, Inline(t, new))
      BY <1>1, <3>1, <3>2, InlineType DEF Kind
    <3>4. Admissible(s, Inline(t, new))
      BY <3>1, <3>3 DEF Admissible
    <3> QED
      BY <1>3, <2>5, <3>4 DEF EnsureMonitoringBootstrap, Inject, t, new
  <2>6. CASE s.kind = "configdrive"
    <3>1. Admissible(s, ConfigDrive(s))
      BY <2>2, <2>3, <2>4, <2>6 DEF ConfigDrive
    <3> QED
      BY <1>3, <2>6, <3>1 DEF EnsureMonitoringBootstrap
  <2>7. CASE s.kind = "sysprep"
    BY <1>3, <2>2, <2>3, <2>7 DEF EnsureMonitoringBootstrap
  <2>8. CASE s.kind = "nocloud"
    <3>1. Admissible(s, LinuxNoCloud(s))
      BY <2>2, <2>3, <2>4 DEF LinuxNoCloud
    <3>2. Admissible(s, WindowsNoCloud(s, own))
      <4> DEFINE t == [s EXCEPT !.ref = own, !.data = EmptyDoc]
      <4>1. t.ref = own /\ t.kind = "nocloud" /\ t.os = s.os /\ t.data = EmptyDoc
        BY <2>8 DEF Submitted
      <4> HIDE DEF t
      <4>2. Admissible(t, Marked(t, "merge"))
        BY <1>1, <2>1, <4>1, EmptyDocType, MarkedType DEF Kind
      <4>3. Admissible(s, Marked(t, "merge"))
        BY <4>1, <4>2 DEF Admissible
      <4> QED
        BY <2>2, <2>3, <2>4, <4>3 DEF WindowsNoCloud, t
    <3> QED
      BY <1>3, <2>8, <3>1, <3>2 DEF EnsureMonitoringBootstrap
  <2> QED
    BY <1>1, <2>5, <2>6, <2>7, <2>8 DEF Kind
<1> QED
  BY <1>2, <1>3

(***************************************************************************)
(* The inductive invariant.  A VM that has asked for a merge shares its     *)
(* source with others; what holds of the source is said for an OS that all *)
(* of them run.  Until a user edits it, a source that was bootstrapped      *)
(* stays so: every copy of it that is bootstrapped, be it the informer's or *)
(* a worker's, is a copy of a source that was so already.                  *)
(***************************************************************************)

\* A VM that is not admitted has no markers and no worker; one with a request has
\* an OS; and whoever works on a source has found it.
WorkerInv(v) ==
    /\ vm[v].stage = "new" => vm[v].marks = {} /\ worker[v] = Idle
    /\ Requested(v) => spec[v].os \in {"linux", "windows"}
    /\ worker[v].at # "idle" => Requested(v)
    /\ worker[v].at \in {"create", "merge", "mark"} => Findable(v)
    /\ worker[v].at = "create" => worker[v].base = EmptyDoc
    /\ "merged" \in vm[v].marks => Requested(v) /\ Findable(v)

SharedBy(n, x) == \A v \in Sharing(n) : spec[v].os = x

\* What has become of the source n when one VM is at some point of its merge.
VMMergeInv(n, x, v) ==
    /\ worker[v].at = "merge" /\ Bootstrapped(worker[v].base, x) => Bootstrapped(source[n], x)
    /\ worker[v].at = "mark" => Bootstrapped(source[n], x)
    /\ "merged" \in vm[v].marks => Bootstrapped(source[n], x)

SourceInv(n, x) ==
    n \notin edited /\ SharedBy(n, x)
    => /\ Bootstrapped(view[n], x) => Bootstrapped(source[n], x)
       /\ \A v \in Sharing(n) : VMMergeInv(n, x, v)

BootInv ==
    /\ BootTypeOK
    /\ \A v \in VM : WellFormed(spec[v])
    /\ \A v \in VM : WorkerInv(v)
    /\ \A n \in Source, x \in {"linux", "windows"} : SourceInv(n, x)

\* A source that is missing is no document, and bootstraps nothing.
LEMMA MissingDoc ==
    /\ Missing \notin Doc
    /\ \A os : ~Bootstrapped(Missing, os)
<1>1. Missing.form = "missing" /\ Missing.files = {}
  BY DEF Missing, EmptyDoc
<1>2. Missing \notin Doc
  BY <1>1 DEF Doc, Form
<1> QED
  BY <1>1, <1>2 DEF Bootstrapped

\* A worker that is idle.
LEMMA IdleType == Idle \in Worker /\ Idle.at = "idle" /\ Idle.base = EmptyDoc
BY EmptyDocType DEF Idle, Worker

\* The parts of the state of one VM and of its worker.
LEMMA BootParts ==
    ASSUME BootTypeOK, NEW v \in VM
    PROVE  /\ vm[v].stage \in {"new", "admitted", "denied"} /\ vm[v].kind \in Kind
           /\ vm[v].ref \in Source \cup {NoSource} /\ vm[v].data \in Doc
           /\ vm[v].marks \in Marks
           /\ worker[v].at \in {"idle", "create", "merge", "mark", "fail"}
           /\ worker[v].base \in Doc
           /\ spec[v].os \in {"linux", "windows", "unknown"}
BY DEF BootTypeOK, VMRecord, Worker, Submitted

\* What a worker makes of a source that it can merge: a document that bootstraps
\* the guest.
LEMMA MergeSourceType ==
    ASSUME BootTypeOK, NEW v \in VM, SourceMergeable(v), Findable(v),
           spec[v].os \in {"linux", "windows"}
    PROVE  /\ MergeSource(v) \in Doc
           /\ Bootstrapped(MergeSource(v), spec[v].os)
<1>1. worker[v].base \in Doc
  BY BootParts
<1>2. CASE vm[v].kind = "sysprep"
  BY <1>1, <1>2, SysprepMerged DEF MergeSource, SourceMergeable
<1>3. CASE vm[v].kind # "sysprep"
  <2>1. worker[v].base.form = "yaml" /\ ~Raw(worker[v].base)
    BY <1>3 DEF SourceMergeable, Raw
  <2> QED
    BY <1>1, <1>3, <2>1, LinuxMerged, WindowsMerged DEF MergeSource, MergeCloudInit
<1> QED
  BY <1>2, <1>3

\* The first state.
LEMMA BootInitInv ==
    ASSUME BootInit
    PROVE  BootInv
<1>1. spec \in [VM -> Submitted] /\ \A v \in VM : WellFormed(spec[v])
  BY BootAssumption DEF BootInit
<1>2. \A v \in VM : vm[v] = [stage |-> "new", kind |-> spec[v].kind, ref |-> spec[v].ref,
                             data |-> spec[v].data, marks |-> {}]
  BY DEF BootInit
<1>3. ASSUME NEW v \in VM
      PROVE  /\ vm[v] \in VMRecord
             /\ vm[v].kind = "nocloud" /\ vm[v].ref # NoSource => vm[v].data = EmptyDoc
  <2>1. spec[v] \in Submitted /\ WellFormed(spec[v])
    BY <1>1
  <2>2. /\ spec[v].kind \in Kind /\ spec[v].ref \in Source \cup {NoSource}
        /\ spec[v].data \in Doc
    BY <2>1 DEF Submitted
  <2>3. vm[v] = [stage |-> "new", kind |-> spec[v].kind, ref |-> spec[v].ref,
                 data |-> spec[v].data, marks |-> {}]
    BY <1>2
  <2>4. vm[v] \in VMRecord
    BY <2>2, <2>3, MarksType DEF VMRecord
  <2> QED
    BY <2>1, <2>3, <2>4 DEF WellFormed
<1>4. BootTypeOK
  <2>1. vm \in [VM -> VMRecord]
    BY <1>3 DEF BootInit
  <2>2. worker \in [VM -> Worker]
    BY IdleType DEF BootInit
  <2>3. source \in SourceDocs /\ view \in SourceDocs /\ edited \subseteq Source
        /\ disturbances \in 0 .. MaxDisturbances
    BY BootAssumption DEF BootInit
  <2> QED
    BY <1>1, <1>3, <2>1, <2>2, <2>3 DEF BootTypeOK
<1>5. \A v \in VM : worker[v] = Idle /\ vm[v].marks = {} /\ ~Requested(v)
  BY <1>2 DEF BootInit, Requested
<1>6. \A v \in VM : WorkerInv(v)
  BY <1>5, IdleType DEF WorkerInv
<1>7. \A n \in Source, x \in {"linux", "windows"} : SourceInv(n, x)
  BY <1>5 DEF SourceInv, Sharing, BootInit
<1> QED
  BY <1>1, <1>4, <1>6, <1>7 DEF BootInv

\* Types and workers, when one VM and its worker change and no source does.
LEMMA OneVMInv ==
    ASSUME BootInv, NEW v \in VM, NEW m \in VMRecord, NEW k \in Worker,
           vm' = [vm EXCEPT ![v] = m], worker' = [worker EXCEPT ![v] = k],
           UNCHANGED <<spec, view, edited>>,
           source' \in SourceDocs, disturbances' \in 0 .. MaxDisturbances,
           m.kind = "nocloud" /\ m.ref # NoSource => m.data = EmptyDoc,
           WorkerInv(v)'
    PROVE  /\ BootTypeOK'
           /\ (\A w \in VM : WellFormed(spec[w]))'
           /\ (\A w \in VM : WorkerInv(w))'
           /\ vm'[v] = m /\ worker'[v] = k
           /\ \A w \in VM \ {v} : vm'[w] = vm[w] /\ worker'[w] = worker[w]
<1>1. /\ vm'[v] = m /\ worker'[v] = k
      /\ \A w \in VM \ {v} : vm'[w] = vm[w] /\ worker'[w] = worker[w]
  BY DEF BootInv, BootTypeOK
<1>2. vm' \in [VM -> VMRecord] /\ worker' \in [VM -> Worker]
  BY DEF BootInv, BootTypeOK
<1>3. BootTypeOK'
  BY <1>1, <1>2 DEF BootInv, BootTypeOK
<1>4. \A w \in VM \ {v} : WorkerInv(w)'
  BY <1>1 DEF BootInv, WorkerInv, Requested, Findable
<1> QED
  BY <1>1, <1>3, <1>4 DEF BootInv

\* Sources, when only one VM changes: what holds of the others is kept, and it has
\* to be shown of that VM.
LEMMA OneVMSources ==
    ASSUME BootInv, NEW v \in VM,
           UNCHANGED <<spec, source, view, edited>>,
           \A w \in VM \ {v} : vm'[w] = vm[w] /\ worker'[w] = worker[w],
           Requested(v) => vm'[v].ref = vm[v].ref /\ Requested(v)',
           \A n \in Source, x \in {"linux", "windows"} :
               n \notin edited /\ SharedBy(n, x) /\ SourceInv(n, x) /\ v \in Sharing(n)'
               => VMMergeInv(n, x, v)'
    PROVE  (\A n \in Source, x \in {"linux", "windows"} : SourceInv(n, x))'
<1> SUFFICES ASSUME NEW n \in Source, NEW x \in {"linux", "windows"},
                    n \notin edited', SharedBy(n, x)'
             PROVE  /\ Bootstrapped(view'[n], x) => Bootstrapped(source'[n], x)
                    /\ \A w \in Sharing(n)' : VMMergeInv(n, x, w)'
  BY DEF SourceInv
<1>1. Sharing(n) \subseteq Sharing(n)'
  BY DEF Sharing, Requested
<1>2. SharedBy(n, x)
  BY <1>1 DEF SharedBy
<1>3. SourceInv(n, x)
  BY DEF BootInv
<1>4. \A w \in Sharing(n)' \ {v} : w \in VM \ {v} /\ w \in Sharing(n)
  BY DEF Sharing, Requested
<1>5. \A w \in Sharing(n)' \ {v} : VMMergeInv(n, x, w)'
  BY <1>2, <1>3, <1>4 DEF SourceInv, VMMergeInv
<1>6. v \in Sharing(n)' => VMMergeInv(n, x, v)'
  BY <1>2, <1>3
<1> QED
  BY <1>2, <1>3, <1>5, <1>6 DEF SourceInv

\* Admission keeps the invariant: the VM may share a source from now on, but its
\* worker has not started and no marker says otherwise.
LEMMA AdmitInv ==
    ASSUME BootInv, NEW v \in VM, Admit(v)
    PROVE  BootInv'
<1> DEFINE m == EnsureMonitoringBootstrap(spec[v], OwnSource[v])
<1>1. spec[v] \in Submitted /\ WellFormed(spec[v]) /\ OwnSource[v] \in Source
  BY BootAssumption DEF BootInv, BootTypeOK
<1>2. Admissible(spec[v], m)
  BY <1>1, AdmitType
<1>3. /\ vm[v].stage = "new" /\ vm' = [vm EXCEPT ![v] = m]
      /\ UNCHANGED <<spec, source, view, edited, worker, disturbances>>
  BY DEF Admit
<1> HIDE DEF m
<1>4. worker[v] = Idle /\ vm[v].marks = {} /\ ~Requested(v)
  BY <1>3 DEF BootInv, WorkerInv, Requested
<1>5. vm'[v] = m /\ worker'[v] = Idle /\ spec'[v] = spec[v]
  BY <1>3, <1>4 DEF BootInv, BootTypeOK
<1>6. WorkerInv(v)'
  BY <1>2, <1>5, IdleType DEF Admissible, WorkerInv, Requested
<1>7. worker' = [worker EXCEPT ![v] = Idle]
  BY <1>3, <1>4 DEF BootInv, BootTypeOK
<1>8. /\ BootTypeOK' /\ (\A w \in VM : WellFormed(spec[w]))' /\ (\A w \in VM : WorkerInv(w))'
      /\ \A w \in VM \ {v} : vm'[w] = vm[w] /\ worker'[w] = worker[w]
  <2>1. m \in VMRecord /\ (m.kind = "nocloud" /\ m.ref # NoSource => m.data = EmptyDoc)
    BY <1>2 DEF Admissible
  <2>2. source' \in SourceDocs /\ disturbances' \in 0 .. MaxDisturbances
    BY <1>3 DEF BootInv, BootTypeOK
  <2> QED
    BY <1>3, <1>6, <1>7, <2>1, <2>2, IdleType, OneVMInv
<1>9. \A n \in Source, x \in {"linux", "windows"} : VMMergeInv(n, x, v)'
  BY <1>2, <1>5, IdleType DEF Admissible, VMMergeInv
<1>10. (\A n \in Source, x \in {"linux", "windows"} : SourceInv(n, x))'
  BY <1>3, <1>4, <1>8, <1>9, OneVMSources
<1> QED
  BY <1>8, <1>10 DEF BootInv

\* Reading a source keeps it: what the worker will merge into is a copy of the
\* informer's copy.
LEMMA ReadInv ==
    ASSUME BootInv, NEW v \in VM, ReadSource(v)
    PROVE  BootInv'
<1> DEFINE k == IF ~Findable(v) THEN [Idle EXCEPT !.at = "fail"]
                ELSE IF view[vm[v].ref] # Missing
                THEN [at |-> "merge", base |-> view[vm[v].ref]]
                ELSE [Idle EXCEPT !.at = IF vm[v].kind = "sysprep" THEN "fail" ELSE "create"]
<1>1. /\ worker[v].at = "idle" /\ Requested(v) /\ "merged" \notin vm[v].marks
      /\ worker' = [worker EXCEPT ![v] = k]
      /\ UNCHANGED <<spec, vm, source, view, edited, disturbances>>
  BY DEF ReadSource, MergePending
<1>2. /\ k \in Worker /\ k.at \in {"merge", "fail", "create"}
      /\ k.at # "fail" => Findable(v)
      /\ k.at = "create" => k.base = EmptyDoc
      /\ k.at = "merge" => k.base = view[vm[v].ref]
  <2>1. \A at \in {"fail", "create"} : [Idle EXCEPT !.at = at] = [at |-> at, base |-> EmptyDoc]
    BY DEF Idle
  <2>2. CASE ~Findable(v)
    BY <2>1, <2>2, EmptyDocType DEF Worker
  <2>3. CASE Findable(v) /\ view[vm[v].ref] # Missing
    <3>1. view[vm[v].ref] \in Doc
      BY <2>3, BootParts DEF BootInv, BootTypeOK, SourceDocs, Findable
    <3> QED
      BY <2>3, <3>1 DEF Worker
  <2>4. CASE Findable(v) /\ view[vm[v].ref] = Missing
    BY <2>1, <2>4, EmptyDocType DEF Worker
  <2> QED
    BY <2>2, <2>3, <2>4
<1> HIDE DEF k
<1>3. vm' = [vm EXCEPT ![v] = vm[v]] /\ vm[v] \in VMRecord /\ vm'[v] = vm[v]
  BY <1>1 DEF BootInv, BootTypeOK
<1>4. worker'[v] = k /\ (Findable(v)' <=> Findable(v)) /\ (Requested(v)' <=> Requested(v))
  BY <1>1, <1>3 DEF BootInv, BootTypeOK, Findable, Requested
<1>5. WorkerInv(v)'
  BY <1>1, <1>2, <1>3, <1>4 DEF BootInv, WorkerInv, Requested
<1>6. /\ BootTypeOK' /\ (\A w \in VM : WellFormed(spec[w]))' /\ (\A w \in VM : WorkerInv(w))'
      /\ \A w \in VM \ {v} : vm'[w] = vm[w] /\ worker'[w] = worker[w]
  <2>1. vm[v].kind = "nocloud" /\ vm[v].ref # NoSource => vm[v].data = EmptyDoc
    BY DEF BootInv, BootTypeOK
  <2>2. source' \in SourceDocs /\ disturbances' \in 0 .. MaxDisturbances
    BY <1>1 DEF BootInv, BootTypeOK
  <2> QED
    BY <1>1, <1>2, <1>3, <1>5, <2>1, <2>2, OneVMInv
<1>7. ASSUME NEW n \in Source, NEW x \in {"linux", "windows"},
             n \notin edited, SharedBy(n, x), SourceInv(n, x), v \in Sharing(n)'
      PROVE  VMMergeInv(n, x, v)'
  <2>1. vm[v].ref = n /\ v \in Sharing(n)
    BY <1>1, <1>3, <1>7 DEF Sharing, Requested
  <2>2. Bootstrapped(view[n], x) => Bootstrapped(source[n], x)
    BY <1>7 DEF SourceInv
  <2> QED
    BY <1>1, <1>2, <1>3, <1>4, <2>1, <2>2 DEF VMMergeInv
<1>8. (\A n \in Source, x \in {"linux", "windows"} : SourceInv(n, x))'
  BY <1>1, <1>3, <1>4, <1>6, <1>7, OneVMSources
<1> QED
  BY <1>6, <1>8 DEF BootInv

\* A worker's step keeps everything but what it says of its own source: of the
\* state of the other workers nothing changes, and a source is only written with
\* something that bootstraps whom it did, or bootstraps nobody's copy.
LEMMA WorkerStepInv ==
    ASSUME BootInv, NEW v \in VM, NEW k \in Worker,
           worker[v].at \in {"create", "merge"},
           worker' = [worker EXCEPT ![v] = k],
           k.at \in {"merge", "mark", "fail"},
           UNCHANGED <<spec, vm, view, edited, disturbances>>,
           source' \in SourceDocs,
           \A n \in Source, x \in {"linux", "windows"} :
               n \notin edited /\ SharedBy(n, x) /\ SourceInv(n, x)
               => /\ Bootstrapped(source[n], x) => Bootstrapped(source'[n], x)
                  /\ v \in Sharing(n) => VMMergeInv(n, x, v)'
    PROVE  BootInv'
<1>1. Requested(v) /\ Findable(v)
  BY DEF BootInv, WorkerInv
<1>2. vm' = [vm EXCEPT ![v] = vm[v]] /\ vm[v] \in VMRecord /\ vm'[v] = vm[v]
      /\ worker'[v] = k
  BY DEF BootInv, BootTypeOK
<1>3. (Findable(v)' <=> Findable(v)) /\ (Requested(v)' <=> Requested(v))
  BY <1>2 DEF Findable, Requested
<1>4. WorkerInv(v)'
  <2>1. worker[v] # Idle
    BY IdleType
  <2> QED
    BY <1>1, <1>2, <1>3, <2>1 DEF BootInv, WorkerInv
<1>5. /\ BootTypeOK' /\ (\A w \in VM : WellFormed(spec[w]))' /\ (\A w \in VM : WorkerInv(w))'
      /\ \A w \in VM \ {v} : vm'[w] = vm[w] /\ worker'[w] = worker[w]
  <2>1. vm[v].kind = "nocloud" /\ vm[v].ref # NoSource => vm[v].data = EmptyDoc
    BY DEF BootInv, BootTypeOK
  <2>2. disturbances' \in 0 .. MaxDisturbances
    BY DEF BootInv, BootTypeOK
  <2> QED
    BY <1>2, <1>4, <2>1, <2>2, OneVMInv
<1>6. ASSUME NEW n \in Source, NEW x \in {"linux", "windows"}, n \notin edited', SharedBy(n, x)'
      PROVE  /\ Bootstrapped(view'[n], x) => Bootstrapped(source'[n], x)
             /\ \A w \in Sharing(n)' : VMMergeInv(n, x, w)'
  <2>1. Sharing(n)' = Sharing(n)
    BY DEF Sharing, Requested
  <2>2. SharedBy(n, x) /\ SourceInv(n, x)
    BY <1>6, <2>1 DEF SharedBy, BootInv
  <2>3. Bootstrapped(source[n], x) => Bootstrapped(source'[n], x)
    BY <1>6, <2>2
  <2>4. Bootstrapped(view'[n], x) => Bootstrapped(source'[n], x)
    BY <1>6, <2>2, <2>3 DEF SourceInv
  <2>5. \A w \in Sharing(n) \ {v} : VMMergeInv(n, x, w)'
    BY <1>5, <1>6, <2>2, <2>3 DEF SourceInv, VMMergeInv, Sharing
  <2>6. v \in Sharing(n) => VMMergeInv(n, x, v)'
    BY <1>6, <2>2
  <2> QED
    BY <2>1, <2>4, <2>5, <2>6
<1> QED
  BY <1>5, <1>6 DEF BootInv, SourceInv

\* The source of a worker, and whose it is.
LEMMA OwnSourceShared ==
    ASSUME BootInv, NEW v \in VM, worker[v].at \in {"create", "merge", "mark"}
    PROVE  /\ vm[v].ref \in Source
           /\ v \in Sharing(vm[v].ref)
           /\ \A n : v \in Sharing(n) => n = vm[v].ref
           /\ \A n, x : v \in Sharing(n) /\ SharedBy(n, x) => spec[v].os = x
           /\ spec[v].os \in {"linux", "windows"}
           /\ Findable(v)
BY BootParts DEF BootInv, WorkerInv, Findable, Sharing, SharedBy

\* Creating a Secret keeps the invariant: nobody's copy of a missing source
\* bootstraps anything.
LEMMA CreateInv ==
    ASSUME BootInv, NEW v \in VM, CreateSecret(v)
    PROVE  BootInv'
<1>1. /\ worker[v].at = "create" /\ worker[v].base = EmptyDoc
      /\ worker[v] \in Worker
      /\ UNCHANGED <<spec, vm, view, edited, disturbances>>
  BY DEF CreateSecret, BootInv, WorkerInv, BootTypeOK
<1>2. vm[v].ref \in Source /\ \A n : v \in Sharing(n) => n = vm[v].ref
  BY <1>1, OwnSourceShared
<1>3. \A at \in {"merge", "fail"} :
          [worker[v] EXCEPT !.at = at] = [at |-> at, base |-> EmptyDoc]
  BY <1>1 DEF Worker
<1>4. \A at \in {"merge", "fail"} : [at |-> at, base |-> EmptyDoc] \in Worker
  BY EmptyDocType DEF Worker
<1>5. CASE source[vm[v].ref] = Missing
  <2> DEFINE k == [at |-> "merge", base |-> EmptyDoc]
  <2>1. source' = [source EXCEPT ![vm[v].ref] = EmptyDoc]
    BY <1>5 DEF CreateSecret
  <2>2. worker' = [worker EXCEPT ![v] = k]
    BY <1>3, <1>5 DEF CreateSecret
  <2>3. source' \in SourceDocs
    BY <2>1, EmptyDocType DEF BootInv, BootTypeOK, SourceDocs
  <2>4. k.at = "merge" /\ k.base = EmptyDoc /\ worker'[v] = k /\ vm'[v] = vm[v]
    BY <1>1, <2>2 DEF BootInv, BootTypeOK
  <2> HIDE DEF k
  <2>5. ASSUME NEW n \in Source, NEW x \in {"linux", "windows"},
               n \notin edited, SharedBy(n, x), SourceInv(n, x)
        PROVE  /\ Bootstrapped(source[n], x) => Bootstrapped(source'[n], x)
               /\ v \in Sharing(n) => VMMergeInv(n, x, v)'
    <3>1. Bootstrapped(source[n], x) => Bootstrapped(source'[n], x)
      BY <1>5, <2>1, MissingDoc DEF BootInv, BootTypeOK, SourceDocs
    <3>2. ASSUME v \in Sharing(n)
          PROVE  VMMergeInv(n, x, v)'
      <4>1. n = vm[v].ref
        BY <1>2, <3>2
      <4>2. "merged" \notin vm[v].marks
        BY <1>5, <2>5, <3>2, <4>1, MissingDoc DEF SourceInv, VMMergeInv
      <4> QED
        BY <2>4, <4>2, EmptyDocType DEF VMMergeInv
    <3> QED
      BY <3>1, <3>2
  <2>6. k \in Worker
    BY <1>4 DEF k
  <2> QED
    BY <1>1, <2>2, <2>3, <2>4, <2>5, <2>6, WorkerStepInv
<1>6. CASE source[vm[v].ref] # Missing
  <2> DEFINE k == [at |-> "fail", base |-> EmptyDoc]
  <2>1. source' = source
    BY <1>6 DEF CreateSecret
  <2>2. worker' = [worker EXCEPT ![v] = k]
    BY <1>3, <1>6 DEF CreateSecret
  <2>3. k.at = "fail" /\ worker'[v] = k /\ vm'[v] = vm[v] /\ source' \in SourceDocs
    BY <1>1, <2>1, <2>2 DEF BootInv, BootTypeOK
  <2>4. k \in Worker
    BY <1>4
  <2> HIDE DEF k
  <2>5. \A n \in Source, x \in {"linux", "windows"} :
            n \notin edited /\ SharedBy(n, x) /\ SourceInv(n, x)
            => /\ Bootstrapped(source[n], x) => Bootstrapped(source'[n], x)
               /\ v \in Sharing(n) => VMMergeInv(n, x, v)'
    BY <2>1, <2>3 DEF SourceInv, VMMergeInv
  <2> QED
    BY <1>1, <2>2, <2>3, <2>4, <2>5, WorkerStepInv
<1> QED
  BY <1>5, <1>6

\* Patching a source keeps the invariant: the patch bootstraps whoever shares the
\* source, whatever the source held, and a merge that changes nothing had a base
\* that was bootstrapped.
LEMMA PatchInv ==
    ASSUME BootInv, NEW v \in VM, PatchSource(v)
    PROVE  BootInv'
<1> DEFINE n == vm[v].ref
           k(at) == [at |-> at, base |-> worker[v].base]
<1>1. /\ worker[v].at = "merge" /\ worker[v] \in Worker
      /\ UNCHANGED <<spec, vm, view, edited, disturbances>>
  BY DEF PatchSource, BootInv, BootTypeOK
<1>2. /\ n \in Source /\ Findable(v) /\ spec[v].os \in {"linux", "windows"}
      /\ v \in Sharing(n)
      /\ \A o : v \in Sharing(o) => o = n
      /\ \A o, x : v \in Sharing(o) /\ SharedBy(o, x) => spec[v].os = x
  BY <1>1, OwnSourceShared
<1>3. \A at \in {"mark", "fail"} :
          k(at) \in Worker /\ k(at).at = at /\ [worker[v] EXCEPT !.at = at] = k(at)
  BY <1>1 DEF Worker
<1> HIDE DEF n, k
<1>4. SourceMergeable(v) => MergeSource(v) \in Doc /\ Bootstrapped(MergeSource(v), spec[v].os)
  BY <1>2, MergeSourceType DEF BootInv
<1>5. CASE worker' = [worker EXCEPT ![v].at = "fail"] /\ UNCHANGED source
  <2>1. worker' = [worker EXCEPT ![v] = k("fail")]
    BY <1>3, <1>5
  <2>2. worker'[v] = k("fail") /\ vm'[v] = vm[v] /\ source' \in SourceDocs
    BY <1>1, <1>5, <2>1 DEF BootInv, BootTypeOK
  <2>3. \A o \in Source, x \in {"linux", "windows"} :
            o \notin edited /\ SharedBy(o, x) /\ SourceInv(o, x)
            => /\ Bootstrapped(source[o], x) => Bootstrapped(source'[o], x)
               /\ v \in Sharing(o) => VMMergeInv(o, x, v)'
    BY <1>3, <1>5, <2>2 DEF SourceInv, VMMergeInv
  <2> QED
    BY <1>1, <1>3, <2>1, <2>2, <2>3, WorkerStepInv
<1>6. CASE /\ SourceMergeable(v) /\ MergeSource(v) = worker[v].base
           /\ worker' = [worker EXCEPT ![v].at = "mark"] /\ UNCHANGED source
  <2>1. worker' = [worker EXCEPT ![v] = k("mark")]
    BY <1>3, <1>6
  <2>2. worker'[v] = k("mark") /\ vm'[v] = vm[v] /\ source' \in SourceDocs
    BY <1>1, <1>6, <2>1 DEF BootInv, BootTypeOK
  <2>3. ASSUME NEW o \in Source, NEW x \in {"linux", "windows"},
               o \notin edited, SharedBy(o, x), SourceInv(o, x), v \in Sharing(o)
        PROVE  VMMergeInv(o, x, v)'
    <3>1. Bootstrapped(worker[v].base, x)
      BY <1>2, <1>4, <1>6, <2>3
    <3>2. Bootstrapped(source[o], x)
      BY <1>1, <2>3, <3>1 DEF SourceInv, VMMergeInv
    <3> QED
      BY <1>3, <1>6, <2>2, <3>2 DEF VMMergeInv
  <2>4. \A o \in Source, x \in {"linux", "windows"} :
            o \notin edited /\ SharedBy(o, x) /\ SourceInv(o, x)
            => /\ Bootstrapped(source[o], x) => Bootstrapped(source'[o], x)
               /\ v \in Sharing(o) => VMMergeInv(o, x, v)'
    BY <1>6, <2>3
  <2> QED
    BY <1>1, <1>3, <2>1, <2>2, <2>4, WorkerStepInv
<1>7. CASE /\ SourceMergeable(v)
           /\ worker' = [worker EXCEPT ![v].at = "mark"]
           /\ source' = [source EXCEPT ![n] = MergeSource(v)]
  <2>1. worker' = [worker EXCEPT ![v] = k("mark")]
    BY <1>3, <1>7
  <2>2. worker'[v] = k("mark") /\ vm'[v] = vm[v] /\ source' \in SourceDocs
    BY <1>1, <1>2, <1>4, <1>7, <2>1 DEF BootInv, BootTypeOK, SourceDocs
  <2>3. /\ source'[n] = MergeSource(v)
        /\ \A o \in Source \ {n} : source'[o] = source[o]
    BY <1>2, <1>7 DEF BootInv, BootTypeOK, SourceDocs
  <2>4. ASSUME NEW o \in Source, NEW x \in {"linux", "windows"}, SharedBy(o, x)
        PROVE  /\ Bootstrapped(source[o], x) => Bootstrapped(source'[o], x)
               /\ v \in Sharing(o) => VMMergeInv(o, x, v)'
    <3>1. CASE o = n
      BY <1>2, <1>3, <1>4, <1>7, <2>2, <2>3, <2>4, <3>1 DEF VMMergeInv
    <3>2. CASE o # n
      BY <1>2, <2>3, <3>2
    <3> QED
      BY <3>1, <3>2
  <2>5. \A o \in Source, x \in {"linux", "windows"} :
            o \notin edited /\ SharedBy(o, x) /\ SourceInv(o, x)
            => /\ Bootstrapped(source[o], x) => Bootstrapped(source'[o], x)
               /\ v \in Sharing(o) => VMMergeInv(o, x, v)'
    BY <2>4
  <2> QED
    BY <1>1, <1>3, <2>1, <2>2, <2>5, WorkerStepInv
<1> QED
  BY <1>5, <1>6, <1>7 DEF PatchSource, n

\* Marking the merge keeps the invariant: who marks it merged has patched the
\* source, or has found it bootstrapped.
LEMMA MarkMergeInv ==
    ASSUME BootInv, NEW v \in VM, MarkMerge(v)
    PROVE  BootInv'
<1> DEFINE marks == IF worker[v].at = "mark"
                    THEN (vm[v].marks \ {"merge-error"}) \cup {"merged"}
                    ELSE vm[v].marks \cup {"merge-error"}
           m == [stage |-> vm[v].stage, kind |-> vm[v].kind, ref |-> vm[v].ref,
                 data |-> vm[v].data, marks |-> marks]
<1>1. /\ worker[v].at \in {"mark", "fail"} /\ worker' = [worker EXCEPT ![v] = Idle]
      /\ vm' = [vm EXCEPT ![v].marks = marks]
      /\ UNCHANGED <<spec, source, view, edited, disturbances>>
  BY DEF MarkMerge
<1>2. vm[v] \in VMRecord /\ vm[v].marks \in Marks
  BY BootParts DEF BootInv, BootTypeOK
<1>3. /\ marks \in Marks
      /\ marks \cap {"merge", "sysprep"} = vm[v].marks \cap {"merge", "sysprep"}
      /\ "merged" \in marks <=> worker[v].at = "mark" \/ "merged" \in vm[v].marks
  BY <1>1, <1>2 DEF Marks
<1> HIDE DEF marks
<1>4. [vm[v] EXCEPT !.marks = marks] = m
  BY <1>2 DEF VMRecord
<1>5. vm' = [vm EXCEPT ![v] = m]
  BY <1>1, <1>4
<1>6. m \in VMRecord
  BY <1>2, <1>3 DEF VMRecord
<1>7. /\ m.stage = vm[v].stage /\ m.kind = vm[v].kind /\ m.ref = vm[v].ref
      /\ m.data = vm[v].data /\ m.marks = marks
  OBVIOUS
<1> HIDE DEF m
<1>8. vm'[v] = m /\ worker'[v] = Idle /\ spec'[v] = spec[v]
  BY <1>1, <1>5 DEF BootInv, BootTypeOK
<1>9. (Requested(v)' <=> Requested(v)) /\ (Findable(v)' <=> Findable(v))
  BY <1>3, <1>7, <1>8 DEF Requested, Findable
<1>10. Requested(v) /\ vm[v].stage # "new" /\ worker[v] # Idle
  BY <1>1, IdleType DEF BootInv, WorkerInv
<1>11. WorkerInv(v)'
  BY <1>1, <1>3, <1>7, <1>8, <1>9, <1>10, IdleType DEF BootInv, WorkerInv
<1>12. /\ BootTypeOK' /\ (\A w \in VM : WellFormed(spec[w]))' /\ (\A w \in VM : WorkerInv(w))'
       /\ \A w \in VM \ {v} : vm'[w] = vm[w] /\ worker'[w] = worker[w]
  <2>1. m.kind = "nocloud" /\ m.ref # NoSource => m.data = EmptyDoc
    BY <1>7 DEF BootInv, BootTypeOK
  <2>2. source' \in SourceDocs /\ disturbances' \in 0 .. MaxDisturbances
    BY <1>1 DEF BootInv, BootTypeOK
  <2> QED
    BY <1>1, <1>5, <1>6, <1>11, <2>1, <2>2, IdleType, OneVMInv
<1>13. ASSUME NEW n \in Source, NEW x \in {"linux", "windows"},
              n \notin edited, SharedBy(n, x), SourceInv(n, x), v \in Sharing(n)'
       PROVE  VMMergeInv(n, x, v)'
  <2>1. v \in Sharing(n)
    BY <1>7, <1>8, <1>10, <1>13 DEF Sharing
  <2>2. VMMergeInv(n, x, v)
    BY <1>13, <2>1 DEF SourceInv
  <2> QED
    BY <1>1, <1>3, <1>7, <1>8, <2>2, IdleType DEF VMMergeInv
<1>14. (\A n \in Source, x \in {"linux", "windows"} : SourceInv(n, x))'
  BY <1>1, <1>7, <1>8, <1>9, <1>12, <1>13, OneVMSources
<1> QED
  BY <1>12, <1>14 DEF BootInv

\* A worker that is interrupted leaves the invariant: what it has patched stays.
LEMMA InterruptInv ==
    ASSUME BootInv, NEW v \in VM, Interrupt(v)
    PROVE  BootInv'
<1>1. /\ worker' = [worker EXCEPT ![v] = Idle]
      /\ disturbances > 0 /\ disturbances' = disturbances - 1
      /\ UNCHANGED <<spec, vm, source, view, edited>>
  BY DEF Interrupt
<1>2. vm' = [vm EXCEPT ![v] = vm[v]] /\ vm[v] \in VMRecord /\ vm'[v] = vm[v]
      /\ worker'[v] = Idle /\ source' \in SourceDocs
  BY <1>1 DEF BootInv, BootTypeOK
<1>3. (Findable(v)' <=> Findable(v)) /\ (Requested(v)' <=> Requested(v))
  BY <1>2 DEF Findable, Requested
<1>4. WorkerInv(v)'
  BY <1>1, <1>2, <1>3, IdleType DEF BootInv, WorkerInv
<1>5. disturbances' \in 0 .. MaxDisturbances
  BY <1>1, BootAssumption DEF BootInv, BootTypeOK
<1>6. /\ BootTypeOK' /\ (\A w \in VM : WellFormed(spec[w]))' /\ (\A w \in VM : WorkerInv(w))'
      /\ \A w \in VM \ {v} : vm'[w] = vm[w] /\ worker'[w] = worker[w]
  <2>1. vm[v].kind = "nocloud" /\ vm[v].ref # NoSource => vm[v].data = EmptyDoc
    BY DEF BootInv, BootTypeOK
  <2> QED
    BY <1>1, <1>2, <1>4, <1>5, <2>1, IdleType, OneVMInv
<1>7. ASSUME NEW n \in Source, NEW x \in {"linux", "windows"},
             n \notin edited, SharedBy(n, x), SourceInv(n, x), v \in Sharing(n)'
      PROVE  VMMergeInv(n, x, v)'
  <2>1. v \in Sharing(n)
    BY <1>2, <1>3, <1>7 DEF Sharing
  <2> QED
    BY <1>1, <1>2, <1>7, <2>1, IdleType DEF SourceInv, VMMergeInv
<1>8. (\A n \in Source, x \in {"linux", "windows"} : SourceInv(n, x))'
  BY <1>1, <1>2, <1>3, <1>6, <1>7, OneVMSources
<1> QED
  BY <1>6, <1>8 DEF BootInv

\* So does an informer that catches up,
LEMMA SyncInv ==
    ASSUME BootInv, NEW n \in Source, Sync(n)
    PROVE  BootInv'
<1>1. /\ view' = [view EXCEPT ![n] = source[n]]
      /\ UNCHANGED <<spec, vm, source, edited, worker, disturbances>>
  BY DEF Sync
<1>2. /\ BootTypeOK' /\ (\A w \in VM : WellFormed(spec[w]))' /\ (\A w \in VM : WorkerInv(w))'
  BY <1>1 DEF BootInv, BootTypeOK, SourceDocs, WorkerInv, Requested, Findable
<1>3. ASSUME NEW o \in Source, NEW x \in {"linux", "windows"}
      PROVE  SourceInv(o, x)'
  <2>1. SourceInv(o, x) /\ Sharing(o)' = Sharing(o) /\ (SharedBy(o, x)' <=> SharedBy(o, x))
    BY <1>1 DEF BootInv, Sharing, SharedBy, Requested
  <2>2. \A v : VMMergeInv(o, x, v)' <=> VMMergeInv(o, x, v)
    BY <1>1 DEF VMMergeInv
  <2>3. view'[o] \in {view[o], source[o]} /\ source' = source /\ edited' = edited
    BY <1>1 DEF BootInv, BootTypeOK, SourceDocs
  <2> QED
    BY <2>1, <2>2, <2>3 DEF SourceInv
<1> QED
  BY <1>2, <1>3 DEF BootInv

\* and a user's edit, since nothing is claimed of an edited source.
LEMMA EditInv ==
    ASSUME BootInv, NEW n \in Source, EditSource(n)
    PROVE  BootInv'
<1>1. /\ disturbances > 0 /\ disturbances' = disturbances - 1
      /\ edited' = edited \cup {n}
      /\ UNCHANGED <<spec, vm, view, worker>>
  BY DEF EditSource
<1>2. PICK docs \in Documents : source' = [source EXCEPT ![n] = docs[n]]
  BY DEF EditSource
<1>3. docs \in SourceDocs
  BY BootAssumption
<1>4. source' \in SourceDocs /\ \A o \in Source \ {n} : source'[o] = source[o]
  BY <1>2, <1>3 DEF BootInv, BootTypeOK, SourceDocs
<1>5. disturbances' \in 0 .. MaxDisturbances
  BY <1>1, BootAssumption DEF BootInv, BootTypeOK
<1>6. /\ BootTypeOK' /\ (\A w \in VM : WellFormed(spec[w]))' /\ (\A w \in VM : WorkerInv(w))'
  BY <1>1, <1>4, <1>5 DEF BootInv, BootTypeOK, WorkerInv, Requested, Findable
<1>7. ASSUME NEW o \in Source, NEW x \in {"linux", "windows"}
      PROVE  SourceInv(o, x)'
  <2>1. CASE o = n
    BY <1>1, <2>1 DEF SourceInv
  <2>2. CASE o # n
    <3>1. SourceInv(o, x) /\ Sharing(o)' = Sharing(o) /\ (SharedBy(o, x)' <=> SharedBy(o, x))
      BY <1>1 DEF BootInv, Sharing, SharedBy, Requested
    <3>2. source'[o] = source[o] /\ (o \in edited' <=> o \in edited)
      BY <1>1, <1>4, <2>2
    <3>3. \A v : VMMergeInv(o, x, v)' <=> VMMergeInv(o, x, v)
      BY <1>1, <3>2 DEF VMMergeInv
    <3> QED
      BY <1>1, <3>1, <3>2, <3>3 DEF SourceInv
  <2> QED
    BY <2>1, <2>2
<1> QED
  BY <1>6, <1>7 DEF BootInv

\* The invariant is inductive.
LEMMA BootInvNext ==
    ASSUME BootInv, [BootNext]_bootVars
    PROVE  BootInv'
<1>1. CASE BootNext
  <2>1. ASSUME NEW v \in VM, Admit(v) \/ ReconcileSource(v) \/ Interrupt(v)
        PROVE  BootInv'
    BY <2>1, AdmitInv, ReadInv, CreateInv, PatchInv, MarkMergeInv, InterruptInv
       DEF ReconcileSource
  <2>2. ASSUME NEW n \in Source, Sync(n) \/ EditSource(n)
        PROVE  BootInv'
    BY <2>2, SyncInv, EditInv
  <2> QED
    BY <1>1, <2>1, <2>2 DEF BootNext
<1>2. CASE UNCHANGED bootVars
  <2>1. BootTypeOK' /\ (\A w \in VM : WellFormed(spec[w]))'
    BY <1>2 DEF bootVars, BootInv, BootTypeOK
  <2>2. (\A w \in VM : WorkerInv(w))'
    BY <1>2 DEF bootVars, BootInv, WorkerInv, Requested, Findable
  <2>3. (\A n \in Source, x \in {"linux", "windows"} : SourceInv(n, x))'
    BY <1>2 DEF bootVars, BootInv, SourceInv, SharedBy, Sharing, VMMergeInv, Requested
  <2> QED
    BY <2>1, <2>2, <2>3 DEF BootInv
<1> QED
  BY <1>1, <1>2

\* The invariant holds in every reachable state.
LEMMA BootInvariant == BootSpec => []BootInv
<1>1. BootInit => BootInv
  BY BootInitInv
<1>2. BootInv /\ [BootNext]_bootVars => BootInv'
  BY BootInvNext
<1> QED
  BY <1>1, <1>2, PTL DEF BootSpec

(***************************************************************************)
(* What the user has put into a source.  The parts of a document that are   *)
(* the user's are the same in every copy of a source that no user has       *)
(* edited, however far the merges into these copies have got: so it does    *)
(* not matter which copy a patch began with.                               *)
(***************************************************************************)

Merging(v, n) == worker[v].at = "merge" /\ vm[v].ref = n

SamePart(n) ==
    n \notin edited
    => /\ view[n] = Missing \/ UserPart(view[n]) = UserPart(source[n])
       /\ \A v \in VM : Merging(v, n) => UserPart(worker[v].base) = UserPart(source[n])

ContentInv == BootInv /\ \A n \in Source : SamePart(n)

\* Adding a command of the bootstrap leaves the user's commands where they are.
LEMMA UserCommandsKept ==
    ASSUME NEW cmds \in Seq(Command), NEW c \in Command \ {"user"}
    PROVE  LET new == WithCommand(cmds, c)
           IN  {i \in DOMAIN new : new[i] = "user"} = {i \in DOMAIN cmds : cmds[i] = "user"}
<1>1. CASE c \in Range(cmds)
  BY <1>1 DEF WithCommand
<1>2. CASE c \notin Range(cmds)
  <2> DEFINE new == Append(cmds, c)
  <2>1. /\ DOMAIN new = 1 .. Len(cmds) + 1 /\ DOMAIN cmds = 1 .. Len(cmds)
        /\ Len(cmds) \in Nat
    OBVIOUS
  <2>2. \A i \in 1 .. Len(cmds) : new[i] = cmds[i]
    OBVIOUS
  <2>3. new[Len(cmds) + 1] = c
    OBVIOUS
  <2>4. WithCommand(cmds, c) = new
    BY <1>2 DEF WithCommand
  <2> HIDE DEF new
  <2>5. {i \in DOMAIN new : new[i] = "user"} = {i \in DOMAIN cmds : cmds[i] = "user"}
    BY <2>1, <2>2, <2>3
  <2> QED
    BY <2>4, <2>5
<1> QED
  BY <1>1, <1>2

\* Merging the bootstrap keeps the user's part of user data, for Linux,
LEMMA LinuxKeeps ==
    ASSUME NEW doc \in Doc, NEW u, doc.form # "xml"
    PROVE  UserPart(MergeLinux(doc, u)) = UserPart(doc)
<1> DEFINE users == [w \in User |-> IF w \in u /\ doc.users[w] = "absent"
                                    THEN "operator" ELSE doc.users[w]]
           files == doc.files \cup {"linux"}
           once == WithCommand(doc.cmds, "reload")
           cmds == WithCommand(once, "enable")
           merged == MergeLinux(doc, u)
<1>1. merged = [form |-> doc.form, files |-> files, cmds |-> cmds, users |-> users,
                large |-> doc.large]
  BY DocExcept3 DEF MergeLinux
<1>2. {i \in DOMAIN cmds : cmds[i] = "user"} = UserCommands(doc)
  <2>1. doc.cmds \in Seq(Command) /\ once \in Seq(Command)
        /\ {"reload", "enable"} \subseteq Command \ {"user"}
    BY DocParts, Commands, CommandAdded
  <2>2. {i \in DOMAIN once : once[i] = "user"} = UserCommands(doc)
    BY <2>1, UserCommandsKept DEF UserCommands
  <2> HIDE DEF once
  <2> QED
    BY <2>1, <2>2, UserCommandsKept
<1>3. {w \in User : users[w] = "own"} = {w \in User : doc.users[w] = "own"}
  OBVIOUS
<1>4. "user" \in files <=> "user" \in doc.files
  OBVIOUS
<1> HIDE DEF users, files, once, cmds, merged
<1> QED
  BY <1>1, <1>2, <1>3, <1>4 DEF UserPart, UserCommands, merged

\* and for Windows;
LEMMA WindowsKeeps ==
    ASSUME NEW doc \in Doc, doc.form # "xml"
    PROVE  UserPart(MergeWindows(doc)) = UserPart(doc)
<1> DEFINE files == doc.files \cup {"windows"}
           cmds == WithCommand(doc.cmds, "task")
           merged == MergeWindows(doc)
<1>1. merged = [form |-> doc.form, files |-> files, cmds |-> cmds, users |-> doc.users,
                large |-> doc.large]
  BY DocExcept2 DEF MergeWindows
<1>2. {i \in DOMAIN cmds : cmds[i] = "user"} = UserCommands(doc)
  BY DocParts, Commands, UserCommandsKept DEF UserCommands
<1>3. "user" \in files <=> "user" \in doc.files
  OBVIOUS
<1> HIDE DEF files, cmds, merged
<1> QED
  BY <1>1, <1>2, <1>3 DEF UserPart, UserCommands, merged

\* so does whatever a worker makes of the source it has read.
LEMMA MergeSourceKeeps ==
    ASSUME BootTypeOK, NEW v \in VM, SourceMergeable(v)
    PROVE  UserPart(MergeSource(v)) = UserPart(worker[v].base)
<1>1. worker[v].base \in Doc
  BY BootParts
<1>2. CASE vm[v].kind = "sysprep"
  BY <1>1, <1>2, SysprepMerged DEF MergeSource, SourceMergeable, UserPart
<1>3. CASE vm[v].kind # "sysprep"
  <2>1. worker[v].base.form # "xml"
    BY <1>3 DEF SourceMergeable
  <2> QED
    BY <1>1, <1>3, <2>1, LinuxKeeps, WindowsKeeps DEF MergeSource, MergeCloudInit
<1> QED
  BY <1>2, <1>3

\* A document with the user's part of another keeps what the user has put there.
LEMMA SamePartKeeps ==
    ASSUME NEW doc, NEW old, UserPart(doc) = UserPart(old), old.form # "xml"
    PROVE  Keeps(doc, old)
<1>1. doc.form # "xml"
  BY DEF UserPart
<1> DEFINE a == UserPart(doc)
           b == UserPart(old)
<1>2. a.form = b.form /\ a.file = b.file /\ a.cmds = b.cmds /\ a.own = b.own
  OBVIOUS
<1>3. /\ doc.form = old.form /\ (("user" \in doc.files) = ("user" \in old.files))
      /\ UserCommands(doc) = UserCommands(old)
      /\ {u \in User : doc.users[u] = "own"} = {u \in User : old.users[u] = "own"}
  BY <1>1, <1>2 DEF UserPart
<1> QED
  BY <1>3 DEF Keeps

\* A source that is missing has no user's part in common with a document.
LEMMA MissingPart ==
    ASSUME NEW doc \in Doc
    PROVE  UserPart(doc) # UserPart(Missing)
<1>1. Missing.form = "missing"
  BY DEF Missing, EmptyDoc
<1>2. doc.form \in Form
  BY DocParts
<1>3. UserPart(Missing).form = "missing" /\ UserPart(doc).form = doc.form
  BY <1>1 DEF UserPart
<1> QED
  BY <1>2, <1>3 DEF Form

\* One worker changes, and perhaps the source it works on: the copies of the others
\* stay what they are.
LEMMA ContentKept ==
    ASSUME ContentInv, NEW v \in VM, NEW k \in Worker,
           \A w \in VM \ {v} : worker'[w] = worker[w] /\ vm'[w].ref = vm[w].ref,
           worker'[v] = k, UNCHANGED <<view, edited>>,
           \A n \in Source \ edited : UserPart(source'[n]) = UserPart(source[n]),
           \A n \in Source \ edited :
               k.at = "merge" /\ vm'[v].ref = n => UserPart(k.base) = UserPart(source[n])
    PROVE  (\A n \in Source : SamePart(n))'
<1> SUFFICES ASSUME NEW n \in Source, n \notin edited
             PROVE  /\ view[n] = Missing \/ UserPart(view[n]) = UserPart(source'[n])
                    /\ \A w \in VM : Merging(w, n)'
                                     => UserPart(worker'[w].base) = UserPart(source'[n])
  BY DEF SamePart
<1>1. SamePart(n) /\ UserPart(source'[n]) = UserPart(source[n])
  BY DEF ContentInv
<1>2. ASSUME NEW w \in VM, Merging(w, n)'
      PROVE  UserPart(worker'[w].base) = UserPart(source'[n])
  <2>1. CASE w = v
    BY <1>1, <1>2, <2>1 DEF Merging
  <2>2. CASE w # v
    BY <1>1, <1>2, <2>2 DEF Merging, SamePart
  <2> QED
    BY <2>1, <2>2
<1> QED
  BY <1>1, <1>2 DEF SamePart

\* Admission: the VM has no worker yet.
LEMMA AdmitContent ==
    ASSUME ContentInv, NEW v \in VM, Admit(v)
    PROVE  (\A n \in Source : SamePart(n))'
<1> DEFINE m == EnsureMonitoringBootstrap(spec[v], OwnSource[v])
<1>1. /\ vm[v].stage = "new" /\ vm' = [vm EXCEPT ![v] = m]
      /\ UNCHANGED <<source, view, edited, worker>>
  BY DEF Admit
<1> HIDE DEF m
<1>2. worker'[v] = Idle
  BY <1>1 DEF ContentInv, BootInv, WorkerInv
<1>3. \A w \in VM \ {v} : worker'[w] = worker[w] /\ vm'[w].ref = vm[w].ref
  BY <1>1 DEF ContentInv, BootInv, BootTypeOK
<1> QED
  BY <1>1, <1>2, <1>3, IdleType, ContentKept

\* Reading: the base is the informer's copy.
LEMMA ReadContent ==
    ASSUME ContentInv, NEW v \in VM, ReadSource(v)
    PROVE  (\A n \in Source : SamePart(n))'
<1> DEFINE k == worker'[v]
<1>1. UNCHANGED <<spec, vm, source, view, edited, disturbances>>
  BY DEF ReadSource
<1>2. BootInv'
  BY ReadInv DEF ContentInv
<1>3. k \in Worker
  BY <1>2 DEF BootInv, BootTypeOK
<1>4. \A w \in VM \ {v} : worker'[w] = worker[w]
  BY DEF ReadSource, ContentInv, BootInv, BootTypeOK
<1>5. ASSUME k.at = "merge"
      PROVE  k.base = view[vm[v].ref] /\ view[vm[v].ref] # Missing
  <2> DEFINE new(at) == [Idle EXCEPT !.at = at]
  <2>1. new("fail").at = "fail" /\ new("create").at = "create"
    BY DEF Idle
  <2>2. worker \in [VM -> Worker]
    BY DEF ContentInv, BootInv, BootTypeOK
  <2>3. k \in {new("fail"), new("create"), [at |-> "merge", base |-> view[vm[v].ref]]}
    BY <2>2 DEF ReadSource
  <2>4. k = [at |-> "merge", base |-> view[vm[v].ref]]
    BY <1>5, <2>1, <2>3
  <2>5. view[vm[v].ref] # Missing
    BY <1>2, <2>4, <1>3, MissingDoc DEF Worker
  <2> QED
    BY <2>4, <2>5
<1>6. ASSUME NEW n \in Source \ edited, k.at = "merge", vm'[v].ref = n
      PROVE  UserPart(k.base) = UserPart(source[n])
  BY <1>1, <1>5, <1>6 DEF ContentInv, SamePart
<1> HIDE DEF k
<1> QED
  BY <1>1, <1>3, <1>4, <1>6, ContentKept DEF k

\* Creating a Secret: nobody has a copy of a source that was never there.
LEMMA CreateContent ==
    ASSUME ContentInv, NEW v \in VM, CreateSecret(v)
    PROVE  (\A n \in Source : SamePart(n))'
<1>1. /\ worker[v].at = "create" /\ worker[v].base = EmptyDoc /\ worker[v] \in Worker
      /\ UNCHANGED <<spec, vm, view, edited, disturbances>>
  BY DEF CreateSecret, ContentInv, BootInv, WorkerInv, BootTypeOK
<1>2. vm[v].ref \in Source
  BY <1>1, OwnSourceShared DEF ContentInv
<1>3. \A w \in VM \ {v} : worker'[w] = worker[w]
  BY DEF CreateSecret, ContentInv, BootInv, BootTypeOK
<1>4. worker'[v] \in Worker /\ worker'[v].at \in {"merge", "fail"} /\ worker'[v].base = EmptyDoc
  <2>1. BootInv'
    BY CreateInv DEF ContentInv
  <2>2. worker \in [VM -> Worker]
    BY DEF ContentInv, BootInv, BootTypeOK
  <2>3. \A at : [worker[v] EXCEPT !.at = at] = [at |-> at, base |-> EmptyDoc]
    BY <1>1 DEF Worker
  <2>4. worker'[v] \in {[at |-> "merge", base |-> EmptyDoc], [at |-> "fail", base |-> EmptyDoc]}
    BY <2>2, <2>3 DEF CreateSecret
  <2> QED
    BY <2>1, <2>4 DEF BootInv, BootTypeOK
<1>5. CASE source[vm[v].ref] # Missing
  <2>1. source' = source /\ worker'[v].at = "fail"
    <3>1. worker' = [worker EXCEPT ![v].at = "fail"] /\ source' = source
      BY <1>5 DEF CreateSecret
    <3> QED
      BY <1>1, <3>1 DEF ContentInv, BootInv, BootTypeOK, Worker
  <2> QED
    BY <1>1, <1>3, <1>4, <2>1, ContentKept
<1>6. CASE source[vm[v].ref] = Missing
  <2>1. source' = [source EXCEPT ![vm[v].ref] = EmptyDoc]
    BY <1>6 DEF CreateSecret
  <2>2. /\ source'[vm[v].ref] = EmptyDoc
        /\ \A n \in Source \ {vm[v].ref} : source'[n] = source[n]
    BY <1>2, <2>1 DEF ContentInv, BootInv, BootTypeOK, SourceDocs
  <2>3. ASSUME NEW n \in Source, n \notin edited
        PROVE  /\ view[n] = Missing \/ UserPart(view[n]) = UserPart(source'[n])
               /\ \A w \in VM : Merging(w, n)'
                                => UserPart(worker'[w].base) = UserPart(source'[n])
    <3>1. SamePart(n)
      BY DEF ContentInv
    <3>2. CASE n = vm[v].ref
      <4>1. view[n] = Missing
        BY <1>6, <2>3, <3>1, <3>2, MissingPart
           DEF SamePart, ContentInv, BootInv, BootTypeOK, SourceDocs
      <4>2. ASSUME NEW w \in VM, Merging(w, n)
            PROVE  FALSE
        <5>1. worker[w].base \in Doc
          BY BootParts DEF ContentInv, BootInv
        <5> QED
          BY <1>6, <2>3, <3>1, <3>2, <4>2, <5>1, MissingPart DEF SamePart
      <4>3. \A w \in VM : Merging(w, n)' => w = v
        BY <1>1, <1>3, <4>2 DEF Merging
      <4> QED
        BY <1>4, <2>2, <3>2, <4>1, <4>3
    <3>3. CASE n # vm[v].ref
      <4>1. source'[n] = source[n] /\ \A w \in VM : Merging(w, n)' => w # v
        BY <1>1, <2>2, <3>3 DEF Merging
      <4> QED
        BY <1>1, <1>3, <2>3, <3>1, <4>1 DEF SamePart, Merging
    <3> QED
      BY <3>2, <3>3
  <2> QED
    BY <1>1, <2>3 DEF SamePart
<1> QED
  BY <1>5, <1>6

\* Patching: what is written has the user's part of the base, which is that of the
\* source.
LEMMA PatchContent ==
    ASSUME ContentInv, NEW v \in VM, PatchSource(v)
    PROVE  /\ (\A n \in Source : SamePart(n))'
           /\ \A n \in Source \ edited : UserPart(source'[n]) = UserPart(source[n])
<1>1. /\ worker[v].at = "merge" /\ worker[v] \in Worker
      /\ UNCHANGED <<spec, vm, view, edited, disturbances>>
  BY DEF PatchSource, ContentInv, BootInv, BootTypeOK
<1>2. vm[v].ref \in Source
  BY <1>1, OwnSourceShared DEF ContentInv
<1>3. \A w \in VM \ {v} : worker'[w] = worker[w]
  BY DEF PatchSource, ContentInv, BootInv, BootTypeOK
<1>4. worker'[v] \in Worker /\ worker'[v].at \in {"mark", "fail"}
  <2>1. worker' = [worker EXCEPT ![v].at = "mark"] \/ worker' = [worker EXCEPT ![v].at = "fail"]
    BY DEF PatchSource
  <2>2. worker \in [VM -> Worker]
    BY DEF ContentInv, BootInv, BootTypeOK
  <2>3. \A at \in {"mark", "fail"} :
            [worker[v] EXCEPT !.at = at] \in Worker /\ [worker[v] EXCEPT !.at = at].at = at
    BY <1>1 DEF Worker
  <2>4. worker'[v] \in {[worker[v] EXCEPT !.at = "mark"], [worker[v] EXCEPT !.at = "fail"]}
    BY <2>1, <2>2
  <2> QED
    BY <2>3, <2>4
<1>5. \/ source' = source
      \/ /\ SourceMergeable(v)
         /\ source' = [source EXCEPT ![vm[v].ref] = MergeSource(v)]
  BY DEF PatchSource
<1>6. ASSUME NEW n \in Source \ edited
      PROVE  UserPart(source'[n]) = UserPart(source[n])
  <2>1. CASE source'[n] = source[n]
    BY <2>1
  <2>2. CASE source'[n] # source[n]
    <3>1. n = vm[v].ref /\ source'[n] = MergeSource(v) /\ SourceMergeable(v)
      BY <1>2, <1>5, <2>2 DEF ContentInv, BootInv, BootTypeOK, SourceDocs
    <3>2. UserPart(worker[v].base) = UserPart(source[n])
      BY <1>1, <3>1 DEF ContentInv, SamePart, Merging
    <3> QED
      BY <3>1, <3>2, MergeSourceKeeps DEF ContentInv, BootInv
  <2> QED
    BY <2>1, <2>2
<1> QED
  BY <1>1, <1>3, <1>4, <1>6, ContentKept

\* Marking and interruptions end the merge.
LEMMA EndContent ==
    ASSUME ContentInv, NEW v \in VM, MarkMerge(v) \/ Interrupt(v)
    PROVE  (\A n \in Source : SamePart(n))'
<1>1. worker' = [worker EXCEPT ![v] = Idle] /\ UNCHANGED <<source, view, edited>>
  BY DEF MarkMerge, Interrupt
<1>2. \A w \in VM \ {v} : vm'[w].ref = vm[w].ref
  BY DEF MarkMerge, Interrupt, ContentInv, BootInv, BootTypeOK
<1>3. worker'[v] = Idle /\ \A w \in VM \ {v} : worker'[w] = worker[w]
  BY <1>1 DEF ContentInv, BootInv, BootTypeOK
<1> QED
  BY <1>1, <1>2, <1>3, IdleType, ContentKept

\* An informer catches up, or a user edits, of which nothing is claimed.
LEMMA OutsideContent ==
    ASSUME ContentInv, NEW n \in Source, Sync(n) \/ EditSource(n)
    PROVE  (\A o \in Source : SamePart(o))'
<1>1. UNCHANGED <<vm, worker>>
  BY DEF Sync, EditSource
<1>2. ASSUME NEW o \in Source, o \notin edited'
      PROVE  /\ o \notin edited /\ source'[o] = source[o]
             /\ view'[o] \in {view[o], source[o]}
  BY <1>2 DEF Sync, EditSource, ContentInv, BootInv, BootTypeOK, SourceDocs
<1>3. \A o : \A w \in VM : Merging(w, o)' <=> Merging(w, o)
  BY <1>1 DEF Merging
<1> QED
  BY <1>1, <1>2, <1>3 DEF SamePart, ContentInv

\* The invariant is inductive, and a step changes the user's part of no source that
\* is there and that no user edits.
LEMMA ContentNext ==
    ASSUME ContentInv, [BootNext]_bootVars
    PROVE  /\ ContentInv'
           /\ \A n \in Source \ edited' :
                source[n] # Missing => UserPart(source'[n]) = UserPart(source[n])
<1>1. BootInv'
  BY BootInvNext DEF ContentInv
<1>2. ASSUME NEW v \in VM, CreateSecret(v), NEW n \in Source, source[n] # Missing
      PROVE  source'[n] = source[n]
  BY <1>2 DEF CreateSecret, ContentInv, BootInv, BootTypeOK, SourceDocs
<1>3. ASSUME NEW v \in VM, Admit(v) \/ ReadSource(v) \/ MarkMerge(v) \/ Interrupt(v)
      PROVE  source' = source
  BY <1>3 DEF Admit, ReadSource, MarkMerge, Interrupt
<1>4. ASSUME NEW v \in VM, Admit(v) \/ ReconcileSource(v) \/ Interrupt(v)
      PROVE  /\ (\A n \in Source : SamePart(n))'
             /\ \A n \in Source \ edited' :
                  source[n] # Missing => UserPart(source'[n]) = UserPart(source[n])
  <2>1. edited' = edited
    BY <1>4 DEF Admit, ReconcileSource, ReadSource, CreateSecret, PatchSource, MarkMerge,
                Interrupt
  <2> QED
    BY <1>2, <1>3, <1>4, <2>1, AdmitContent, ReadContent, CreateContent, PatchContent,
       EndContent DEF ReconcileSource
<1>5. ASSUME NEW o \in Source, Sync(o) \/ EditSource(o)
      PROVE  /\ (\A n \in Source : SamePart(n))'
             /\ \A n \in Source \ edited' : source'[n] = source[n]
  <2>1. \A n \in Source \ edited' : source'[n] = source[n]
    BY <1>5 DEF Sync, EditSource, ContentInv, BootInv, BootTypeOK, SourceDocs
  <2> QED
    BY <1>5, <2>1, OutsideContent
<1>6. CASE UNCHANGED bootVars
  BY <1>1, <1>6 DEF bootVars, ContentInv, SamePart, Merging
<1>7. CASE BootNext
  BY <1>1, <1>4, <1>5, <1>7 DEF BootNext, ContentInv
<1> QED
  BY <1>6, <1>7

\* The invariant holds in every reachable state.
LEMMA ContentInvariant == BootSpec => []ContentInv
<1>1. BootInit => ContentInv
  <2> SUFFICES ASSUME BootInit PROVE ContentInv
    OBVIOUS
  <2>1. \A v \in VM : worker[v].at = "idle"
    BY IdleType DEF BootInit
  <2> QED
    BY <2>1, BootInitInv DEF BootInit, ContentInv, SamePart, Merging
<1>2. ContentInv /\ [BootNext]_bootVars => ContentInv'
  BY ContentNext
<1> QED
  BY <1>1, <1>2, PTL DEF BootSpec

(***************************************************************************)
(* The theorems.                                                           *)
(***************************************************************************)

\* The types, and no inline data beside a secretRef: admission, the merges, the
\* markers and the edits never leave them.
THEOREM BootTypeCorrect == BootSpec => []BootTypeOK
<1>1. BootInv => BootTypeOK
  BY DEF BootInv
<1> QED
  BY <1>1, BootInvariant, PTL

\* Where VMs of one OS share a source that no user has edited, a marker
\* cloudinit-secret-merged or sysprep-merged is true of the source, for any number
\* of VMs and of workers that merge into it from whatever copies they have.
THEOREM MarkerIsTrue == BootSpec => []MergedMeansBootstrapped
<1>1. ASSUME BootInv
      PROVE  MergedMeansBootstrapped
  <2> SUFFICES ASSUME NEW v \in VM, "merged" \in vm[v].marks, vm[v].ref \notin edited,
                      Homogeneous(vm[v].ref)
               PROVE  /\ source[vm[v].ref] # Missing
                      /\ Bootstrapped(source[vm[v].ref], spec[v].os)
    BY DEF MergedMeansBootstrapped
  <2> DEFINE n == vm[v].ref
             x == spec[v].os
  <2>1. Requested(v) /\ Findable(v) /\ x \in {"linux", "windows"}
    BY <1>1 DEF BootInv, WorkerInv
  <2>2. n \in Source /\ v \in Sharing(n)
    BY <1>1, <2>1, BootParts DEF BootInv, Findable, Sharing
  <2>3. SharedBy(n, x)
    BY <2>2 DEF Homogeneous, SharedBy
  <2>4. SourceInv(n, x)
    BY <1>1, <2>1, <2>2 DEF BootInv
  <2>5. Bootstrapped(source[n], x)
    BY <2>2, <2>3, <2>4 DEF SourceInv, VMMergeInv
  <2> QED
    BY <2>5, MissingDoc
<1>2. BootInv => MergedMeansBootstrapped
  BY <1>1
<1> QED
  BY <1>2, BootInvariant, PTL

\* No reconcile loses what the user has put into a cloud-init Secret that nobody has
\* edited since, for any number of VMs that share it, of workers that patch the
\* whole document from copies of any age (patchCloudInitSecret) and of crashes.
THEOREM ContentIsKept == BootSpec => SecretContentKept
<1>1. ASSUME ContentInv, [BootNext]_bootVars
      PROVE  \A n \in Source :
               source[n] # Missing /\ n \notin edited' /\ source[n].form # "xml"
               => source'[n] # Missing /\ Keeps(source'[n], source[n])
  <2> SUFFICES ASSUME NEW n \in Source, source[n] # Missing, n \notin edited',
                      source[n].form # "xml"
               PROVE  source'[n] # Missing /\ Keeps(source'[n], source[n])
    OBVIOUS
  <2>1. UserPart(source'[n]) = UserPart(source[n]) /\ source[n] \in Doc
    BY <1>1, ContentNext DEF ContentInv, BootInv, BootTypeOK, SourceDocs
  <2> QED
    BY <2>1, SamePartKeeps, MissingPart
<1>2. ContentInv /\ [BootNext]_bootVars
        => [\A n \in Source :
               source[n] # Missing /\ n \notin edited' /\ source[n].form # "xml"
               => source'[n] # Missing /\ Keeps(source'[n], source[n])]_bootVars
  BY <1>1
<1> QED
  BY <1>2, ContentInvariant, PTL DEF BootSpec, SecretContentKept

(***************************************************************************)
(* Refinement of SharedSource.  With ContentInv a patch from an old base    *)
(* keeps the user's part; with SourceInv a marker is set behind a merge.    *)
(***************************************************************************)

OS == {"linux", "windows"}

\* The variables of SharedSource, at one source.
BootedAt(n) == {x \in Waiting(n) : Bootstrapped(source[n], x)}
DoneAt(n) == {spec[v].os : v \in {w \in Sharing(n) : "merged" \in vm[w].marks}}
MixedSources == {n \in Source : ~Homogeneous(n)}

Parts == [form : Form \cup {"missing"}, file : BOOLEAN, cmds : SUBSET Nat, own : SUBSET User]

\* The user's part of whatever a source can be.
LEMMA UserPartType ==
    ASSUME NEW doc \in Doc \cup {Missing}
    PROVE  UserPart(doc) \in Parts
<1>1. CASE doc \in Doc
  <2>1. doc.form \in Form /\ doc.cmds \in Seq(Command)
    BY <1>1, DocParts
  <2>2. UserCommands(doc) \in SUBSET Nat
    BY <2>1 DEF UserCommands
  <2>3. "xml" \in Form
    BY DEF Form
  <2> QED
    BY <2>1, <2>2, <2>3 DEF UserPart, Parts
<1>2. CASE doc = Missing
  <2>1. doc.form = "missing" /\ doc.cmds = <<>>
    BY <1>2 DEF Missing, EmptyDoc
  <2>2. UserCommands(doc) \in SUBSET Nat
    BY <2>1 DEF UserCommands
  <2> QED
    BY <2>1, <2>2 DEF UserPart, Parts
<1> QED
  BY <1>1, <1>2

\* Only VMs of a known OS wait for a source.
LEMMA WaitingType ==
    ASSUME BootInv, NEW n
    PROVE  Waiting(n) \subseteq OS
BY DEF BootInv, WorkerInv, Waiting, Sharing, OS

\* A new VM waits for nothing.
LEMMA SharedInit == BootInit => Shared!Init
<1> SUFFICES ASSUME BootInit PROVE Shared!Init
  OBVIOUS
<1>1. \A v \in VM : vm[v].marks = {}
  BY DEF BootInit
<1>2. \A n : Sharing(n) = {}
  BY <1>1 DEF Sharing, Requested
<1>3. [n \in Source |-> UserPart(source[n])] \in [Source -> Parts]
  BY UserPartType, BootAssumption DEF BootInit, SourceDocs
<1>4. \A n : BootedAt(n) = {} /\ DoneAt(n) = {} /\ Homogeneous(n)
  BY <1>2 DEF BootedAt, DoneAt, Waiting, Homogeneous
<1>5. /\ [n \in Source |-> BootedAt(n)] = [n \in Source |-> {}]
      /\ [n \in Source |-> DoneAt(n)] = [n \in Source |-> {}]
      /\ MixedSources = {}
  BY <1>4 DEF MixedSources
<1> QED
  BY <1>3, <1>5 DEF Shared!Init, Parts, BootedAt, DoneAt, MixedSources, BootInit

\* Steps that leave the sources and the VMs alone.
LEMMA SharedSame ==
    ASSUME UNCHANGED <<spec, vm, source, edited>>
    PROVE  UNCHANGED Shared!sharedVars
BY DEF Shared!sharedVars, Waiting, Sharing, Homogeneous, Requested

\* Admission: one more VM may wait for a source.
LEMMA SharedAdmit ==
    ASSUME ContentInv, NEW v \in VM, Admit(v)
    PROVE  [Shared!Next]_(Shared!sharedVars)
<1> DEFINE m == EnsureMonitoringBootstrap(spec[v], OwnSource[v])
<1> PICK n : n = vm'[v].ref
  OBVIOUS
<1>1. /\ vm[v].stage = "new" /\ vm' = [vm EXCEPT ![v] = m]
      /\ UNCHANGED <<spec, source, edited>>
  BY DEF Admit
<1>2. "merged" \notin m.marks
  <2>1. spec[v] \in Submitted /\ WellFormed(spec[v]) /\ OwnSource[v] \in Source
    BY BootAssumption DEF ContentInv, BootInv, BootTypeOK
  <2> QED
    BY <2>1, AdmitType DEF Admissible
<1> HIDE DEF m
<1>3. /\ vm[v].marks = {} /\ "merged" \notin vm'[v].marks
      /\ \A w \in VM \ {v} : vm'[w] = vm[w]
  BY <1>1, <1>2 DEF ContentInv, BootInv, WorkerInv, BootTypeOK
<1>4. BootInv'
  BY AdmitInv DEF ContentInv
<1>5. /\ \A o : Sharing(o) \subseteq Sharing(o)'
      /\ \A o \in Source \ {n} : Sharing(o)' = Sharing(o)
  BY <1>3 DEF Sharing, Requested
<1>6. \A o \in Source : DoneAt(o)' = DoneAt(o)
  <2>1. \A o \in Source : {w \in Sharing(o) : "merged" \in vm[w].marks}'
                            = {w \in Sharing(o) : "merged" \in vm[w].marks}
    BY <1>3 DEF Sharing, Requested
  <2> QED
    BY <1>1, <2>1 DEF DoneAt
<1>7. /\ \A o \in Source \ {n} : BootedAt(o)' = BootedAt(o)
      /\ \A o \in Source : BootedAt(o) \subseteq BootedAt(o)'
      /\ \A o \in Source : BootedAt(o)' \subseteq OS
  BY <1>1, <1>4, <1>5, WaitingType DEF BootedAt, Waiting, BootInv, WorkerInv, Sharing, OS
<1>8. MixedSources' \in {MixedSources, MixedSources \cup {n}}
  <2>1. \A o \in Source \ {n} : Homogeneous(o)' <=> Homogeneous(o)
    BY <1>1, <1>5 DEF Homogeneous
  <2>2. \A o \in Source : ~Homogeneous(o) => ~Homogeneous(o)'
    BY <1>1, <1>5 DEF Homogeneous
  <2> QED
    BY <2>1, <2>2 DEF MixedSources
<1> DEFINE booted == [o \in Source |-> BootedAt(o)]
           done == [o \in Source |-> DoneAt(o)]
<1>9. done' = done
  BY <1>6
<1>10. CASE n \in Source
  <2>1. booted' = [booted EXCEPT ![n] = @ \cup BootedAt(n)']
    BY <1>7, <1>10
  <2>2. BootedAt(n)' \in SUBSET OS
    BY <1>7, <1>10
  <2>3. Shared!Join(n)
    BY <1>1, <1>8, <1>9, <2>1, <2>2
       DEF Shared!Join, BootedAt, DoneAt, MixedSources, OS
  <2> QED
    BY <1>10, <2>3 DEF Shared!Next
<1>11. CASE n \notin Source
  <2>1. booted' = booted /\ MixedSources' = MixedSources
    BY <1>5, <1>7, <1>8, <1>11, <1>1 DEF MixedSources, Homogeneous
  <2> QED
    BY <1>1, <1>9, <2>1 DEF Shared!sharedVars, BootedAt, DoneAt, MixedSources
<1> QED
  BY <1>10, <1>11

\* Only the source changes: who waits, for what, and who has been told stay.
LEMMA SharedWrite ==
    ASSUME UNCHANGED <<spec, vm>>
    PROVE  /\ \A n : Waiting(n)' = Waiting(n) /\ DoneAt(n)' = DoneAt(n)
           /\ MixedSources' = MixedSources
BY DEF Waiting, Sharing, Requested, DoneAt, MixedSources, Homogeneous

\* Creating a Secret, if nobody else has.
LEMMA SharedCreate ==
    ASSUME ContentInv, NEW v \in VM, CreateSecret(v)
    PROVE  [Shared!Next]_(Shared!sharedVars)
<1> DEFINE n == vm[v].ref
<1>1. worker[v].at = "create" /\ UNCHANGED <<spec, vm, edited>>
  BY DEF CreateSecret
<1>2. n \in Source
  BY <1>1, OwnSourceShared DEF ContentInv
<1>3. CASE source' = source
  BY <1>1, <1>3, SharedSame
<1>4. CASE source[n] = Missing /\ source' = [source EXCEPT ![n] = EmptyDoc]
  <2>1. /\ source'[n] = EmptyDoc
        /\ \A o \in Source \ {n} : source'[o] = source[o]
    BY <1>2, <1>4 DEF ContentInv, BootInv, BootTypeOK, SourceDocs
  <2> DEFINE part == [o \in Source |-> UserPart(source[o])]
             booted == [o \in Source |-> BootedAt(o)]
             done == [o \in Source |-> DoneAt(o)]
  <2>2. part[n] = UserPart(Missing) /\ part' = [part EXCEPT ![n] = UserPart(EmptyDoc)]
    BY <1>2, <1>4, <2>1
  <2>3. done' = done /\ MixedSources' = MixedSources
    BY <1>1, SharedWrite
  <2>4. \A o \in Source : BootedAt(o)' = BootedAt(o)
    BY <1>1, <1>4, <2>1, SharedWrite, MissingDoc, EmptyDocType DEF BootedAt
  <2>5. booted' = booted
    BY <2>4
  <2>6. Shared!Create(n)
    BY <1>1, <2>2, <2>3, <2>5 DEF Shared!Create, BootedAt, DoneAt, MixedSources
  <2> QED
    BY <1>2, <2>6 DEF Shared!Next
<1> QED
  BY <1>3, <1>4 DEF CreateSecret

\* Patching: the user's part stays, and the bootstrap of the writer's OS is added.
LEMMA SharedPatch ==
    ASSUME ContentInv, NEW v \in VM, PatchSource(v)
    PROVE  [Shared!Next]_(Shared!sharedVars)
<1> PICK n, os : n = vm[v].ref /\ os = spec[v].os
  OBVIOUS
<1>1. worker[v].at = "merge" /\ UNCHANGED <<spec, vm, edited>>
  BY DEF PatchSource
<1>2. /\ n \in Source /\ v \in Sharing(n) /\ Findable(v) /\ os \in OS
      /\ os \in Waiting(n) /\ Waiting(n) \subseteq OS
  BY <1>1, OwnSourceShared, WaitingType DEF ContentInv, Waiting, OS
<1>3. CASE source' = source
  BY <1>1, <1>3, SharedSame
<1>4. CASE /\ SourceMergeable(v) /\ source[n] # Missing
           /\ source' = [source EXCEPT ![n] = MergeSource(v)]
  <2>1. /\ source'[n] = MergeSource(v)
        /\ \A o \in Source \ {n} : source'[o] = source[o]
    BY <1>2, <1>4 DEF ContentInv, BootInv, BootTypeOK, SourceDocs
  <2>2. Bootstrapped(source'[n], os)
    BY <1>2, <1>4, <2>1, MergeSourceType DEF ContentInv, BootInv, OS
  <2>3. UserPart(source[n]) # UserPart(Missing)
    BY <1>2, <1>4, MissingPart DEF ContentInv, BootInv, BootTypeOK, SourceDocs
  <2>4. n \notin edited => UserPart(source'[n]) = UserPart(source[n])
    BY <1>2, PatchContent
  <2>5. \A o \in Source : UserPart(source'[o]) \in Parts
    BY PatchInv, UserPartType DEF ContentInv, BootInv, BootTypeOK, SourceDocs
  <2>6. /\ \A o \in Source : BootedAt(o)' \subseteq OS
        /\ \A o \in Source \ {n} : BootedAt(o)' = BootedAt(o)
        /\ os \in BootedAt(n)'
    BY <1>1, <1>2, <2>1, <2>2, SharedWrite, WaitingType DEF BootedAt, ContentInv
  <2>7. n \notin MixedSources => BootedAt(n)' = BootedAt(n) \cup {os}
    <3>1. n \notin MixedSources => Waiting(n) = {os}
      BY <1>2 DEF MixedSources, Homogeneous, Waiting
    <3> QED
      BY <1>1, <2>6, <3>1, SharedWrite DEF BootedAt
  <2> DEFINE part == [o \in Source |-> UserPart(source[o])]
             booted == [o \in Source |-> BootedAt(o)]
             done == [o \in Source |-> DoneAt(o)]
  <2>8. done' = done /\ MixedSources' = MixedSources
    BY <1>1, SharedWrite
  <2>9. /\ part' \in [Source -> Parts] /\ booted' \in [Source -> SUBSET OS]
        /\ \A o \in Source \ {n} : part'[o] = part[o] /\ booted'[o] = booted[o]
    BY <2>1, <2>5, <2>6
  <2>10. /\ part[n] # UserPart(Missing)
         /\ n \notin edited => part'[n] = part[n]
         /\ IF n \in edited \cup MixedSources
            THEN os \in booted'[n]
            ELSE booted'[n] = booted[n] \cup {os}
    BY <1>2, <2>3, <2>4, <2>6, <2>7
  <2>11. Shared!OnlyTo(n)
    BY <2>9 DEF Shared!OnlyTo, BootedAt, Parts, OS
  <2>12. Shared!Merge(n)
    BY <1>1, <1>2, <2>8, <2>10, <2>11
       DEF Shared!Merge, BootedAt, DoneAt, MixedSources, OS
  <2> QED
    BY <1>2, <2>12 DEF Shared!Next
<1> QED
  BY <1>3, <1>4 DEF PatchSource

\* Marking: whoever gets here has seen the bootstrap in the source.
LEMMA SharedMark ==
    ASSUME ContentInv, NEW v \in VM, MarkMerge(v)
    PROVE  [Shared!Next]_(Shared!sharedVars)
<1> PICK n, os : n = vm[v].ref /\ os = spec[v].os
  OBVIOUS
<1> DEFINE marks == IF worker[v].at = "mark"
                    THEN (vm[v].marks \ {"merge-error"}) \cup {"merged"}
                    ELSE vm[v].marks \cup {"merge-error"}
<1>1. /\ worker[v].at \in {"mark", "fail"} /\ vm' = [vm EXCEPT ![v].marks = marks]
      /\ UNCHANGED <<spec, source, edited>>
  BY DEF MarkMerge
<1>2. /\ vm'[v].marks = marks /\ vm'[v].ref = n
      /\ \A w \in VM \ {v} : vm'[w] = vm[w]
  BY <1>1 DEF ContentInv, BootInv, BootTypeOK, VMRecord
<1>3. /\ Requested(v)' <=> Requested(v)
      /\ "merged" \in marks <=> worker[v].at = "mark" \/ "merged" \in vm[v].marks
  BY <1>1, <1>2 DEF Requested
<1> HIDE DEF marks
<1>4. \A o : Sharing(o)' = Sharing(o)
  BY <1>2, <1>3 DEF Sharing, Requested
<1>5. /\ \A o \in Source : BootedAt(o)' = BootedAt(o)
      /\ MixedSources' = MixedSources
  BY <1>1, <1>4 DEF BootedAt, Waiting, MixedSources, Homogeneous
<1>6. CASE worker[v].at = "fail"
  <2>1. \A w \in VM : "merged" \in vm'[w].marks <=> "merged" \in vm[w].marks
    BY <1>2, <1>3, <1>6
  <2>2. \A o \in Source : DoneAt(o)' = DoneAt(o)
    BY <1>1, <1>4, <2>1 DEF DoneAt, Sharing
  <2> QED
    BY <1>1, <1>5, <2>2 DEF Shared!sharedVars, BootedAt, DoneAt, MixedSources
<1>7. CASE worker[v].at = "mark"
  <2>1. /\ n \in Source /\ v \in Sharing(n) /\ os \in OS /\ os \in Waiting(n)
        /\ \A o : v \in Sharing(o) => o = n
    BY <1>7, OwnSourceShared DEF ContentInv, Waiting, OS
  <2>2. os \in BootedAt(n) \/ n \in edited \cup MixedSources
    <3>1. SUFFICES ASSUME n \notin edited, Homogeneous(n) PROVE Bootstrapped(source[n], os)
      BY <2>1 DEF BootedAt, MixedSources
    <3>2. SharedBy(n, os)
      BY <2>1, <3>1 DEF Homogeneous, SharedBy
    <3> QED
      BY <1>7, <2>1, <3>1, <3>2 DEF ContentInv, BootInv, SourceInv, VMMergeInv, OS
  <2>3. /\ \A o \in Source \ {n} : DoneAt(o)' = DoneAt(o)
        /\ DoneAt(n)' = DoneAt(n) \cup {os}
    <3>1. \A o \in Source : \A w \in Sharing(o) :
              "merged" \in vm'[w].marks <=> "merged" \in vm[w].marks \/ w = v
      BY <1>2, <1>3, <1>7 DEF Sharing
    <3> QED
      BY <1>1, <1>4, <2>1, <3>1 DEF DoneAt
  <2> DEFINE booted == [o \in Source |-> BootedAt(o)]
             done == [o \in Source |-> DoneAt(o)]
  <2>4. booted' = booted /\ done' = [done EXCEPT ![n] = @ \cup {os}]
    BY <1>5, <2>1, <2>3
  <2>5. booted[n] = BootedAt(n)
    BY <2>1
  <2>6. Shared!Finish(n)
    BY <1>1, <1>5, <2>1, <2>2, <2>4, <2>5
       DEF Shared!Finish, BootedAt, DoneAt, MixedSources, OS
  <2> QED
    BY <2>1, <2>6 DEF Shared!Next
<1> QED
  BY <1>1, <1>6, <1>7

\* A user's edit.
LEMMA SharedEdit ==
    ASSUME ContentInv, NEW n \in Source, EditSource(n)
    PROVE  [Shared!Next]_(Shared!sharedVars)
<1>1. UNCHANGED <<spec, vm>> /\ edited' = edited \cup {n}
  BY DEF EditSource
<1>2. \A o \in Source \ {n} : source'[o] = source[o]
  BY DEF EditSource, ContentInv, BootInv, BootTypeOK, SourceDocs
<1>3. \A o \in Source : UserPart(source'[o]) \in Parts
  BY EditInv, UserPartType DEF ContentInv, BootInv, BootTypeOK, SourceDocs
<1>4. /\ \A o \in Source : BootedAt(o)' \subseteq OS
      /\ \A o \in Source \ {n} : BootedAt(o)' = BootedAt(o)
  BY <1>1, <1>2, SharedWrite, WaitingType DEF BootedAt, ContentInv
<1> DEFINE part == [o \in Source |-> UserPart(source[o])]
           booted == [o \in Source |-> BootedAt(o)]
           done == [o \in Source |-> DoneAt(o)]
<1>5. done' = done /\ MixedSources' = MixedSources
  BY <1>1, SharedWrite
<1>6. /\ part' \in [Source -> Parts] /\ booted' \in [Source -> SUBSET OS]
      /\ \A o \in Source \ {n} : part'[o] = part[o] /\ booted'[o] = booted[o]
  BY <1>2, <1>3, <1>4
<1>7. Shared!OnlyTo(n)
  BY <1>6 DEF Shared!OnlyTo, BootedAt, Parts, OS
<1>8. Shared!Edit(n)
  BY <1>1, <1>5, <1>7 DEF Shared!Edit, BootedAt, DoneAt, MixedSources
<1> QED
  BY <1>8 DEF Shared!Next

\* Every step of BootSources is one of SharedSource or changes nothing there.
LEMMA SharedStep ==
    ASSUME ContentInv, [BootNext]_bootVars
    PROVE  [Shared!Next]_(Shared!sharedVars)
<1>1. ASSUME NEW v \in VM, ReadSource(v) \/ Interrupt(v)
      PROVE  UNCHANGED Shared!sharedVars
  <2>1. UNCHANGED <<spec, vm, source, edited>>
    BY <1>1 DEF ReadSource, Interrupt
  <2> QED
    BY <2>1, SharedSame
<1>2. ASSUME NEW n \in Source, Sync(n)
      PROVE  UNCHANGED Shared!sharedVars
  <2>1. UNCHANGED <<spec, vm, source, edited>>
    BY <1>2 DEF Sync
  <2> QED
    BY <2>1, SharedSame
<1>3. CASE UNCHANGED bootVars
  <2>1. UNCHANGED <<spec, vm, source, edited>>
    BY <1>3 DEF bootVars
  <2> QED
    BY <2>1, SharedSame
<1>4. CASE BootNext
  BY <1>1, <1>2, <1>4, SharedAdmit, SharedCreate, SharedPatch, SharedMark, SharedEdit
     DEF BootNext, ReconcileSource
<1> QED
  BY <1>3, <1>4

\* The merges implement SharedSource: a worker that writes back a whole document
\* made from an old copy (patchCloudInitSecret, reconcileSysprepSource) has the effect
\* of one that merges into the source as it is, for any number of VMs that share it,
\* of workers and of crashes.
THEOREM MergesAreAtomic == BootSpec => ImplementsSharedSource
<1>1. ContentInv /\ [BootNext]_bootVars => [Shared!Next]_(Shared!sharedVars)
  BY SharedStep
<1> QED
  BY <1>1, SharedInit, ContentInvariant, PTL
     DEF BootSpec, ImplementsSharedSource, Shared!Spec
=============================================================================
