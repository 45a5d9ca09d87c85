------------------------------ MODULE BootData ------------------------------
(***************************************************************************)
(* What a VM boots from, and how the monitoring bootstrap is merged into    *)
(* it: cloud-init user data (internal/cloudinitmerge) and Sysprep answer    *)
(* files (internal/sysprepmerge).                                          *)
(***************************************************************************)
EXTENDS Sequences, Functions

CONSTANT User   \* login names on Linux

\* "yaml" stands for a cloud-config, an empty one included, "ps1" for PowerShell
\* that begins with "#ps1", "powershell" for PowerShell told by other marks,
\* "xml" for an answer file, and "opaque" for what the code cannot parse.
Form == {"yaml", "ps1", "powershell", "xml", "opaque"}

File    == {"user", "linux", "windows"}
Command == {"user", "reload", "enable", "task"}

\* files: write_files, or in an answer file all settings but the commands;
\* cmds: the commands, in the order in which the guest runs them; users: whose
\* keys a user entry carries; large: more than the 2048 bytes KubeVirt takes.
Doc == [form : Form, files : SUBSET File, cmds : Seq(Command),
        users : [User -> {"absent", "own", "operator"}], large : BOOLEAN]

EmptyDoc == [form |-> "yaml", files |-> {}, cmds |-> <<>>,
             users |-> [u \in User |-> "absent"], large |-> FALSE]

Raw(doc) == doc.form \in {"ps1", "powershell"}

\* A command is added at the end, unless it is there.
WithCommand(cmds, c) == IF c \in Range(cmds) THEN cmds ELSE Append(cmds, c)

MutantMergeLinux(doc, u) ==
    [doc EXCEPT !.users = [w \in User |-> IF w \in u /\ @[w] = "absent"
                                          THEN "operator"
                                          ELSE @[w]],
                !.files = @ \cup {"linux"},
                !.cmds = <<"reload", "enable">>]

\* The operator's user comes with its key; an entry of that name that the user
\* data already has is left as it is, without the key.
MergeLinux(doc, u) ==
    [doc EXCEPT !.users = [w \in User |-> IF w \in u /\ @[w] = "absent"
                                          THEN "operator"
                                          ELSE @[w]],
                !.files = @ \cup {"linux"},
                !.cmds = WithCommand(WithCommand(@, "reload"), "enable")]

MergeWindows(doc) ==
    [doc EXCEPT !.files = @ \cup {"windows"}, !.cmds = WithCommand(@, "task")]

\* cloudinitmerge.Merge of what can be parsed; u: the user of the SSH hints, {}
\* without hints.
MergeCloudInit(doc, os, u) ==
    IF Raw(doc) THEN doc
    ELSE IF os = "linux" THEN MergeLinux(doc, u) ELSE MergeWindows(doc)

\* sysprepmerge.Merge writes back what it has parsed, which is the synchronous
\* commands alone: every other setting of the answer file is gone.
MergeSysprep(doc) ==
    IF "task" \in Range(doc.cmds)
    THEN doc
    ELSE [doc EXCEPT !.files = {}, !.cmds = Append(@, "task")]

\* inlineCloudInitFits: either bootstrap script is longer than the limit.
Fits(doc) == ~doc.large /\ doc.files \subseteq {"user"}

\* Does a guest that boots from the document install the exporter?
Bootstrapped(doc, os) ==
    IF doc.form = "xml" THEN "task" \in Range(doc.cmds)
    ELSE IF os = "linux" THEN "linux" \in doc.files /\ {"reload", "enable"} \subseteq Range(doc.cmds)
    ELSE "windows" \in doc.files /\ "task" \in Range(doc.cmds)

\* The places of the user's commands among all that the guest runs.
UserCommands(doc) == {i \in DOMAIN doc.cmds : doc.cmds[i] = "user"}

\* The user's part of a document.  Of an answer file only the form is kept.
UserPart(doc) ==
    IF doc.form = "xml"
    THEN [form |-> "xml", file |-> FALSE, cmds |-> {}, own |-> {}]
    ELSE [form |-> doc.form, file |-> "user" \in doc.files, cmds |-> UserCommands(doc),
          own |-> {u \in User : doc.users[u] = "own"}]

\* What the user has put into one document is in the other, and the user's commands
\* run where they ran.
Keeps(doc, old) ==
    /\ doc.form = old.form
    /\ "user" \in old.files => "user" \in doc.files
    /\ UserCommands(doc) = UserCommands(old)
    /\ \A u \in User : old.users[u] = "own" => doc.users[u] = "own"
=============================================================================
