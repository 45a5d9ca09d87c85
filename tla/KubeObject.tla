----------------------------- MODULE KubeObject -----------------------------
(***************************************************************************)
(* Metadata of a Kubernetes object as the operator sees it, and the merge   *)
(* patches that all its writes go through.  Labels and annotations are one  *)
(* function from keys to strings.  A key that is absent maps to "", the     *)
(* zero value that Go's map lookup returns for it: no code of the operator  *)
(* tells an absent annotation from an empty one.                            *)
(***************************************************************************)
CONSTANTS Key, Val

Absent == ""

Metadata == [Key -> Val]

Blank == [k \in Key |-> Absent]

\* The object with the keys of `gone` deleted.
Without(obj, gone) == [k \in Key |-> IF k \in gone THEN Absent ELSE obj[k]]

\* client.MergeFrom(base): the request carries the keys in which the modified
\* object differs from the base it was read as, null for a deleted key, and no
\* resourceVersion; the API server applies it to whatever it holds by then.
MergePatch(base, mod, cur) ==
    [k \in Key |-> IF mod[k] # base[k] THEN mod[k] ELSE cur[k]]

\* A JSON merge patch whose body is the map `body`: a key that is missing from
\* the body is left as it is, so no key is ever deleted.
Overlay(body, cur) ==
    [k \in Key |-> IF body[k] # Absent THEN body[k] ELSE cur[k]]
=============================================================================
