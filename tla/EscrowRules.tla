---------------------------- MODULE EscrowRules -----------------------------
(* check_escrow_reaper_is_adopted.py: what it reads of a repository that     *)
(* spends on Akash, and what it concludes.                                   *)

CONSTANTS
    Prefix,   \* beginnings of the names that deployments have on chain
    Begins    \* the pairs of them of which the first begins the second

Blank == "blank"

(* "str.startswith": of two beginnings of one name the one begins the other. *)
ASSUME PrefixAssumption ==
    /\ Blank \notin Prefix
    /\ Begins \subseteq Prefix \X Prefix
    /\ \A p \in Prefix : <<p, p>> \in Begins
    /\ \A p, q, n \in Prefix :
          /\ <<p, q>> \in Begins /\ <<q, n>> \in Begins => <<p, n>> \in Begins
          /\ <<p, n>> \in Begins /\ <<q, n>> \in Begins =>
                <<p, q>> \in Begins \/ <<q, p>> \in Begins

(* The empty string begins every name.                                      *)
Carries(name, p) == p = Blank \/ <<p, name>> \in Begins

(* How a workflow spells the creation of a deployment, or seems to.         *)
Spellings == {"literal", "variable", "pool", "reassigned", "foreign_pool", "comment"}

(* 40 hex digits; fewer, as a branch or tag may be called; any other name.  *)
Refs == {"sha40", "hex", "name", ""}

(* What stands after `placement-prefix:`, if there is one: a literal, an    *)
(* expression, or nothing before the next line.                             *)
Declared == Prefix \cup {"none", "expression", "next_line"}

(* A repository: the path, the ref and the inputs its caller workflow has   *)
(* for the reaper, and what the caller's expression stands for.  mentions:  *)
(* what of Declared the other files hold; tracked: git lists the files.     *)
Doc == [files: {"some", "none", "no_directory"}, spells: SUBSET Spellings,
        stamps: SUBSET Prefix, ships: BOOLEAN, invokes: BOOLEAN, tracked: BOOLEAN,
        uses: {"canonical", "other", "comment"}, ref: Refs, just_akash_ref: Refs,
        declared: Declared, value: Prefix \cup {Blank},
        mentions: SUBSET Declared]

(* A variable counts if the last assignment before its use holds the CLI,   *)
(* a pool if it is just-akash's, and a comment is no evidence.              *)
Creates(doc) == doc.spells \cap {"literal", "variable", "pool"} # {}

Adopts(doc) == doc.files = "some" /\ doc.uses = "canonical"

(* Bug: a prefix that nobody stamps is as good as any.                      *)
ElsewhereAnything(doc) == TRUE

(* The tracked text of the repository includes the caller itself.           *)
Elsewhere(doc) == doc.declared \in doc.mentions \/ doc.tracked

Pinned(ref) == ref = "sha40"

Findings(doc) ==
    IF doc.ships THEN {f \in {"not_invoked"} : ~doc.invokes}
    ELSE {f \in {"not_adopted", "no_prefix", "nowhere_else", "not_pinned"} :
            \/ f = "not_adopted" /\ ~Adopts(doc)
            \/ f = "no_prefix" /\ Adopts(doc) /\ doc.declared = "none"
            \/ f = "nowhere_else" /\ Adopts(doc) /\ doc.declared # "none" /\ ~Elsewhere(doc)
            \/ f = "not_pinned" /\ Adopts(doc) /\ ~Pinned(doc.ref)}

Audit(doc) ==
    IF doc.files = "no_directory" THEN "nothing_to_check"
    ELSE IF doc.files = "none" THEN "fail"
    ELSE IF ~Creates(doc) THEN "not_applicable"
    ELSE IF Findings(doc) # {} THEN "fail" ELSE "ok"
=============================================================================
