----------------------------- MODULE WebConfig -----------------------------
(***************************************************************************)
(* populate_config (server.c): httpd.conf is read as a list of words, and  *)
(* a loop over them takes the word behind each keyword.  A "#" means       *)
(* nothing to it: the words of a comment are words like the others.        *)
(***************************************************************************)
EXTENDS Integers, Sequences

CONSTANTS
  Words,     \* the words that are no keywords
  MaxWords   \* how many words the file has at most

Keywords == {"MAX_CONNECTIONS", "ROOT", "INDEX", "PORT"}

WebConfigAssumption == Words \cap Keywords = {} /\ MaxWords \in Nat

VARIABLES
  strings,   \* the words of the file: a constant of the behaviour
  j,         \* how many of them the loop has passed
  config     \* config_data, by keyword

vars == <<strings, j, config>>

Files == UNION {[1 .. n -> Words \cup Keywords] : n \in 0 .. MaxWords}

(* The array of strings is not initialised: what stands behind the last    *)
(* word may be anything.                                                   *)
Unset == "?"

(* config is global: zero.                                                 *)
Zero == ""

Init ==
  /\ strings \in Files /\ j = 0
  /\ config = [k \in Keywords |-> Zero]

-----------------------------------------------------------------------------
(* The word behind a keyword.  Mutant: only if it is not a keyword itself. *)
WordOnly(n) ==
  IF n < Len(strings) /\ strings[n + 1] \in Words THEN strings[n + 1] ELSE Unset
Behind(n) == IF n < Len(strings) THEN strings[n + 1] ELSE Unset

TakeWord ==
  /\ j < Len(strings) /\ j' = j + 1
  /\ config' = IF strings[j'] \in Keywords
                 THEN [config EXCEPT ![strings[j']] = Behind(j')]
                 ELSE config
  /\ UNCHANGED strings

Next == TakeWord

Spec == Init /\ [][Next]_vars

-----------------------------------------------------------------------------
(* A setting is the word behind the last place its keyword has in the part *)
(* of the file that was read, wherever that is - in a comment, behind      *)
(* another keyword, or as a value - and without one it stays zero: a file  *)
(* that names no MAX_CONNECTIONS makes main accept once and return         *)
(* (populate_config against the loop of main).                             *)
Places(k) == {n \in 1 .. j : strings[n] = k}
LastPlace(k) == CHOOSE n \in Places(k) : \A o \in Places(k) : o <= n

LastIsTaken ==
  \A k \in Keywords :
    config[k] = IF Places(k) = {} THEN Zero ELSE
                IF LastPlace(k) = Len(strings) THEN Unset
                                               ELSE strings[LastPlace(k) + 1]
=============================================================================
