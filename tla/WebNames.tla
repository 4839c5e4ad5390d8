------------------------------ MODULE WebNames ------------------------------
(***************************************************************************)
(* file_type (server.c) and what populate_request asks it: the kind of a   *)
(* file is told from the three characters behind the first dot of its      *)
(* name.  They are compared with "jpg" and the others as strings, but no   *)
(* NUL was put behind them: what the fourth byte holds, and those of an    *)
(* ending that is too short, is anybody's guess.                           *)
(***************************************************************************)
EXTENDS Integers, Sequences

LOCAL INSTANCE SequencesExt

CONSTANTS
  Chars,     \* the characters of names
  MaxLen     \* how long a name is at most

WebNamesAssumption == MaxLen \in Nat

VARIABLES
  rel_path,  \* the path of the request
  i, copy,   \* the loop of file_type, and whether it is behind a dot
  ending,    \* its array of that name, as far as it was written
  kind       \* its result

vars == <<rel_path, i, copy, ending, kind>>

Ending == [jpg |-> <<"j", "p", "g">>, gif |-> <<"g", "i", "f">>,
           css |-> <<"c", "s", "s">>, cgi |-> <<"c", "g", "i">>]
Kinds == DOMAIN Ending \cup {"html"}

Slash == "/"
Dot == "."

Named == {<<Slash>> \o t : t \in UNION {[1 .. n -> Chars] : n \in 0 .. MaxLen}}
Root == <<Slash>>
Index == <<"x", Dot, "h", "t", "m">>   \* INDEX of httpd.conf

TypeOK ==
  /\ rel_path \in Named \cup {Root \o Index} /\ i \in 0 .. Len(rel_path)
  /\ copy \in BOOLEAN /\ kind \in Kinds \cup {"none"}
  /\ ending \in Seq({rel_path[n] : n \in DOMAIN rel_path}) /\ Len(ending) <= 3

(* populate_request: the root stands for the index.                        *)
Init ==
  /\ \E p \in Named : rel_path = IF p = Root THEN Root \o Index ELSE p
  /\ i = 0 /\ copy = FALSE /\ ending = <<>> /\ kind = "none"

-----------------------------------------------------------------------------
(* Three characters are enough.  Mutant: the loop goes on to the last dot, *)
(* without beginning again.                                                *)
NeverEnough == FALSE
Enough == copy /\ Len(ending) >= 3

Step ==
  /\ kind = "none" /\ i < Len(rel_path) /\ ~Enough
  /\ ending' = IF copy THEN Append(ending, rel_path[i + 1]) ELSE ending
  /\ copy' = (copy \/ rel_path[i + 1] = Dot)
  /\ i' = i + 1 /\ UNCHANGED <<rel_path, kind>>

Agrees(k) == \E n \in 0 .. 3 : ending = SubSeq(Ending[k], 1, n)
Compared == {"html"} \cup {k \in DOMAIN Ending : Agrees(k)}

Compare ==
  /\ kind = "none" /\ (i = Len(rel_path) \/ Enough)
  /\ kind' \in Compared
  /\ UNCHANGED <<rel_path, i, copy, ending>>

Next == Step \/ Compare

Spec == Init /\ [][Next]_vars

-----------------------------------------------------------------------------
EndsIn(k) == IsSuffix(<<Dot>> \o Ending[k], rel_path)
Dots == {n \in DOMAIN rel_path : rel_path[n] = Dot}

(* A name with one dot and at least three characters behind it can be of   *)
(* the kind these three tell, and of no other but html (file_type).        *)
OneDotDecides ==
  \A k \in DOMAIN Ending, d \in Dots :
    (kind # "none" /\ Dots = {d} /\ Len(rel_path) >= d + 3) =>
      (k \in Compared <=> SubSeq(rel_path, d + 1, d + 3) = Ending[k])

(* "The 200 OK response works for all ... image/gif, and image/jpeg file   *)
(* types" (README.md): whatever else is in the name of an image.           *)
ImagesAreKnown ==
  \A k \in DOMAIN Ending : kind # "none" /\ EndsIn(k) => k \in Compared
=============================================================================
