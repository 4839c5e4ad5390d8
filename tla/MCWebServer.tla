---------------------------- MODULE MCWebServer ----------------------------
(* The web server on small instances: an image and a script.  A behaviour  *)
(* is one of WebServer or of a module for what it leaves out, with which   *)
(* it has no variable in common: the configuration, the names of files,    *)
(* the logs, the date.  The others stay as they begin.                     *)
EXTENDS WebServer, TLC

CONSTANTS
  c1, c2,
  Words, MaxWords, Chars, MaxLen, LogConnections, BufCap, Threads, Nobody, DayLength

VARIABLES
  part,
  strings, j, config,
  rel_path, i, copy, ending, kind,
  mainpc, listening, rounds, threadpc, fd1, fd2, buffer, written, got, early,
  clock, pc, now, static, tm, lock, met

configVars == <<strings, j, config>>
nameVars == <<rel_path, i, copy, ending, kind>>
logVars == <<mainpc, listening, rounds, threadpc, fd1, fd2, buffer, written, got, early>>
dateVars == <<clock, pc, now, static, tm, lock, met>>

Config == INSTANCE WebConfig
Names == INSTANCE WebNames
Log == INSTANCE WebLog WITH MaxConnections <- LogConnections
Date == INSTANCE WebDate

ASSUME PartsAssumption ==
  /\ Config!WebConfigAssumption /\ Names!WebNamesAssumption
  /\ Log!WebLogAssumption /\ Date!WebDateAssumption

Others(p) ==
  /\ p # "requests" => UNCHANGED vars
  /\ p # "config" => UNCHANGED configVars
  /\ p # "names" => UNCHANGED nameVars
  /\ p # "log" => UNCHANGED logVars
  /\ p # "date" => UNCHANGED dateVars

WebInit ==
  /\ part \in {"requests", "config", "names", "log", "date"} /\ Init
  /\ Config!Init /\ (part # "config" => strings = <<>>)
  /\ Names!Init /\ (part # "names" => rel_path = Names!Root \o <<"c">>)
  /\ Log!Init /\ Date!Init

WebNext ==
  /\ UNCHANGED part /\ Others(part)
  /\ \/ part = "requests" /\ Next
     \/ part = "config" /\ Config!Next
     \/ part = "names" /\ Names!Next
     \/ part = "log" /\ Log!Next
     \/ part = "date" /\ Date!Next

WebSpec ==
  /\ WebInit
  /\ [][WebNext]_<<part, vars, configVars, nameVars, logVars, dateVars>>
  /\ Fairness

-----------------------------------------------------------------------------
(* The properties, of the part that moves.                                 *)
TypesOK ==
  CASE part = "requests" -> TypeOK
    [] part = "names" -> Names!TypeOK
    [] part = "log" -> Log!TypeOK
    [] part = "date" -> Date!TypeOK
    [] part = "config" -> j \in 0 .. Len(strings)

(* What the server reads from text: a setting is the word behind the last  *)
(* place of its keyword (LastIsTaken), a type of file what the one dot of  *)
(* a name says (OneDotDecides; populate_config, file_type).                *)
TextUnderstood ==
  /\ part = "config" => Config!LastIsTaken
  /\ part = "names" => Names!OneDotDecides

(* What the threads share in the C library: nothing printed before main    *)
(* flushes is lost or out of order (EarlyLogged), and a date is made of    *)
(* what the thread and those it met have asked for (DateOfSomebody; main,  *)
(* get_current_date).                                                      *)
LibraryShared ==
  /\ part = "log" => Log!EarlyLogged
  /\ part = "date" => Date!DateOfSomebody

-----------------------------------------------------------------------------
TwoClients == {c1, c2}
Site == {"image", "script"}
KindOf == [image |-> "jpg", script |-> "cgi"]

Get(s, p) == [get |-> TRUE, simple |-> s, path |-> p]
Post(p) == [get |-> FALSE, simple |-> FALSE, path |-> p]

(* A name that file_type does not make out is taken for that of a text, so *)
(* that the image is also sent as one.                                     *)
FewRequests == {Get(FALSE, "image"), Get(TRUE, "image"), Post("script")}
OneOrPart == {Get(FALSE, "image"), Fragment}

EmptyOrTwo == {0, 2}
AllThere == [p \in Paths |-> 2]
ImageChanges == {[AllThere EXCEPT !.image = s] : s \in Content}
=============================================================================
