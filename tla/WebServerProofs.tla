--------------------------- MODULE WebServerProofs ---------------------------
(***************************************************************************)
(* What the web server promises of its answers, for any number of clients, *)
(* threads, files, failures and changes of the files: a request is         *)
(* answered once and in the right order, a graphics file is sent whole, a  *)
(* connection is answered by one thread.  And of the parts around it:      *)
(* httpd.conf, the types of files, the dates and the logs are what they    *)
(* should be, for any words, names, threads, rounds and buffers.           *)
(*                                                                         *)
(* Typed says what values there are and what a thread knows at each place  *)
(* of its program; Written what it has written there, for the answer;      *)
(* Sends how much of the file, in bytes.  Typed and Written are shown to   *)
(* be kept step by step of handle_request; other threads, the clients and  *)
(* the files are shown to leave alone what they are about.                 *)
(***************************************************************************)
EXTENDS MCWebServer, Induction, SequenceTheorems

(* What is kept of each thread, and of the rest.                           *)
TaskTypes == num_connections \in 0 .. MaxConnections + 1 /\ task \in [Tasks -> Task]
RespTypes == resp \in [Tasks -> Seq(Parts)]
ConnTypes == conn \in [Clients -> {"none", "queued", "open", "closed"}]
RestTypes ==
  /\ up \in BOOLEAN /\ new_socket \in Clients \cup {NoClient}
  /\ asked \in [Clients -> Sent \cup {NoRequest}]
  /\ gone \subseteq Clients /\ stalled \subseteq Clients /\ lapses \in 0 .. MaxLapses
  /\ disk \in [Paths -> Content] /\ changes \in 0 .. MaxChanges
  /\ touched \subseteq Tasks

Types4 == TaskTypes /\ RespTypes /\ ConnTypes /\ RestTypes

LEMMA TypesAll == TypeOK <=> Types4
  BY DEF TypeOK, Types4, TaskTypes, RespTypes, ConnTypes, RestTypes

LEMMA NewTaskTypes == NewTask \in Task
  BY DEF NewTask, Task, Content, Codes

LEMMA TypesStart == Init => Types4
<1> SUFFICES ASSUME Init PROVE Types4
  OBVIOUS
<1>1. TaskTypes
  BY NewTaskTypes, WebServerAssumption DEF Init, TaskTypes
<1>2. RespTypes
  BY EmptySeq DEF Init, RespTypes
<1>3. ConnTypes /\ RestTypes
  BY WebServerAssumption, DisksAssumption DEF Init, ConnTypes, RestTypes
<1> QED
  BY <1>1, <1>2, <1>3 DEF Types4

(* The parts that are written.                                             *)
LEMMA PartIs ==
  /\ \A n \in Nat : Part("length", n) \in Parts /\ Part("chunk", n) \in Parts
  /\ \A n \in Nat : Part("status", n) \in Parts /\ Part("page", n) \in Parts
  /\ Part("general", 0) \in Parts /\ Part("text", 0) \in Parts
  /\ \A k : Part(get_content_type(k), 0) \in Parts
  BY DEF Part, Parts, Types, get_content_type

LEMMA PagesAre ==
  ASSUME NEW code \in Nat
  PROVE  full_error(code) \in Seq(Parts) /\ simple_error(code) \in Seq(Parts)
<1>1. code \in Nat /\ 0 \in Nat /\ 1 \in Nat
  OBVIOUS
<1>2. /\ Part("status", code) \in Parts /\ Part("page", code) \in Parts
      /\ Part("general", 0) \in Parts
      /\ Part(get_content_type("html"), 0) \in Parts /\ Part("length", 1) \in Parts
  BY <1>1, PartIs
<1>3. /\ <<Part("status", code)>> \in Seq(Parts) /\ send_general_headers \in Seq(Parts)
      /\ entity_headers("html", 1) \in Seq(Parts) /\ <<Part("page", code)>> \in Seq(Parts)
  BY <1>2 DEF send_general_headers, entity_headers
<1> QED
  BY <1>3, ConcatProperties DEF full_error, simple_error, send_string_as_entity

LEMMA HeadsAre ==
  /\ ok_head \in Seq(Parts)
  /\ \A k : \A n \in Nat : entity_headers(k, n) \in Seq(Parts)
<1>1. /\ Part("status", 200) \in Parts /\ Part("general", 0) \in Parts
      /\ \A k : \A n \in Nat :
           Part(get_content_type(k), 0) \in Parts /\ Part("length", n) \in Parts
  BY PartIs
<1>2. <<Part("status", 200)>> \in Seq(Parts) /\ send_general_headers \in Seq(Parts)
  BY <1>1 DEF send_general_headers
<1>3. ok_head \in Seq(Parts)
  BY <1>2, ConcatProperties DEF ok_head
<1>4. \A k : \A n \in Nat : entity_headers(k, n) \in Seq(Parts)
  BY <1>1 DEF entity_headers
<1> QED
  BY <1>3, <1>4

LEMMA WriteTypes ==
  ASSUME RespTypes, NEW h \in Tasks, NEW parts \in Seq(Parts), Write(h, parts)
  PROVE  RespTypes'
<1>1. resp[h] \o parts \in Seq(Parts)
  BY ConcatProperties DEF RespTypes
<1> QED
  BY <1>1 DEF RespTypes, Write

(* What a thread knows at each place of its program.                       *)
Busy == {"look", "head", "open", "entity", "chunk", "reply"}
Unanswered == {"none", "unborn", "start", "recv", "look", "head", "open", "entity"}
Images == {"jpg", "gif"}

Known(t) ==
  /\ t.pc \in Busy => t.req \in Requests
  /\ t.pc \in {"entity", "chunk"} /\ t.kind \in Images => t.size \in Sizes \cup {LongMax}
  /\ t.pc = "chunk" => t.kind \in Images
  /\ t.pc \in Unanswered \cup {"chunk"} => t.code = 0
  /\ t.pc \in Unanswered => t.at = 0
  /\ t.pc = "reply" => t.code \in {404, 500, 501}

AllKnown == \A h \in Tasks : Known(task[h])

LEMMA GoesTypes ==
  ASSUME TaskTypes, AllKnown, NEW h \in Tasks, NEW t \in Task, Known(t), Goes(h, t),
         num_connections' \in 0 .. MaxConnections + 1
  PROVE  TaskTypes' /\ AllKnown'
  BY DEF TaskTypes, AllKnown, Goes, Known

LEMMA GoesOn ==
  ASSUME Types4, AllKnown, NEW h \in Tasks, NEW t \in Task, Known(t), Goes(h, t),
         UNCHANGED num_connections
  PROVE  TaskTypes' /\ AllKnown'
<1>1. TaskTypes /\ num_connections' \in 0 .. MaxConnections + 1
  BY DEF Types4, TaskTypes
<1> QED
  BY <1>1, GoesTypes

(* A thread that goes on elsewhere, or is about to send an error page.     *)
Onward(t, p) ==
  \/ p \in {"close", "done"}
  \/ t.pc = "look" /\ p \in {"head", "open"}
  \/ t.pc = "head" /\ p = "open"
  \/ t.pc = "entity" /\ t.kind \in Images /\ p = "chunk"

LEMMA GoesToTypes ==
  ASSUME Types4, AllKnown, NEW h \in Tasks, UNCHANGED num_connections,
         NEW p, Onward(task[h], p), GoesTo(h, p)
  PROVE  TaskTypes' /\ AllKnown'
<1> DEFINE t == [task[h] EXCEPT !.pc = p]
<1>1. task[h] \in Task /\ Known(task[h])
  BY DEF Types4, TaskTypes, AllKnown
<1>2. t \in Task
  BY <1>1 DEF Task, Onward
<1>3. Known(t)
  BY <1>1 DEF Task, Known, Onward, Busy, Unanswered
<1> QED
  BY <1>2, <1>3, GoesOn DEF GoesTo

LEMMA FailedTask ==
  ASSUME NEW t \in Task, NEW n \in {0} \cup Codes
  PROVE  [t EXCEPT !.pc = "reply", !.code = n] \in Task
  BY DEF Task

LEMMA FailsTypes ==
  ASSUME Types4, AllKnown, NEW h \in Tasks, UNCHANGED num_connections,
         NEW t \in Task, t.req \in Requests, NEW n \in {404, 500, 501}, Fails(h, t, n)
  PROVE  TaskTypes' /\ AllKnown'
<1> DEFINE u == [t EXCEPT !.pc = "reply", !.code = n]
<1>1. n \in {0} \cup Codes
  BY DEF Codes
<1>2. u \in Task
  BY <1>1, FailedTask
<1>3. u.pc = "reply" /\ u.code = n /\ u.req \in Requests
  <2>1. t \in Task
    OBVIOUS
  <2>2. u.pc = "reply" /\ u.code = n /\ u.req = t.req
    BY <2>1 DEF Task
  <2> QED
    BY <2>2
<1>4. Goes(h, u)
  BY DEF Fails
<1> HIDE DEF u
<1>5. Known(u)
  BY <1>3 DEF Known, Unanswered, Busy
<1> QED
  BY <1>2, <1>4, <1>5, GoesOn

(* handle_request, as far as these go.                                     *)
LEMMA NothingAccepted ==
  ASSUME NEW h \in Tasks, handle_request(h)
  PROVE  UNCHANGED num_connections
  BY Zenon DEF handle_request, Start, Receive, LookUp, SendHead, Reply, Open,
     SendText, SendGraphic, SendChunk, Close, mainVars

(* What a request makes of a thread that has received it.                  *)
Looking(h, r, k) == [Asked(h, r, k) EXCEPT !.pc = "look"]
Asks(h, r, k) == Fails(h, Asked(h, r, k), 501) \/ Goes(h, Looking(h, r, k))

LEMMA AskedOne ==
  ASSUME NEW h, Receive(h)
  PROVE  \E r \in Received(h) : \E k \in {Kind[r.path], "html"} : Asks(h, r, k)
<1>1. PICK r \in Received(h) : \E k \in {Kind[r.path], "html"} :
        \/ (k = "cgi" \/ ~r.get) /\ Fails(h, Asked(h, r, k), 501)
        \/ (k # "cgi" /\ r.get) /\ Goes(h, Looking(h, r, k))
  BY DEF Receive, Looking
<1>2. PICK k \in {Kind[r.path], "html"} :
        \/ (k = "cgi" \/ ~r.get) /\ Fails(h, Asked(h, r, k), 501)
        \/ (k # "cgi" /\ r.get) /\ Goes(h, Looking(h, r, k))
  BY <1>1
<1>3. Asks(h, r, k)
  BY <1>2 DEF Asks
<1> QED
  BY <1>3

Entering(h, s) == [Opens(h, s) EXCEPT !.pc = "entity"]
OpensOn(h, s) ==
  \/ Fails(h, task[h], 500) \/ Fails(h, Opens(h, s), 500)
  \/ Usable(h, s) /\ Goes(h, Entering(h, s))

LEMMA OpenedOne ==
  ASSUME NEW h, Open(h)
  PROVE  \E s \in Measured(h, disk[task[h].req.path]) : OpensOn(h, s)
<1>1. PICK s \in Measured(h, disk[task[h].req.path]) :
        LET opened == CanOpen /\ s \notin {Absent, Locked}
        IN  \/ /\ ~opened
               /\ Fails(h, task[h], 500)
            \/ /\ opened /\ ~Usable(h, s)
               /\ Fails(h, Opens(h, s), 500)
            \/ /\ opened /\ Usable(h, s)
               /\ Goes(h, Entering(h, s))
  BY DEF Open, Entering
<1>2. OpensOn(h, s)
  BY <1>1 DEF OpensOn
<1> QED
  BY <1>2

(* Every step of a thread takes it somewhere, and writes or leaves what it *)
(* has written.                                                            *)
LEMMA RequestDoes ==
  ASSUME NEW h, handle_request(h)
  PROVE  (\E t : Goes(h, t)) /\ (UNCHANGED resp \/ \E parts : Write(h, parts))
<1>1. CASE Start(h)
  BY <1>1 DEF Start
<1>2. CASE Receive(h)
  <2>1. PICK r, k : Asks(h, r, k)
    BY <1>2, AskedOne
  <2>2. \E t : Goes(h, t)
    BY <2>1 DEF Asks, Fails
  <2>3. UNCHANGED resp
    BY <1>2 DEF Receive
  <2> QED
    BY <2>2, <2>3
<1>3. CASE LookUp(h)
  <2>1. \E t : Goes(h, t)
    BY <1>3 DEF LookUp, Fails, GoesTo
  <2>2. UNCHANGED resp
    BY <1>3 DEF LookUp
  <2> QED
    BY <2>1, <2>2
<1>4. CASE SendHead(h)
  BY <1>4 DEF SendHead, GoesTo
<1>5. CASE Reply(h)
  BY <1>5 DEF Reply, GoesTo
<1>6. CASE Open(h)
  <2>1. PICK s : OpensOn(h, s)
    BY <1>6, OpenedOne
  <2>2. \E t : Goes(h, t)
    BY <2>1 DEF OpensOn, Fails
  <2>3. UNCHANGED resp
    BY <1>6 DEF Open
  <2> QED
    BY <2>2, <2>3
<1>7. CASE SendText(h)
  <2>1. \E t : Goes(h, t)
    BY <1>7 DEF SendText, Fails, GoesTo
  <2>2. UNCHANGED resp \/ \E parts : Write(h, parts)
    BY <1>7, Zenon DEF SendText
  <2> QED
    BY <2>1, <2>2
<1>8. CASE SendGraphic(h)
  <2>1. \E t : Goes(h, t)
    BY <1>8 DEF SendGraphic, GoesTo
  <2>2. UNCHANGED resp \/ \E parts : Write(h, parts)
    BY <1>8, Zenon DEF SendGraphic
  <2> QED
    BY <2>1, <2>2
<1>9. CASE SendChunk(h)
  <2>1. \E t : Goes(h, t)
    BY <1>9 DEF SendChunk, GoesTo
  <2>2. UNCHANGED resp \/ \E parts : Write(h, parts)
    BY <1>9, Zenon DEF SendChunk
  <2> QED
    BY <2>1, <2>2
<1>10. CASE Close(h)
  BY <1>10 DEF Close, GoesTo
<1> QED
  BY <1>1, <1>2, <1>3, <1>4, <1>5, <1>6, <1>7, <1>8, <1>9, <1>10 DEF handle_request

LEMMA ReceiveTypes ==
  ASSUME Types4, AllKnown, NEW h \in Tasks, UNCHANGED num_connections, Receive(h)
  PROVE  TaskTypes' /\ AllKnown'
<1>1. PICK r \in Received(h) : \E k \in {Kind[r.path], "html"} : Asks(h, r, k)
  BY AskedOne
<1>2. PICK k \in {Kind[r.path], "html"} : Asks(h, r, k)
  BY <1>1
<1>3. r \in Requests /\ k \in {"html", "css", "jpg", "gif", "cgi"}
  BY WebServerAssumption DEF Received, Request
<1>4. task[h] \in Task /\ task[h].code = 0 /\ task[h].at = 0
  BY DEF Types4, TaskTypes, AllKnown, Known, Receive, At, Unanswered
<1>5. /\ Asked(h, r, k) \in Task /\ Asked(h, r, k).req = r
      /\ Asked(h, r, k).code = 0 /\ Asked(h, r, k).at = 0
  BY <1>3, <1>4 DEF Asked, Task
<1>6. CASE Fails(h, Asked(h, r, k), 501)
  BY <1>3, <1>5, <1>6, FailsTypes
<1>7. CASE Goes(h, Looking(h, r, k))
  <2>1. Looking(h, r, k) \in Task
    BY <1>5 DEF Task, Looking
  <2>2. Known(Looking(h, r, k))
    BY <1>3, <1>5 DEF Task, Known, Unanswered, Looking
  <2> QED
    BY <1>7, <2>1, <2>2, GoesOn
<1> QED
  BY <1>2, <1>6, <1>7 DEF Asks

LEMMA OpenTypes ==
  ASSUME Types4, AllKnown, NEW h \in Tasks, UNCHANGED num_connections, Open(h)
  PROVE  TaskTypes' /\ AllKnown'
<1>1. PICK s \in Measured(h, disk[task[h].req.path]) : OpensOn(h, s)
  BY OpenedOne
<1>2. /\ task[h] \in Task /\ task[h].req \in Requests /\ task[h].req.path \in Paths
      /\ task[h].code = 0 /\ task[h].at = 0
  BY WebServerAssumption
  DEF Types4, TaskTypes, AllKnown, Open, At, Known, Busy, Unanswered, Request
<1>3. s \in Content \cup {LongMax}
  BY <1>2 DEF Measured, Types4, RestTypes
<1>4. /\ Opens(h, s) \in Task /\ Opens(h, s).size = s
      /\ \A f \in {"req", "kind", "code", "at"} : Opens(h, s)[f] = task[h][f]
  BY <1>2, <1>3 DEF Task, Opens
<1>5. CASE Fails(h, task[h], 500)
  BY <1>2, <1>5, FailsTypes
<1>6. CASE Fails(h, Opens(h, s), 500)
  BY <1>2, <1>4, <1>6, FailsTypes
<1>7. CASE Usable(h, s) /\ Goes(h, Entering(h, s))
  <2> DEFINE t == Entering(h, s)
  <2>1. t \in Task
    BY <1>4 DEF Task, Entering
  <2>2. task[h].kind \in Images => s \in Sizes \cup {LongMax}
    BY <1>3, <1>7 DEF Usable, Graphic, Images, Content, Absent, Locked, Directory
  <2>3. Known(t)
    BY <1>2, <1>4, <2>2 DEF Task, Known, Unanswered, Entering
  <2> QED
    BY <1>7, <2>1, <2>3, GoesOn
<1> QED
  BY <1>1, <1>5, <1>6, <1>7 DEF OpensOn

LEMMA LongMaxIs == LongMax \in Nat \ {0}
  BY SMT DEF LongMax

LEMMA SizesAreNumbers == Content \cup {LongMax} \subseteq Int
  BY WebServerAssumption, LongMaxIs DEF Content, Absent, Locked, Directory

LEMMA LeftIsNumber ==
  ASSUME TaskTypes, NEW h \in Tasks
  PROVE  Left(h) \in Int /\ Least(Left(h), ChunkCap) \in Int
<1>1. task[h].size \in Int /\ task[h].at \in Int
  <2>1. task[h].size \in Content \cup {LongMax} /\ task[h].at \in Nat
    BY DEF TaskTypes, Task
  <2> QED
    BY <2>1, SizesAreNumbers
<1> QED
  BY <1>1, WebServerAssumption DEF Least, Left

LEMMA SendChunkTypes ==
  ASSUME Types4, AllKnown, NEW h \in Tasks, UNCHANGED num_connections, SendChunk(h)
  PROVE  TaskTypes' /\ AllKnown'
<1> DEFINE n == Least(Left(h), ChunkCap)
<1>1. n \in Int /\ task[h] \in Task /\ task[h].pc = "chunk" /\ Known(task[h])
  BY LeftIsNumber DEF Types4, TaskTypes, AllKnown, SendChunk, At
<1>2. \/ GoesTo(h, "close")
      \/ n > 0 /\ Goes(h, [task[h] EXCEPT !.at = task[h].at + n, !.pc = "chunk"])
  BY DEF SendChunk, AfterChunk
<1> HIDE DEF n
<1>3. CASE GoesTo(h, "close")
  BY <1>3, GoesToTypes DEF Onward
<1>4. CASE n > 0 /\ Goes(h, [task[h] EXCEPT !.at = task[h].at + n, !.pc = "chunk"])
  <2> DEFINE m == task[h].at + n
             t == [task[h] EXCEPT !.at = m, !.pc = "chunk"]
  <2>1. m \in Nat
    BY <1>1, <1>4 DEF Task
  <2>2. Goes(h, t)
    BY <1>4
  <2> HIDE DEF m
  <2>3. t \in Task
    BY <1>1, <2>1 DEF Task
  <2>4. Known(t)
    BY <1>1 DEF Task, Known, Busy, Unanswered
  <2> QED
    BY <2>2, <2>3, <2>4, GoesOn
<1> QED
  BY <1>2, <1>3, <1>4

LEMMA TaskStepTypes ==
  ASSUME Types4, AllKnown, NEW h \in Tasks, handle_request(h)
  PROVE  TaskTypes' /\ AllKnown'
<1>1. UNCHANGED num_connections
  BY NothingAccepted
<1>2. task[h] \in Task /\ Known(task[h])
  BY DEF Types4, TaskTypes, AllKnown
<1>3. task[h].pc \in {"look", "entity"} => task[h].req \in Requests
  BY <1>2 DEF Known, Busy
<1>4. CASE Start(h)
  <2> DEFINE t == [task[h] EXCEPT !.pc = "recv", !.client = task[h].arg]
  <2>1. t \in Task
    BY <1>2 DEF Task
  <2>2. Known(t)
    BY <1>2, <1>4 DEF Task, Known, Busy, Unanswered, Start, At
  <2> QED
    BY <1>1, <1>4, <2>1, <2>2, GoesOn DEF Start, Passed
<1>5. CASE Receive(h)
  BY <1>1, <1>5, ReceiveTypes
<1>6. CASE LookUp(h)
  <2>1. task[h].pc = "look"
    BY <1>6 DEF LookUp, At
  <2>2. Fails(h, task[h], 404) \/ GoesTo(h, "head") \/ GoesTo(h, "open")
    BY <1>6, Zenon DEF LookUp
  <2> QED
    BY <1>1, <1>2, <1>3, <2>1, <2>2, FailsTypes, GoesToTypes DEF Onward
<1>7. CASE SendHead(h) \/ Reply(h) \/ SendGraphic(h) \/ Close(h)
  <2>1. \E p : GoesTo(h, p) /\ Onward(task[h], p)
    BY <1>7 DEF SendHead, Reply, SendGraphic, Close, At, AfterReply, Onward, Graphic,
       Images
  <2> QED
    BY <1>1, <2>1, GoesToTypes
<1>8. CASE Open(h)
  BY <1>1, <1>8, OpenTypes
<1>9. CASE SendText(h)
  <2>1. task[h].pc = "entity"
    BY <1>9 DEF SendText, At
  <2>2. Fails(h, task[h], 500) \/ GoesTo(h, "close")
    BY <1>9, Zenon DEF SendText
  <2> QED
    BY <1>1, <1>2, <1>3, <2>1, <2>2, FailsTypes, GoesToTypes DEF Onward
<1>10. CASE SendChunk(h)
  BY <1>1, <1>10, SendChunkTypes
<1> QED
  BY <1>4, <1>5, <1>6, <1>7, <1>8, <1>9, <1>10 DEF handle_request

(* The rest of a step of a thread.                                         *)
LEMMA HeadersAre ==
  ASSUME NEW h \in Tasks, NEW n \in Nat
  PROVE  Headers(h, n) \in Seq(Parts)
<1>1. entity_headers(task[h].kind, n) \in Seq(Parts)
  BY HeadsAre
<1>2. <<>> \in Seq(Parts)
  BY EmptySeq
<1> QED
  BY <1>1, <1>2 DEF Headers

LEMMA RespStepTypes ==
  ASSUME Types4, AllKnown, NEW h \in Tasks, handle_request(h)
  PROVE  RespTypes'
<1>1. RespTypes /\ task[h] \in Task /\ Known(task[h])
  BY DEF Types4, TaskTypes, AllKnown
<1>2. UNCHANGED resp => RespTypes'
  BY <1>1 DEF RespTypes
<1>3. CASE UNCHANGED resp
  BY <1>2, <1>3
<1>4. CASE SendHead(h)
  BY <1>1, <1>4, WriteTypes, HeadsAre DEF SendHead
<1>5. CASE Reply(h)
  <2>1. task[h].code \in Nat
    BY <1>1 DEF Task, Codes
  <2>2. full_error(task[h].code) \in Seq(Parts) /\ simple_error(task[h].code) \in Seq(Parts)
    BY <2>1, PagesAre
  <2>3. \/ Write(h, full_error(task[h].code)) \/ Write(h, simple_error(task[h].code))
    BY <1>5 DEF Reply
  <2> QED
    BY <1>1, <2>2, <2>3, WriteTypes
<1>6. CASE SendText(h)
  <2> DEFINE n == Least(task[h].size, TextCap)
  <2>1. UNCHANGED resp \/ (n >= 0 /\ Write(h, Headers(h, n) \o <<Part("text", 0)>>))
    BY <1>6, Zenon DEF SendText
  <2>2. n \in Int
    <3>1. task[h].size \in Int
      BY <1>1, SizesAreNumbers DEF Task
    <3> QED
      BY <3>1, WebServerAssumption DEF Least
  <2> HIDE DEF n
  <2>3. CASE n >= 0 /\ Write(h, Headers(h, n) \o <<Part("text", 0)>>)
    <3>1. n \in Nat
      BY <2>2, <2>3
    <3>2. Headers(h, n) \in Seq(Parts) /\ <<Part("text", 0)>> \in Seq(Parts)
      BY <3>1, HeadersAre, PartIs
    <3>3. Headers(h, n) \o <<Part("text", 0)>> \in Seq(Parts)
      BY <3>2, ConcatProperties
    <3> QED
      BY <1>1, <2>3, <3>3, WriteTypes
  <2> QED
    BY <1>2, <2>1, <2>3
<1>7. CASE SendGraphic(h)
  <2>1. task[h].size \in Nat
    <3>1. task[h].size \in Sizes \cup {LongMax}
      BY <1>1, <1>7 DEF SendGraphic, At, Known, Graphic, Images
    <3> QED
      BY <3>1, WebServerAssumption, LongMaxIs
  <2>2. Headers(h, task[h].size) \in Seq(Parts)
    BY <2>1, HeadersAre
  <2>3. UNCHANGED resp \/ Write(h, Headers(h, task[h].size))
    BY <1>7 DEF SendGraphic
  <2> QED
    BY <1>1, <1>2, <2>2, <2>3, WriteTypes
<1>8. CASE SendChunk(h)
  <2> DEFINE n == Least(Left(h), ChunkCap)
  <2>1. UNCHANGED resp \/ (n > 0 /\ Write(h, <<Part("chunk", n)>>))
    BY <1>8, Zenon DEF SendChunk
  <2>2. n \in Int
    BY LeftIsNumber DEF Types4
  <2> HIDE DEF n
  <2>3. n > 0 => <<Part("chunk", n)>> \in Seq(Parts)
    BY <2>2, PartIs
  <2> QED
    BY <1>1, <1>2, <2>1, <2>3, WriteTypes
<1> QED
  BY <1>3, <1>4, <1>5, <1>6, <1>7, <1>8
  DEF handle_request, Start, Receive, LookUp, Open, Close

LEMMA ConnStepTypes ==
  ASSUME Types4, NEW h \in Tasks, handle_request(h)
  PROVE  ConnTypes' /\ RestTypes'
<1>1. ConnTypes /\ RestTypes
  BY DEF Types4
<1>2. UNCHANGED <<up, new_socket, clientVars, diskVars>>
  BY DEF handle_request, Start, Receive, LookUp, SendHead, Reply, Open,
     SendText, SendGraphic, SendChunk, Close, mainVars
<1>3. UNCHANGED conn \/ CloseClient(task[h].client)
  BY DEF handle_request, Start, Receive, LookUp, SendHead, Reply, Open,
     SendText, SendGraphic, SendChunk, Close
<1>4. ConnTypes'
  BY <1>1, <1>3 DEF ConnTypes, CloseClient
<1>5. RestTypes'
  BY <1>1, <1>2 DEF RestTypes, clientVars, diskVars
<1> QED
  BY <1>4, <1>5

Typed == Types4 /\ AllKnown

LEMMA RequestTypes ==
  ASSUME Typed, NEW h \in Tasks, handle_request(h)
  PROVE  Typed'
  BY TaskStepTypes, RespStepTypes, ConnStepTypes DEF Typed, Types4

(* The process ends.                                                       *)
LEMMA NewTaskIs == NewTask.pc = "none" /\ NewTask.code = 0 /\ NewTask.at = 0
  BY DEF NewTask

LEMMA NewTaskKnown == Known(NewTask)
  BY DEF Known, NewTask, Busy, Unanswered

LEMMA EndTypes ==
  ASSUME Typed, ProcessEnds
  PROVE  Typed'
<1>1. TaskTypes /\ RespTypes /\ ConnTypes /\ RestTypes
  BY DEF Typed, Types4
<1>2. TaskTypes' /\ AllKnown'
  BY <1>1, NewTaskTypes, NewTaskKnown DEF ProcessEnds, TaskTypes, AllKnown, mainVars
<1>3. RespTypes' /\ ConnTypes'
  BY <1>1 DEF ProcessEnds, RespTypes, ConnTypes
<1>4. RestTypes'
  BY <1>1 DEF ProcessEnds, RestTypes, mainVars, clientVars, diskVars
<1> QED
  BY <1>2, <1>3, <1>4 DEF Typed, Types4

(* main.                                                                   *)
LEMMA CreateTypes ==
  ASSUME Typed, LoopOn, NEW c \in Clients \cup {NoClient}, Create(c), ConnTypes'
  PROVE  Typed'
<1> DEFINE h == num_connections + 1
<1>1. TaskTypes /\ RespTypes /\ RestTypes /\ AllKnown
  BY DEF Typed, Types4
<1>2. h \in Tasks /\ h \in 0 .. MaxConnections + 1
  BY <1>1, WebServerAssumption DEF TaskTypes, LoopOn, Tasks
<1>3. PICK p \in {"start", "unborn"} : Goes(h, [NewTask EXCEPT !.arg = c, !.pc = p])
  BY DEF Create
<1> DEFINE t == [NewTask EXCEPT !.arg = c, !.pc = p]
<1>4. t \in Task
  BY NewTaskTypes DEF Task
<1>5. Known(t)
  BY NewTaskTypes, NewTaskKnown, NewTaskIs DEF Task, Known, Busy, Unanswered
<1>6. num_connections' = h
  BY DEF Create
<1> HIDE DEF h, t
<1>7. TaskTypes' /\ AllKnown'
  BY <1>1, <1>2, <1>3, <1>4, <1>5, <1>6, GoesTypes DEF t
<1>8. RespTypes' /\ RestTypes'
  BY <1>1 DEF Create, RespTypes, RestTypes, clientVars, diskVars
<1> QED
  BY <1>7, <1>8 DEF Typed, Types4

LEMMA MainTypes ==
  ASSUME Typed, Main
  PROVE  Typed'
<1>1. ConnTypes
  BY DEF Typed, Types4
<1>2. ASSUME NEW c \in Clients, Accept(c)
      PROVE  Typed'
  <2>1. ConnTypes'
    BY <1>1, <1>2 DEF Accept, ConnTypes
  <2> QED
    BY <1>2, <2>1, CreateTypes DEF Accept
<1>3. CASE AcceptFails
  <2>1. ConnTypes'
    BY <1>1, <1>3 DEF AcceptFails, ConnTypes
  <2> QED
    BY <1>3, <2>1, CreateTypes DEF AcceptFails
<1>4. CASE MainReturns
  BY <1>4, EndTypes DEF MainReturns
<1> QED
  BY <1>2, <1>3, <1>4 DEF Main

(* Clients and files.                                                      *)
LEMMA ClientTypes ==
  ASSUME Typed, NEW c \in Clients, Client(c)
  PROVE  Typed'
<1>1. TaskTypes /\ RespTypes /\ ConnTypes /\ RestTypes /\ AllKnown
  BY DEF Typed, Types4
<1>2. UNCHANGED <<up, mainVars, task, resp, diskVars>>
  BY DEF Client, Connect, Ask, HangUp, Stall, ReadOn
<1>3. TaskTypes' /\ AllKnown' /\ RespTypes'
  BY <1>1, <1>2 DEF TaskTypes, AllKnown, RespTypes, mainVars
<1>4. ConnTypes'
  BY <1>1 DEF ConnTypes, Client, Connect, Ask, HangUp, Stall, ReadOn
<1>5. /\ asked' \in [Clients -> Sent \cup {NoRequest}]
      /\ gone' \subseteq Clients /\ stalled' \subseteq Clients /\ lapses' \in 0 .. MaxLapses
  BY <1>1, WebServerAssumption
  DEF RestTypes, Client, Connect, Ask, HangUp, Stall, ReadOn, Lapse, clientVars
<1>6. RestTypes'
  BY <1>1, <1>2, <1>5 DEF RestTypes, mainVars, diskVars
<1> QED
  BY <1>3, <1>4, <1>6 DEF Typed, Types4

LEMMA FilesTypes ==
  ASSUME Typed, Files
  PROVE  Typed'
<1>1. TaskTypes /\ RespTypes /\ ConnTypes /\ RestTypes /\ AllKnown
  BY DEF Typed, Types4
<1>2. PICK p \in Paths, s \in Content : FileReplaced(p, s) \/ FileRewritten(p, s)
  BY DEF Files
<1>3. UNCHANGED <<up, mainVars, resp, conn, clientVars>>
  BY <1>2 DEF FileReplaced, FileRewritten
<1>4. RespTypes' /\ ConnTypes'
  BY <1>1, <1>3 DEF RespTypes, ConnTypes
<1>5. disk' \in [Paths -> Content] /\ changes' \in 0 .. MaxChanges
  BY <1>1, <1>2, WebServerAssumption DEF RestTypes, FileReplaced, FileRewritten, Becomes
<1>6. touched' \subseteq Tasks
  BY <1>1, <1>2 DEF RestTypes, FileReplaced, FileRewritten, Serving
<1>7. RestTypes'
  BY <1>1, <1>3, <1>5, <1>6 DEF RestTypes, mainVars, clientVars
<1>8. CASE FileReplaced(p, s)
  <2>1. TaskTypes' /\ AllKnown'
    BY <1>1, <1>8 DEF FileReplaced, TaskTypes, AllKnown, mainVars
  <2> QED
    BY <1>4, <1>7, <2>1 DEF Typed, Types4
<1>9. CASE FileRewritten(p, s)
  <2>1. s \in Sizes /\ s \in Content \cup {LongMax}
    BY <1>9 DEF FileRewritten, Content
  <2>2. ASSUME NEW h \in Tasks
        PROVE  [task[h] EXCEPT !.size = s] \in Task
    BY <1>1, <2>1 DEF TaskTypes, Task
  <2>3. ASSUME NEW h \in Tasks
        PROVE  Known([task[h] EXCEPT !.size = s])
    BY <1>1, <2>1 DEF TaskTypes, Task, AllKnown, Known
  <2>4. \A h \in Tasks : task[h] \in Task /\ Known(task[h])
    BY <1>1 DEF TaskTypes, AllKnown
  <2>5. task' \in [Tasks -> Task]
    BY <1>9, <2>2, <2>4 DEF FileRewritten
  <2>6. AllKnown'
    BY <1>9, <2>3, <2>4 DEF FileRewritten, AllKnown
  <2>7. TaskTypes'
    BY <1>1, <1>3, <2>5 DEF TaskTypes, mainVars
  <2> QED
    BY <1>4, <1>7, <2>6, <2>7 DEF Typed, Types4
<1> QED
  BY <1>2, <1>8, <1>9

LEMMA TypedKept ==
  ASSUME Typed, [Next]_vars
  PROVE  Typed'
<1>1. ASSUME NEW h \in Tasks, handle_request(h) \/ BrokenPipe(h)
      PROVE  Typed'
  BY <1>1, RequestTypes, EndTypes DEF BrokenPipe
<1>2. CASE UNCHANGED vars
  BY <1>2 DEF Typed, Types4, TaskTypes, RespTypes, ConnTypes, RestTypes, AllKnown, vars,
     mainVars, clientVars, diskVars
<1> QED
  BY <1>1, <1>2, MainTypes, ClientTypes, FilesTypes DEF Next

LEMMA TypedStarts == Init => Typed
<1> SUFFICES ASSUME Init PROVE Typed
  OBVIOUS
<1>1. AllKnown
  BY NewTaskKnown DEF Init, AllKnown
<1> QED
  BY <1>1, TypesStart DEF Typed

(* The variables have their types, and the responses are made of parts     *)
(* that there are (main, handle_request).                                  *)
THEOREM WebTypesHold == Spec => []TypeOK
<1>1. Spec => []Typed
  BY TypedStarts, TypedKept, PTL DEF Spec
<1>2. Typed => TypeOK
  BY TypesAll DEF Typed
<1> QED
  BY <1>1, <1>2, PTL

-----------------------------------------------------------------------------
(* What each place of the program has written, unless it was lost.         *)
Lost(h) == task[h].client \notin Clients \ gone
Begun(h) ==
  IF Full(h) THEN resp[h] = ok_head \/ (resp[h] = <<>> /\ Lost(h)) ELSE resp[h] = <<>>
Headed(h) ==
  \E n \in Announces, t \in Seq(Parts) : resp[h] = Announced(h, n) \o t /\ Entity(t)
Streams(h) ==
  IF Full(h) THEN Headed(h) \/ (Lost(h) /\ resp[h] \in {<<>>, ok_head})
             ELSE Entity(resp[h])
Errs(h) ==
  \/ task[h].code \in {404, 501} /\ resp[h] = <<>>
  \/ task[h].code = 500 /\ Begun(h)

Written(h) ==
  /\ task[h].pc \in Unanswered \ {"open", "entity"} => resp[h] = <<>>
  /\ task[h].pc = "head" => Full(h)
  /\ task[h].pc \in {"open", "entity"} => Begun(h)
  /\ task[h].pc = "reply" => Errs(h)
  /\ task[h].pc = "chunk" => Streams(h)
  /\ task[h].pc \in {"close", "done"} => Answers(h)

Waiting(h) == h > num_connections => task[h].pc = "none"

AllWritten == up => \A h \in Tasks : Written(h) /\ Waiting(h)

(* A part of a program changes where a thread is, and no other thread.     *)
Rest == {"arg", "client", "req", "kind", "code", "open", "size", "at"}

LEMMA GoesIs ==
  ASSUME TaskTypes, NEW h \in Tasks, NEW t, Goes(h, t)
  PROVE  task'[h] = t /\ \A g \in Tasks \ {h} : task'[g] = task[g]
  BY DEF TaskTypes, Goes

LEMMA GoesToIs ==
  ASSUME TaskTypes, NEW h \in Tasks, NEW p, GoesTo(h, p)
  PROVE  /\ task'[h].pc = p /\ \A f \in Rest : task'[h][f] = task[h][f]
         /\ \A g \in Tasks \ {h} : task'[g] = task[g]
<1>1. task[h] \in Task
  BY DEF TaskTypes
<1>2. task'[h] = [task[h] EXCEPT !.pc = p] /\ \A g \in Tasks \ {h} : task'[g] = task[g]
  BY GoesIs DEF GoesTo
<1> QED
  BY <1>1, <1>2 DEF Task, Rest

LEMMA FailsIs ==
  ASSUME TaskTypes, NEW h \in Tasks, NEW t \in Task, NEW n, Fails(h, t, n)
  PROVE  /\ task'[h].pc = "reply" /\ task'[h].code = n
         /\ \A f \in Rest \ {"code"} : task'[h][f] = t[f]
         /\ \A g \in Tasks \ {h} : task'[g] = task[g]
<1>1. /\ task'[h] = [t EXCEPT !.pc = "reply", !.code = n]
      /\ \A g \in Tasks \ {h} : task'[g] = task[g]
  BY GoesIs DEF Fails
<1> QED
  BY <1>1 DEF Task, Rest

(* Of two states that differ in nothing an answer depends on, what holds   *)
(* of the answers in one holds in the other.                               *)
Alike(g) ==
  /\ \A f \in {"pc", "client", "req", "kind", "code"} : task'[g][f] = task[g][f]
  /\ resp'[g] = resp[g] /\ (Lost(g) => Lost(g)')

LEMMA AnswersAlike ==
  ASSUME NEW g, Full(g)' = Full(g), task'[g].kind = task[g].kind, resp'[g] = resp[g]
  PROVE  Answers(g)' = Answers(g) /\ Headed(g)' = Headed(g)
  BY DEF Answers, Headed, Announced

LEMMA WrittenAlike ==
  ASSUME NEW g, Written(g), Alike(g)
  PROVE  Written(g)'
<1>1. /\ task'[g].pc = task[g].pc /\ Full(g)' = Full(g) /\ task'[g].code = task[g].code
      /\ task'[g].kind = task[g].kind /\ resp'[g] = resp[g] /\ (Lost(g) => Lost(g)')
  BY DEF Alike, Full
<1>2. Answers(g)' = Answers(g) /\ Headed(g)' = Headed(g)
  BY <1>1, AnswersAlike
<1>3. Begun(g) => Begun(g)'
  BY <1>1 DEF Begun
<1>4. Errs(g) => Errs(g)'
  BY <1>1, <1>3 DEF Errs
<1>5. Streams(g) => Streams(g)'
  BY <1>1, <1>2 DEF Streams
<1> QED
  BY <1>1, <1>2, <1>3, <1>4, <1>5 DEF Written

(* Behind the four parts of a head is the entity.                          *)
LEMMA HeadIsFour ==
  ASSUME NEW k, NEW n \in Nat
  PROVE  /\ ok_head \o entity_headers(k, n) \in Seq(Parts)
         /\ Len(ok_head \o entity_headers(k, n)) = 4
<1>1. ok_head \in Seq(Parts) /\ entity_headers(k, n) \in Seq(Parts)
  BY HeadsAre
<1>2. Len(ok_head) = 2 /\ Len(entity_headers(k, n)) = 2
  BY DEF ok_head, send_general_headers, entity_headers
<1>3. /\ ok_head \o entity_headers(k, n) \in Seq(Parts)
      /\ Len(ok_head \o entity_headers(k, n)) = Len(ok_head) + Len(entity_headers(k, n))
  BY <1>1, ConcatProperties
<1> QED
  BY <1>2, <1>3

LEMMA RestIsEntity ==
  ASSUME NEW s \in Seq(Parts), Len(s) = 4, NEW t \in Seq(Parts)
  PROVE  SubSeq(s \o t, 5, Len(s \o t)) = t
<1> DEFINE r == s \o t
           u == SubSeq(r, 5, Len(r))
<1>1. /\ r \in Seq(Parts) /\ Len(r) = 4 + Len(t) /\ Len(t) \in Nat
      /\ \A m \in 1 .. Len(r) : r[m] = IF m <= 4 THEN s[m] ELSE t[m - 4]
  <2>1. /\ r \in Seq(Parts) /\ Len(r) = Len(s) + Len(t)
        /\ \A m \in 1 .. Len(s) + Len(t) :
             r[m] = IF m <= Len(s) THEN s[m] ELSE t[m - Len(s)]
    BY ConcatProperties
  <2>2. Len(t) \in Nat
    BY LenProperties
  <2> HIDE DEF r
  <2> QED
    BY <2>1, <2>2
<1> HIDE DEF r
<1>2. u \in Seq(Parts) /\ Len(u) = Len(t) /\ \A m \in 1 .. Len(t) : u[m] = r[m + 4]
  <2>1. \A m \in 5 .. Len(r) : m \in 1 .. Len(r) /\ r[m] \in Parts
    BY <1>1, ElementOfSeq
  <2> QED
    BY <1>1, <2>1, SubSeqProperties
<1>3. \A m \in 1 .. Len(t) : u[m] = t[m]
  BY <1>1, <1>2
<1> HIDE DEF u
<1>4. u = t
  BY <1>2, <1>3, SeqEqual
<1> QED
  BY <1>4 DEF r, u

LEMMA AnnouncesAre == Announces \subseteq Nat
  BY WebServerAssumption, LongMaxIs DEF Announces

LEMMA HeadedFits ==
  ASSUME NEW k, NEW n \in Announces, NEW t \in Seq(Parts)
  PROVE  SubSeq((ok_head \o entity_headers(k, n)) \o t, 5,
                Len((ok_head \o entity_headers(k, n)) \o t)) = t
<1>1. /\ ok_head \o entity_headers(k, n) \in Seq(Parts)
      /\ Len(ok_head \o entity_headers(k, n)) = 4
  BY AnnouncesAre, HeadIsFour
<1> QED
  BY <1>1, RestIsEntity

(* The answers to a full request, and to a simple one, one by one.         *)
Carries(g) ==
  /\ Entity(SubSeq(resp[g], 5, Len(resp[g])))
  /\ \E n \in Announces : resp[g] = Announced(g, n) \o SubSeq(resp[g], 5, Len(resp[g]))

Plain(g) ==
  \/ resp[g] \in {<<>>, ok_head, ok_head \o full_error(500)}
  \/ \E c \in {404, 501} : resp[g] = full_error(c)

Simple(g) == Entity(resp[g]) \/ \E c \in {404, 500, 501} : resp[g] = simple_error(c)

LEMMA AnswersAre ==
  ASSUME NEW g
  PROVE  Answers(g) <=> IF Full(g) THEN Plain(g) \/ Carries(g) ELSE Simple(g)
  BY DEF Answers, Plain, Carries, Simple

LEMMA FullAnswer ==
  ASSUME NEW g, Full(g), Plain(g) \/ Carries(g)
  PROVE  Answers(g)
  BY AnswersAre

LEMMA FullAnswerNext ==
  ASSUME NEW g, Full(g)', Plain(g)' \/ Carries(g)'
  PROVE  Answers(g)'
  BY DEF Answers, Plain, Carries

LEMMA SimpleAnswerNext ==
  ASSUME NEW g, ~Full(g)', Simple(g)'
  PROVE  Answers(g)'
  BY DEF Answers, Simple

LEMMA HeadedAnswers ==
  ASSUME NEW g, Full(g), Headed(g)
  PROVE  Answers(g)
<1>1. PICK n \in Announces, t \in Seq(Parts) : resp[g] = Announced(g, n) \o t /\ Entity(t)
  BY DEF Headed
<1>2. SubSeq(Announced(g, n) \o t, 5, Len(Announced(g, n) \o t)) = t
  BY HeadedFits DEF Announced
<1>3. SubSeq(resp[g], 5, Len(resp[g])) = t
  BY <1>1, <1>2
<1>4. Carries(g)
  BY <1>1, <1>3 DEF Carries
<1> QED
  BY <1>4, FullAnswer

(* What a step of a thread writes, and that no other thread notices.       *)
LEMMA WriteDoes ==
  ASSUME RespTypes, NEW h \in Tasks, NEW parts, Write(h, parts)
  PROVE  /\ \/ Lost(h) /\ resp'[h] = resp[h]
            \/ ~Lost(h) /\ resp'[h] = resp[h] \o parts
         /\ \A g \in Tasks \ {h} : resp'[g] = resp[g]
  BY DEF RespTypes, Write, Lost

LEMMA OthersAlike ==
  ASSUME Typed, NEW h \in Tasks, handle_request(h), NEW g \in Tasks \ {h}
  PROVE  Alike(g)
<1>1. TaskTypes /\ RespTypes
  BY DEF Typed, Types4
<1>2. \E t : Goes(h, t)
  BY RequestDoes
<1>3. task'[g] = task[g]
  BY <1>1, <1>2, GoesIs
<1>4. UNCHANGED resp \/ \E parts : Write(h, parts)
  BY RequestDoes
<1>5. resp'[g] = resp[g]
  BY <1>1, <1>4, WriteDoes
<1>6. UNCHANGED gone
  BY DEF handle_request, Start, Receive, LookUp, SendHead, Reply, Open,
     SendText, SendGraphic, SendChunk, Close, clientVars
<1> QED
  BY <1>3, <1>5, <1>6 DEF Alike, Lost

(* A thread that goes on, in a state an answer may be in.                  *)
LEMMA SameLost ==
  ASSUME NEW h, UNCHANGED gone, task'[h].client = task[h].client,
         task'[h].req = task[h].req
  PROVE  Lost(h)' = Lost(h) /\ Full(h)' = Full(h)
  BY DEF Lost, Full

LEMMA BegunSame ==
  ASSUME NEW h, Begun(h), resp'[h] = resp[h], Lost(h)' = Lost(h), Full(h)' = Full(h)
  PROVE  Begun(h)'
  BY DEF Begun

(* Before the head, a step leaves the response empty.                      *)
LEMMA EarlyWritten ==
  ASSUME Typed, NEW h \in Tasks, Written(h), Start(h) \/ Receive(h) \/ LookUp(h)
  PROVE  Written(h)'
<1>1. TaskTypes /\ task[h] \in Task /\ resp' = resp /\ resp[h] = <<>>
  BY DEF Typed, Types4, TaskTypes, Start, Receive, LookUp, At, Written, Unanswered
<1>2. CASE Start(h)
  <2>1. task'[h] = [task[h] EXCEPT !.pc = "recv", !.client = Passed(h)]
    BY <1>1, <1>2, GoesIs DEF Start
  <2>2. task'[h].pc = "recv"
    BY <1>1, <2>1 DEF Task
  <2> QED
    BY <1>1, <2>2 DEF Written, Unanswered
<1>3. CASE Receive(h)
  <2>1. PICK r, k : Asks(h, r, k)
    BY <1>3, AskedOne
  <2>2. DOMAIN Asked(h, r, k) = DOMAIN task[h]
    BY DEF Asked
  <2>3. "pc" \in DOMAIN Asked(h, r, k) /\ "code" \in DOMAIN Asked(h, r, k)
    BY <1>1, <2>2 DEF Task
  <2>4. CASE Goes(h, Looking(h, r, k))
    <3>1. task'[h] = Looking(h, r, k)
      BY <1>1, <2>4, GoesIs
    <3>2. task'[h].pc = "look"
      BY <2>3, <3>1 DEF Looking
    <3> QED
      BY <1>1, <3>2 DEF Written, Unanswered, Errs
  <2>5. CASE Fails(h, Asked(h, r, k), 501)
    <3>1. task'[h] = [Asked(h, r, k) EXCEPT !.pc = "reply", !.code = 501]
      BY <1>1, <2>5, GoesIs DEF Fails
    <3>2. task'[h].pc = "reply" /\ task'[h].code = 501
      BY <2>3, <3>1
    <3> QED
      BY <1>1, <3>2 DEF Written, Unanswered, Errs
  <2> QED
    BY <2>1, <2>4, <2>5 DEF Asks
<1>4. CASE LookUp(h)
  <2>1. \/ Fails(h, task[h], 404)
        \/ Full(h) /\ GoesTo(h, "head")
        \/ ~Full(h) /\ GoesTo(h, "open")
    BY <1>4 DEF LookUp
  <2>2. CASE Fails(h, task[h], 404)
    <3>1. task'[h].pc = "reply" /\ task'[h].code = 404
      BY <1>1, <2>2, FailsIs
    <3> QED
      BY <1>1, <3>1 DEF Written, Unanswered, Errs
  <2>3. CASE Full(h) /\ GoesTo(h, "head")
    <3>1. task'[h].pc = "head" /\ task'[h].req = task[h].req
      BY <1>1, <2>3, GoesToIs DEF Rest
    <3>2. Full(h)'
      BY <2>3, <3>1 DEF Full
    <3> QED
      BY <1>1, <3>1, <3>2 DEF Written, Unanswered
  <2>4. CASE ~Full(h) /\ GoesTo(h, "open")
    <3>1. task'[h].pc = "open" /\ task'[h].req = task[h].req
      BY <1>1, <2>4, GoesToIs DEF Rest
    <3>2. ~Full(h)'
      BY <2>4, <3>1 DEF Full
    <3> QED
      BY <1>1, <3>1, <3>2 DEF Written, Unanswered, Begun
  <2> QED
    BY <2>1, <2>2, <2>3, <2>4
<1> QED
  BY <1>2, <1>3, <1>4

LEMMA HeadWritten ==
  ASSUME Typed, NEW h \in Tasks, Written(h), SendHead(h)
  PROVE  Written(h)'
<1>1. /\ TaskTypes /\ RespTypes /\ resp[h] = <<>> /\ UNCHANGED gone /\ Full(h)
      /\ Write(h, ok_head) /\ GoesTo(h, "open")
  BY DEF Typed, Types4, SendHead, At, Written, Unanswered, clientVars
<1>2. /\ task'[h].pc = "open" /\ task'[h].client = task[h].client
      /\ task'[h].req = task[h].req
  BY <1>1, GoesToIs DEF Rest
<1>3. Lost(h)' = Lost(h) /\ Full(h)'
  BY <1>1, <1>2, SameLost
<1>4. \/ Lost(h) /\ resp'[h] = <<>>
      \/ ~Lost(h) /\ resp'[h] = <<>> \o ok_head
  BY <1>1, WriteDoes
<1>5. <<>> \o ok_head = ok_head
  BY HeadsAre, ConcatEmptySeq
<1>6. Begun(h)'
  BY <1>3, <1>4, <1>5 DEF Begun
<1> QED
  BY <1>2, <1>6 DEF Written, Unanswered

LEMMA OpenWritten ==
  ASSUME Typed, NEW h \in Tasks, Written(h), Open(h)
  PROVE  Written(h)'
<1>1. /\ TaskTypes /\ task[h] \in Task /\ Begun(h) /\ UNCHANGED <<gone, resp>>
      /\ task[h].req \in Requests
  BY DEF Typed, Types4, TaskTypes, Open, At, Written, Unanswered, clientVars,
     AllKnown, Known, Busy
<1>2. PICK s : \/ Fails(h, task[h], 500) \/ Fails(h, Opens(h, s), 500)
               \/ Goes(h, [Opens(h, s) EXCEPT !.pc = "entity"])
  BY OpenedOne DEF OpensOn, Entering
<1>3. /\ \/ task'[h].pc = "entity"
         \/ task'[h].pc = "reply" /\ task'[h].code = 500
      /\ task'[h].client = task[h].client /\ task'[h].req = task[h].req
  <2>1. CASE Fails(h, task[h], 500)
    BY <1>1, <2>1, FailsIs DEF Rest
  <2>2. CASE Fails(h, Opens(h, s), 500)
    <3>1. task'[h] = [Opens(h, s) EXCEPT !.pc = "reply", !.code = 500]
      BY <1>1, <2>2, GoesIs DEF Fails
    <3> QED
      BY <1>1, <3>1 DEF Opens, Task
  <2>3. CASE Goes(h, [Opens(h, s) EXCEPT !.pc = "entity"])
    <3>1. task'[h] = [Opens(h, s) EXCEPT !.pc = "entity"]
      BY <1>1, <2>3, GoesIs
    <3> QED
      BY <1>1, <3>1 DEF Opens, Task
  <2> QED
    BY <1>2, <2>1, <2>2, <2>3
<1>4. Begun(h)'
  BY <1>1, <1>3, SameLost, BegunSame
<1> QED
  BY <1>3, <1>4 DEF Written, Unanswered, Errs

(* The error pages.                                                        *)
LEMMA ReplyWritten ==
  ASSUME Typed, NEW h \in Tasks, Written(h), Reply(h)
  PROVE  Written(h)'
<1> DEFINE page == IF Full(h) THEN full_error(task[h].code) ELSE simple_error(task[h].code)
<1>1. /\ TaskTypes /\ RespTypes /\ UNCHANGED gone /\ Errs(h)
      /\ Write(h, page) /\ GoesTo(h, "close")
  BY DEF Typed, Types4, Reply, At, Written, Unanswered, clientVars, AfterReply
<1>2. /\ task'[h].pc = "close" /\ task'[h].req = task[h].req
  BY <1>1, GoesToIs DEF Rest
<1>3. Full(h)' = Full(h)
  BY <1>2 DEF Full
<1>4. task[h].code \in Nat
  BY DEF Typed, Types4, TaskTypes, Task, Codes
<1>5. page \in Seq(Parts) /\ <<>> \o page = page
  BY <1>4, PagesAre, ConcatEmptySeq
<1>6. \/ Lost(h) /\ resp'[h] = resp[h]
      \/ ~Lost(h) /\ resp'[h] = resp[h] \o page
  BY <1>1, WriteDoes
<1>7. Entity(<<>>)
  BY DEF Entity
<1>8. ASSUME Full(h) PROVE Answers(h)'
  <2>1. Lost(h) => resp[h] \in {<<>>, ok_head}
    BY <1>1, <1>8 DEF Errs, Begun
  <2>2. ~Lost(h) => \/ task[h].code \in {404, 501} /\ resp[h] = <<>>
                    \/ task[h].code = 500 /\ resp[h] = ok_head
    BY <1>1, <1>8 DEF Errs, Begun
  <2>3. page = full_error(task[h].code)
    BY <1>8
  <2> HIDE DEF page
  <2>4. CASE Lost(h)
    <3>1. Plain(h)'
      BY <1>6, <2>1, <2>4 DEF Plain
    <3> QED
      BY <1>3, <1>8, <3>1, FullAnswerNext
  <2>5. CASE ~Lost(h) /\ task[h].code \in {404, 501} /\ resp[h] = <<>>
    <3>1. resp'[h] = full_error(task[h].code)
      BY <1>5, <1>6, <2>3, <2>5
    <3>2. Plain(h)'
      BY <2>5, <3>1 DEF Plain
    <3> QED
      BY <1>3, <1>8, <3>2, FullAnswerNext
  <2>6. CASE ~Lost(h) /\ task[h].code = 500 /\ resp[h] = ok_head
    <3>1. resp'[h] = ok_head \o full_error(500)
      BY <1>6, <2>3, <2>6
    <3>2. Plain(h)'
      BY <3>1 DEF Plain
    <3> QED
      BY <1>3, <1>8, <3>2, FullAnswerNext
  <2> QED
    BY <2>2, <2>4, <2>5, <2>6
<1>9. ASSUME ~Full(h) PROVE Answers(h)'
  <2>1. resp[h] = <<>> /\ task[h].code \in {404, 500, 501}
    BY <1>1, <1>9 DEF Errs, Begun
  <2>2. page = simple_error(task[h].code)
    BY <1>9
  <2> HIDE DEF page
  <2>3. resp'[h] = <<>> \/ resp'[h] = simple_error(task[h].code)
    BY <1>5, <1>6, <2>1, <2>2
  <2>4. CASE resp'[h] = <<>>
    <3>1. Entity(resp'[h])
      BY <1>7, <2>4
    <3> QED
      BY <1>3, <1>9, <3>1, SimpleAnswerNext DEF Simple
  <2>5. CASE resp'[h] = simple_error(task[h].code)
    <3>1. \E n \in {404, 500, 501} : resp'[h] = simple_error(n)
      <4>1. PICK n \in {404, 500, 501} : n = task[h].code
        BY <2>1
      <4> QED
        BY <2>5, <4>1
    <3>2. ~Full(h)'
      BY <1>3, <1>9, Zenon
    <3> QED
      BY <3>1, <3>2, SimpleAnswerNext DEF Simple
  <2> QED
    BY <2>3, <2>4, <2>5
<1> QED
  BY <1>2, <1>8, <1>9 DEF Written, Unanswered

LEMMA CloseWritten ==
  ASSUME Typed, NEW h \in Tasks, Written(h), Close(h)
  PROVE  Written(h)'
<1>1. TaskTypes /\ UNCHANGED resp /\ Answers(h) /\ GoesTo(h, "done")
  BY DEF Typed, Types4, Close, At, Written
<1>2. task'[h].pc = "done" /\ task'[h].req = task[h].req /\ task'[h].kind = task[h].kind
  BY <1>1, GoesToIs DEF Rest
<1>3. Answers(h)'
  BY <1>1, <1>2, AnswersAlike DEF Full
<1> QED
  BY <1>2, <1>3 DEF Written, Unanswered

(* The entities.                                                           *)
LEMMA PartsJoin ==
  ASSUME NEW a \in Seq(Parts), NEW b \in Seq(Parts), NEW c \in Seq(Parts)
  PROVE  (a \o b) \o c = a \o (b \o c)
  BY ConcatAssociative

LEMMA HeadersBehindHead ==
  ASSUME NEW k, NEW n \in Nat, NEW t \in Seq(Parts)
  PROVE  ok_head \o (entity_headers(k, n) \o t) = (ok_head \o entity_headers(k, n)) \o t
<1>1. ok_head \in Seq(Parts) /\ entity_headers(k, n) \in Seq(Parts)
  BY HeadsAre
<1> QED
  BY <1>1, PartsJoin

LEMMA TextEntity ==
  /\ <<Part("text", 0)>> \in Seq(Parts) /\ Entity(<<Part("text", 0)>>)
  /\ <<>> \o <<Part("text", 0)>> = <<Part("text", 0)>>
<1>1. <<Part("text", 0)>> \in Seq(Parts)
  BY PartIs
<1>2. Entity(<<Part("text", 0)>>)
  BY DEF Entity, Part
<1> QED
  BY <1>1, <1>2, ConcatEmptySeq

LEMMA EmptyEntity == <<>> \in Seq(Parts) /\ Entity(<<>>)
  BY EmptySeq DEF Entity

LEMMA TextLength ==
  ASSUME TaskTypes, NEW h \in Tasks, Least(task[h].size, TextCap) >= 0
  PROVE  Least(task[h].size, TextCap) \in Announces
<1>1. task[h].size \in Content \cup {LongMax}
  BY DEF TaskTypes, Task
<1>2. task[h].size < 0 \/ task[h].size \in Sizes \cup {LongMax}
  BY <1>1 DEF Content, Absent, Locked, Directory
<1>3. task[h].size \in Int /\ TextCap \in Int
  BY <1>1, SizesAreNumbers, WebServerAssumption
<1>4. \/ Least(task[h].size, TextCap) = TextCap
      \/ Least(task[h].size, TextCap) = task[h].size /\ task[h].size >= 0
  BY <1>3 DEF Least
<1> QED
  BY <1>2, <1>3, <1>4 DEF Announces

(* An entity that follows the head makes an answer, or is lost.            *)
LEMMA EntityFollows ==
  ASSUME NEW h, NEW n \in Announces, NEW t \in Seq(Parts), Entity(t), Full(h)',
         resp'[h] = ok_head \o (entity_headers(task'[h].kind, n) \o t)
  PROVE  Headed(h)' /\ Answers(h)'
<1> DEFINE r == (ok_head \o entity_headers(task'[h].kind, n)) \o t
<1>1. resp'[h] = r
  BY AnnouncesAre, HeadersBehindHead
<1>2. SubSeq(r, 5, Len(r)) = t
  BY HeadedFits
<1>3. Headed(h)'
  BY <1>1 DEF Headed, Announced
<1>4. SubSeq(resp'[h], 5, Len(resp'[h])) = t
  BY <1>1, <1>2
<1>5. Answers(h)'
  <2>1. Carries(h)'
    BY <1>1, <1>4 DEF Carries, Announced
  <2> QED
    BY <2>1, FullAnswerNext
<1> QED
  BY <1>3, <1>5

LEMMA TextWritten ==
  ASSUME Typed, NEW h \in Tasks, Written(h), SendText(h)
  PROVE  Written(h)'
<1> DEFINE n == Least(task[h].size, TextCap)
           t == <<Part("text", 0)>>
<1>1. TaskTypes /\ RespTypes /\ Begun(h) /\ UNCHANGED gone /\ task[h] \in Task
  BY DEF Typed, Types4, TaskTypes, SendText, At, Written, clientVars
<1>2. \/ Fails(h, task[h], 500) /\ UNCHANGED resp
      \/ n >= 0 /\ Write(h, Headers(h, n) \o t) /\ GoesTo(h, "close")
  BY Zenon DEF SendText
<1> HIDE DEF t
<1>3. CASE Fails(h, task[h], 500) /\ UNCHANGED resp
  <2>1. /\ task'[h].pc = "reply" /\ task'[h].code = 500
        /\ task'[h].client = task[h].client /\ task'[h].req = task[h].req
    BY <1>1, <1>3, FailsIs DEF Rest
  <2>2. Begun(h)'
    BY <1>1, <1>3, <2>1, SameLost, BegunSame
  <2> QED
    BY <2>1, <2>2 DEF Written, Unanswered, Errs
<1>4. CASE n >= 0 /\ Write(h, Headers(h, n) \o t) /\ GoesTo(h, "close")
  <2>1. n \in Announces
    BY <1>1, <1>4, TextLength
  <2> HIDE DEF n
  <2>2. /\ task'[h].pc = "close" /\ task'[h].req = task[h].req
        /\ task'[h].kind = task[h].kind
    BY <1>1, <1>4, GoesToIs DEF Rest
  <2>3. Full(h)' = Full(h)
    BY <2>2 DEF Full
  <2>4. \/ Lost(h) /\ resp'[h] = resp[h]
        \/ ~Lost(h) /\ resp'[h] = resp[h] \o (Headers(h, n) \o t)
    BY <1>1, <1>4, WriteDoes
  <2>5. t \in Seq(Parts) /\ Entity(t) /\ <<>> \o t = t
    BY TextEntity DEF t
  <2>6. CASE Lost(h)
    <3>1. Full(h) => resp'[h] \in {<<>>, ok_head}
      BY <1>1, <2>4, <2>6 DEF Begun
    <3>2. ~Full(h) => Entity(resp'[h])
      BY <1>1, <2>4, <2>6, EmptyEntity DEF Begun
    <3>3. Answers(h)'
      BY <2>3, <3>1, <3>2, FullAnswerNext, SimpleAnswerNext DEF Plain, Simple
    <3> QED
      BY <2>2, <3>3 DEF Written, Unanswered
  <2>7. CASE ~Lost(h) /\ Full(h)
    <3>1. resp'[h] = ok_head \o (entity_headers(task'[h].kind, n) \o t)
      BY <1>1, <2>2, <2>4, <2>7 DEF Begun, Headers
    <3>2. Answers(h)'
      BY <2>1, <2>3, <2>5, <2>7, <3>1, EntityFollows
    <3> QED
      BY <2>2, <3>2 DEF Written, Unanswered
  <2>8. CASE ~Lost(h) /\ ~Full(h)
    <3>1. resp'[h] = t
      BY <1>1, <2>4, <2>5, <2>8 DEF Begun, Headers
    <3>2. Entity(resp'[h])
      BY <2>5, <3>1
    <3>3. Answers(h)'
      BY <2>3, <2>8, <3>2, SimpleAnswerNext DEF Simple
    <3> QED
      BY <2>2, <3>3 DEF Written, Unanswered
  <2> QED
    BY <2>6, <2>7, <2>8
<1> QED
  BY <1>2, <1>3, <1>4

LEMMA GraphicWritten ==
  ASSUME Typed, NEW h \in Tasks, Written(h), SendGraphic(h)
  PROVE  Written(h)'
<1> DEFINE n == task[h].size
<1>1. /\ TaskTypes /\ RespTypes /\ Begun(h) /\ UNCHANGED gone /\ n \in Announces
      /\ GoesTo(h, "chunk")
      /\ IF Full(h) THEN Write(h, Headers(h, n)) ELSE UNCHANGED resp
  BY DEF Typed, Types4, SendGraphic, At, Written, clientVars, AllKnown, Known,
     Graphic, Images, Announces
<1> HIDE DEF n
<1>2. /\ task'[h].pc = "chunk" /\ task'[h].req = task[h].req
      /\ task'[h].kind = task[h].kind /\ task'[h].client = task[h].client
  BY <1>1, GoesToIs DEF Rest
<1>3. Full(h)' = Full(h) /\ Lost(h)' = Lost(h)
  BY <1>1, <1>2, SameLost
<1>4. CASE ~Full(h)
  <2>1. resp'[h] = <<>>
    BY <1>1, <1>4 DEF Begun
  <2>2. Entity(resp'[h])
    BY <2>1, EmptyEntity
  <2>3. Streams(h)'
    BY <1>3, <1>4, <2>2, Zenon DEF Streams
  <2> QED
    BY <1>2, <2>3 DEF Written, Unanswered
<1>5. CASE Full(h) /\ Lost(h)
  <2>1. resp'[h] \in {<<>>, ok_head}
    BY <1>1, <1>5, WriteDoes DEF Begun
  <2>2. Streams(h)'
    BY <1>3, <1>5, <2>1, Zenon DEF Streams
  <2> QED
    BY <1>2, <2>2 DEF Written, Unanswered
<1>6. CASE Full(h) /\ ~Lost(h)
  <2>1. resp'[h] = ok_head \o entity_headers(task'[h].kind, n)
    BY <1>1, <1>2, <1>6, WriteDoes DEF Begun, Headers
  <2>2. entity_headers(task'[h].kind, n) \in Seq(Parts)
    BY <1>1, HeadsAre, AnnouncesAre
  <2>3. entity_headers(task'[h].kind, n) = entity_headers(task'[h].kind, n) \o <<>>
    BY <2>2, ConcatEmptySeq
  <2>4. Headed(h)'
    BY <1>1, <1>3, <1>6, <2>1, <2>3, EmptyEntity, EntityFollows
  <2>5. Streams(h)'
    BY <1>3, <1>6, <2>4, Zenon DEF Streams
  <2> QED
    BY <1>2, <2>5 DEF Written, Unanswered
<1> QED
  BY <1>4, <1>5, <1>6

LEMMA EntityMore ==
  ASSUME NEW t \in Seq(Parts), Entity(t), NEW n \in Nat
  PROVE  t \o <<Part("chunk", n)>> \in Seq(Parts) /\ Entity(t \o <<Part("chunk", n)>>)
<1> DEFINE p == Part("chunk", n)
           s == t \o <<p>>
<1>0. p \in Parts /\ p.is = "chunk"
  BY PartIs DEF Part
<1> HIDE DEF p
<1>1. p.is = "chunk" /\ <<p>> \in Seq(Parts)
  BY <1>0
<1>2. /\ s \in Seq(Parts) /\ Len(s) = Len(t) + Len(<<p>>)
      /\ \A m \in 1 .. Len(t) + Len(<<p>>) :
           s[m] = IF m <= Len(t) THEN t[m] ELSE <<p>>[m - Len(t)]
  BY <1>1, ConcatProperties
<1>3. Len(<<p>>) = 1 /\ <<p>>[1] = p /\ Len(t) \in Nat /\ DOMAIN t = 1 .. Len(t)
  BY LenProperties
<1> HIDE DEF s
<1>4. DOMAIN s = 1 .. Len(t) + 1
  BY <1>2, <1>3, LenProperties
<1>5. ASSUME NEW m \in 1 .. Len(t) + 1
      PROVE  s[m].is \in {"chunk", "text"}
  <2>1. CASE m <= Len(t)
    <3>1. s[m] = t[m] /\ m \in DOMAIN t
      BY <1>2, <1>3, <1>5, <2>1
    <3> QED
      BY <3>1 DEF Entity
  <2>2. CASE m = Len(t) + 1
    <3>1. s[m] = p
      BY <1>2, <1>3, <1>5, <2>2
    <3> QED
      BY <1>1, <3>1
  <2> QED
    BY <1>3, <2>1, <2>2
<1>6. Entity(s)
  BY <1>4, <1>5 DEF Entity
<1> QED
  BY <1>2, <1>6 DEF s, p

LEMMA HeadedMore ==
  ASSUME NEW h, Headed(h), NEW n \in Nat, Full(h)', task'[h].kind = task[h].kind,
         resp'[h] = resp[h] \o <<Part("chunk", n)>>
  PROVE  Headed(h)'
<1> DEFINE c == <<Part("chunk", n)>>
<1>1. PICK m \in Announces, t \in Seq(Parts) : resp[h] = Announced(h, m) \o t /\ Entity(t)
  BY DEF Headed
<1>2. /\ Announced(h, m) \in Seq(Parts) /\ c \in Seq(Parts)
      /\ ok_head \in Seq(Parts) /\ entity_headers(task[h].kind, m) \in Seq(Parts)
  BY HeadIsFour, HeadsAre, AnnouncesAre, PartIs DEF Announced
<1>3. t \o c \in Seq(Parts) /\ Entity(t \o c)
  BY <1>1, EntityMore
<1> DEFINE a == Announced(h, m)
<1> HIDE DEF a, c
<1>4. (a \o t) \o c = a \o (t \o c)
  <2>1. a \in Seq(Parts) /\ c \in Seq(Parts) /\ t \in Seq(Parts)
    BY <1>2 DEF a
  <2> QED
    BY <2>1, PartsJoin
<1>5. Announced(h, m) \o (t \o c) = ok_head \o (entity_headers(task[h].kind, m) \o (t \o c))
  BY <1>3, AnnouncesAre, HeadersBehindHead DEF Announced
<1>6. resp'[h] = ok_head \o (entity_headers(task'[h].kind, m) \o (t \o c))
  BY <1>1, <1>4, <1>5 DEF a, c
<1> QED
  BY <1>3, <1>6, EntityFollows

LEMMA StreamAnswers ==
  ASSUME NEW h, Streams(h)
  PROVE  Answers(h)
<1>1. CASE Full(h) /\ Headed(h)
  BY <1>1, HeadedAnswers
<1>2. CASE Full(h) /\ ~Headed(h)
  BY <1>2 DEF Streams, Answers
<1>3. CASE ~Full(h)
  BY <1>3 DEF Streams, Answers
<1> QED
  BY <1>1, <1>2, <1>3

LEMMA ChunkWritten ==
  ASSUME Typed, NEW h \in Tasks, Written(h), SendChunk(h)
  PROVE  Written(h)'
<1> DEFINE n == Least(Left(h), ChunkCap)
<1>1. /\ TaskTypes /\ RespTypes /\ Streams(h) /\ UNCHANGED gone /\ task[h] \in Task
      /\ n \in Int
  BY LeftIsNumber DEF Typed, Types4, TaskTypes, SendChunk, At, Written, clientVars
<1>2. \/ GoesTo(h, "close") /\ UNCHANGED resp
      \/ /\ n > 0 /\ Write(h, <<Part("chunk", n)>>)
         /\ Goes(h, [task[h] EXCEPT !.at = task[h].at + n, !.pc = "chunk"])
  BY Zenon DEF SendChunk, AfterChunk
<1> HIDE DEF n
<1>3. CASE GoesTo(h, "close") /\ UNCHANGED resp
  <2>1. /\ task'[h].pc = "close" /\ task'[h].req = task[h].req
        /\ task'[h].kind = task[h].kind
    BY <1>1, <1>3, GoesToIs DEF Rest
  <2>2. Answers(h)'
    BY <1>1, <1>3, <2>1, StreamAnswers, AnswersAlike DEF Full
  <2> QED
    BY <2>1, <2>2 DEF Written, Unanswered
<1>4. CASE /\ n > 0 /\ Write(h, <<Part("chunk", n)>>)
           /\ Goes(h, [task[h] EXCEPT !.at = task[h].at + n, !.pc = "chunk"])
  <2>1. task'[h] = [task[h] EXCEPT !.at = task[h].at + n, !.pc = "chunk"]
    BY <1>1, <1>4, GoesIs
  <2>2. /\ task'[h].pc = "chunk" /\ task'[h].req = task[h].req
        /\ task'[h].kind = task[h].kind /\ task'[h].client = task[h].client
    BY <1>1, <2>1 DEF Task
  <2>3. Full(h)' = Full(h) /\ Lost(h)' = Lost(h)
    BY <1>1, <2>2, SameLost
  <2>4. \/ Lost(h) /\ resp'[h] = resp[h]
        \/ ~Lost(h) /\ resp'[h] = resp[h] \o <<Part("chunk", n)>>
    BY <1>1, <1>4, WriteDoes
  <2>5. CASE Lost(h)
    <3>1. resp'[h] = resp[h] /\ Headed(h)' = Headed(h)
      BY <2>2, <2>3, <2>4, <2>5, AnswersAlike
    <3>2. Streams(h)'
      BY <1>1, <2>3, <3>1 DEF Streams
    <3> QED
      BY <2>2, <3>2 DEF Written, Unanswered
  <2>6. CASE ~Lost(h) /\ Full(h)
    <3>0. /\ n \in Nat /\ Full(h)' /\ (Headed(h) \/ Lost(h))
          /\ resp'[h] = resp[h] \o <<Part("chunk", n)>>
      BY <1>1, <1>4, <2>3, <2>4, <2>6 DEF Streams
    <3>1. Headed(h)'
      BY <2>2, <2>6, <3>0, HeadedMore
    <3>2. Streams(h)'
      BY <2>3, <2>6, <3>1, Zenon DEF Streams
    <3> QED
      BY <2>2, <3>2 DEF Written, Unanswered
  <2>7. CASE ~Lost(h) /\ ~Full(h)
    <3>1. resp[h] \in Seq(Parts) /\ Entity(resp[h]) /\ n \in Nat
      BY <1>1, <1>4, <2>7 DEF RespTypes, Streams
    <3>2. Entity(resp'[h])
      BY <2>4, <2>7, <3>1, EntityMore
    <3>3. Streams(h)'
      BY <2>3, <2>7, <3>2, Zenon DEF Streams
    <3> QED
      BY <2>2, <3>3 DEF Written, Unanswered
  <2> QED
    BY <2>5, <2>6, <2>7
<1> QED
  BY <1>2, <1>3, <1>4

(* The whole of a step.                                                    *)
LEMMA RequestWritten ==
  ASSUME Typed, AllWritten, NEW h \in Tasks, handle_request(h)
  PROVE  AllWritten'
<1>1. /\ up /\ task[h].pc # "none"
      /\ UNCHANGED num_connections
  <2>1. \E p : p # "none" /\ At(h, p)
    BY DEF handle_request, Start, Receive, LookUp, SendHead, Reply, Open,
       SendText, SendGraphic, SendChunk, Close
  <2> QED
    BY <2>1, NothingAccepted DEF At
<1>2. \A g \in Tasks : Written(g) /\ Waiting(g)
  BY <1>1 DEF AllWritten
<1>3. Written(h)'
  BY <1>2, EarlyWritten, HeadWritten, ReplyWritten, OpenWritten, TextWritten, GraphicWritten,
     ChunkWritten, CloseWritten DEF handle_request
<1>4. ASSUME NEW g \in Tasks \ {h}
      PROVE  Written(g)' /\ Waiting(g)'
  <2>1. Alike(g) /\ Written(g) /\ Waiting(g)
    BY <1>2, OthersAlike
  <2> QED
    BY <1>1, <2>1, WrittenAlike DEF Alike, Waiting
<1>5. Waiting(h)'
  BY <1>1, <1>2 DEF Waiting
<1> QED
  BY <1>3, <1>4, <1>5 DEF AllWritten

LEMMA CreateWritten ==
  ASSUME Typed, AllWritten, up, LoopOn, NEW c, Create(c)
  PROVE  AllWritten'
<1>0. TaskTypes /\ num_connections + 1 \in Tasks /\ num_connections \in Nat
  BY WebServerAssumption DEF Typed, Types4, TaskTypes, LoopOn, Tasks
<1> PICK h \in Tasks : h = num_connections + 1
  BY <1>0
<1>1. TaskTypes /\ num_connections \in Nat /\ h = num_connections + 1
  BY <1>0
<1>2. \A g \in Tasks : Written(g) /\ Waiting(g)
  BY DEF AllWritten
<1>3. PICK p \in {"start", "unborn"} : Goes(h, [NewTask EXCEPT !.arg = c, !.pc = p])
  BY <1>1 DEF Create
<1>4. /\ task'[h] = [NewTask EXCEPT !.arg = c, !.pc = p]
      /\ \A g \in Tasks \ {h} : task'[g] = task[g]
  BY <1>1, <1>3, GoesIs
<1>5. num_connections' = h /\ UNCHANGED <<resp, gone>>
  BY <1>1 DEF Create, clientVars
<1>6. task[h].pc = "none" /\ h > num_connections
  BY <1>1, <1>2 DEF Waiting
<1>7. task'[h].pc \in {"start", "unborn"}
  BY <1>4 DEF NewTask
<1>8. resp[h] = <<>> /\ resp'[h] = <<>>
  BY <1>1, <1>2, <1>5, <1>6 DEF Written, Unanswered
<1>9. Written(h)' /\ Waiting(h)'
  BY <1>1, <1>5, <1>7, <1>8 DEF Written, Unanswered, Waiting, Tasks
<1>10. ASSUME NEW g \in Tasks \ {h}
       PROVE  Written(g)' /\ Waiting(g)'
  <2>1. Alike(g)
    BY <1>4, <1>5 DEF Alike, Lost
  <2>2. Waiting(g)'
    BY <1>1, <1>2, <1>4, <1>5, <1>6 DEF Waiting, Tasks
  <2> QED
    BY <1>2, <2>1, <2>2, WrittenAlike
<1> QED
  BY <1>9, <1>10 DEF AllWritten

LEMMA ElsewhereWritten ==
  ASSUME Typed, AllWritten, Files \/ (\E c \in Clients : Client(c)) \/ UNCHANGED vars
  PROVE  AllWritten'
<1>1. UNCHANGED <<up, num_connections, resp>> /\ gone \subseteq gone'
  BY DEF Files, FileReplaced, FileRewritten, Client, Connect, Ask, HangUp, Stall, ReadOn,
     vars, mainVars, clientVars
<1>2. ASSUME NEW g \in Tasks
      PROVE  \A f \in {"pc", "client", "req", "kind", "code"} : task'[g][f] = task[g][f]
  <2>1. task[g] \in Task
    BY DEF Typed, Types4, TaskTypes
  <2>2. UNCHANGED task \/ \E p \in Paths, s \in Content : FileRewritten(p, s)
    BY DEF Files, FileReplaced, Client, Connect, Ask, HangUp, Stall, ReadOn, vars
  <2>3. task'[g] = task[g] \/ \E s : task'[g] = [task[g] EXCEPT !.size = s]
    BY <2>2 DEF FileRewritten
  <2> QED
    BY <2>1, <2>3 DEF Task
<1>3. ASSUME NEW g \in Tasks
      PROVE  Alike(g)
  BY <1>1, <1>2 DEF Alike, Lost
<1>4. ASSUME NEW g \in Tasks, Written(g), Waiting(g)
      PROVE  Written(g)' /\ Waiting(g)'
  BY <1>1, <1>3, <1>4, WrittenAlike DEF Alike, Waiting
<1> QED
  BY <1>1, <1>4 DEF AllWritten

LEMMA AllWrittenKept ==
  ASSUME Typed, AllWritten, [Next]_vars
  PROVE  AllWritten'
<1>1. ASSUME ProcessEnds PROVE AllWritten'
  BY <1>1 DEF ProcessEnds, AllWritten
<1>2. CASE Main
  <2>1. ASSUME NEW c, up, LoopOn, Create(c) PROVE AllWritten'
    BY <2>1, CreateWritten
  <2> QED
    BY <1>1, <1>2, <2>1, Zenon DEF Main, Accept, AcceptFails, MainReturns
<1>3. ASSUME NEW h \in Tasks, handle_request(h) \/ BrokenPipe(h)
      PROVE  AllWritten'
  BY <1>1, <1>3, RequestWritten DEF BrokenPipe
<1> QED
  BY <1>2, <1>3, ElsewhereWritten DEF Next

LEMMA AllWrittenStarts == Init => AllWritten
  BY DEF Init, AllWritten, Written, Waiting, NewTask, Unanswered, Tasks

LEMMA WrittenIsEnough ==
  ASSUME AllWritten, Typed
  PROVE  OneAnswer
<1> SUFFICES ASSUME up, NEW h \in Tasks PROVE Answers(h)
  BY DEF OneAnswer
<1>1. Written(h) /\ task[h] \in Task
  BY DEF AllWritten, Typed, Types4, TaskTypes
<1>2. Begun(h) => Answers(h)
  <2>1. Full(h) /\ Begun(h) => Answers(h)
    BY Zenon DEF Begun, Answers
  <2>2. ~Full(h) /\ Begun(h) => Entity(resp[h])
    BY EmptyEntity DEF Begun
  <2> QED
    BY <2>1, <2>2, Zenon DEF Answers
<1>3. resp[h] = <<>> => Answers(h)
  BY EmptyEntity DEF Answers
<1>4. Errs(h) => Answers(h)
  BY <1>2, <1>3 DEF Errs
<1>5. Streams(h) => Answers(h)
  BY StreamAnswers
<1>6. /\ task[h].pc \in Unanswered \ {"open", "entity"} => resp[h] = <<>>
      /\ task[h].pc \in {"open", "entity"} => Begun(h)
      /\ task[h].pc = "reply" => Errs(h)
      /\ task[h].pc = "chunk" => Streams(h)
      /\ task[h].pc \in {"close", "done"} => Answers(h)
  BY <1>1, Zenon DEF Written
<1>7. \/ task[h].pc \in Unanswered \ {"open", "entity"}
      \/ task[h].pc \in {"open", "entity"} \/ task[h].pc = "reply"
      \/ task[h].pc = "chunk" \/ task[h].pc \in {"close", "done"}
  BY <1>1 DEF Task, Unanswered
<1> QED
  BY <1>2, <1>3, <1>4, <1>5, <1>6, <1>7

(* Whatever clients and files do, a response is one answer or the          *)
(* beginning of one; only a file that was there and cannot be sent puts    *)
(* two heads in one (send_get_response, httpResponses.c).                  *)
THEOREM AnsweredOnce == Spec => []OneAnswer
<1>1. Spec => [](Typed /\ AllWritten)
  BY TypedStarts, TypedKept, AllWrittenStarts, AllWrittenKept, PTL DEF Spec
<1> QED
  BY <1>1, WrittenIsEnough, PTL

-----------------------------------------------------------------------------
(* What a part carries, and the sums of what the parts up to each do.      *)
Load(p) == IF p.is = "chunk" THEN p.n ELSE 0

Adds(sum, parts) ==
  sum = [n \in 0 .. Len(parts) |-> IF n = 0 THEN 0 ELSE sum[n - 1] + Load(parts[n])]

LEMMA CarriedIsLast ==
  ASSUME NEW parts
  PROVE  Carried(parts) = (CHOOSE sum : Adds(sum, parts))[Len(parts)]
  BY DEF Carried, Adds, Load

LEMMA LoadIsNumber ==
  ASSUME NEW p \in Parts
  PROVE  Load(p) \in Nat
  BY DEF Load, Parts

(* There are such sums, for any parts.                                     *)
LEMMA SumsExist ==
  ASSUME NEW parts \in Seq(Parts)
  PROVE  /\ Adds(CHOOSE sum : Adds(sum, parts), parts)
         /\ (CHOOSE sum : Adds(sum, parts)) \in [0 .. Len(parts) -> Nat]
<1> DEFINE N == Len(parts)
           step == [p \in (1 .. N) \X Nat |-> p[2] + Load(parts[p[1]])]
<1>1. N \in Nat /\ \A n \in 1 .. N : parts[n] \in Parts
  BY LenProperties, ElementOfSeq
<1>2. step \in [(1 .. N) \X Nat -> Nat]
  BY <1>1, LoadIsNumber
<1>3. PICK f \in [0 .. N -> Nat] : Steps(f, N, 0, step)
  <2> HIDE DEF step, N
  <2> QED
    BY <1>1, <1>2, StepsExist
<1>4. \A n \in 1 .. N : f[n] = f[n - 1] + Load(parts[n])
  <2> TAKE n \in 1 .. N
  <2>a. n - 1 \in 0 .. N
    BY <1>1
  <2>b. f[n - 1] \in Nat
    BY <2>a
  <2>1. f[n - 1] \in Nat /\ <<n, f[n - 1]>> \in (1 .. N) \X Nat
    BY <2>b
  <2>2. step[<<n, f[n - 1]>>] = f[n - 1] + Load(parts[n])
    BY <2>1
  <2> QED
    BY <1>3, <2>2 DEF Steps
<1>5. Adds(f, parts)
  <2>1. f[0] = 0 /\ DOMAIN f = 0 .. N
    BY <1>3 DEF Steps
  <2> DEFINE g == [n \in 0 .. N |-> IF n = 0 THEN 0 ELSE f[n - 1] + Load(parts[n])]
  <2>2. \A n \in 0 .. N : f[n] = g[n]
    BY <1>1, <1>4, <2>1
  <2>3. f = g
    BY <2>1, <2>2
  <2> QED
    BY <2>3 DEF Adds
<1> DEFINE h == CHOOSE sum : Adds(sum, parts)
<1>6. Adds(h, parts)
  BY <1>5
<1>7. h \in [0 .. N -> Nat]
  <2>1. DOMAIN h = 0 .. N /\ h = [n \in 0 .. N |-> h[n]] /\ h[0] = 0
        /\ \A n \in 1 .. N : h[n] = h[n - 1] + Load(parts[n])
    <3> HIDE DEF h
    <3> QED
      BY <1>1, <1>6 DEF Adds
  <2>2. f[0] = 0 /\ DOMAIN f = 0 .. N
    BY <1>3 DEF Steps
  <2>3. \A n \in 0 .. N : h[n] = f[n]
    <3> HIDE DEF h, N
    <3>1. StepAlike(h, f, N)
      BY <1>4, <2>1, <2>2 DEF StepAlike
    <3> QED
      BY <1>1, <3>1, StepsAgree
  <2> QED
    BY <2>1, <2>3
<1> QED
  BY <1>6, <1>7

LEMMA CarriedNone == Carried(<<>>) = 0
<1> DEFINE h == CHOOSE sum : Adds(sum, <<>>)
<1>1. Adds(h, <<>>)
  BY EmptySeq, SumsExist
<1>2. h[0] = 0 /\ Len(<<>>) = 0
  <2> HIDE DEF h
  <2> QED
    BY <1>1 DEF Adds
<1> QED
  BY <1>2, CarriedIsLast

(* One more part adds what it carries.                                     *)
LEMMA CarriedMore ==
  ASSUME NEW parts \in Seq(Parts), NEW p \in Parts
  PROVE  Carried(parts \o <<p>>) = Carried(parts) + Load(p)
<1> DEFINE more == parts \o <<p>>
           f == CHOOSE sum : Adds(sum, parts)
           g == CHOOSE sum : Adds(sum, more)
           N == Len(parts)
<1>1. /\ more \in Seq(Parts) /\ Len(more) = N + 1 /\ N \in Nat
      /\ \A n \in 1 .. N : more[n] = parts[n]
      /\ more[N + 1] = p
  <2>1. more = Append(parts, p)
    BY AppendIsConcat
  <2> QED
    BY <2>1, AppendProperties, LenProperties
<1>2. Adds(f, parts) /\ Adds(g, more)
  BY <1>1, SumsExist
<1>3. /\ DOMAIN f = 0 .. N /\ f[0] = 0
      /\ \A n \in 1 .. N : f[n] = f[n - 1] + Load(parts[n])
  <2> HIDE DEF f
  <2> QED
    BY <1>1, <1>2 DEF Adds
<1>4. /\ DOMAIN g = 0 .. N + 1 /\ g[0] = 0
      /\ \A n \in 1 .. N + 1 : g[n] = g[n - 1] + Load(more[n])
  <2> HIDE DEF g, more
  <2> QED
    BY <1>1, <1>2 DEF Adds
<1>5. \A n \in 0 .. N : f[n] = g[n]
  <2> HIDE DEF f, g, N, more
  <2>1. StepAlike(f, g, N) /\ N \in Nat
    BY <1>1, <1>3, <1>4 DEF StepAlike
  <2> QED
    BY <2>1, StepsAgree
<1>6. g[N + 1] = f[N] + Load(p)
  <2> HIDE DEF f, g, N, more
  <2> QED
    BY <1>1, <1>4, <1>5
<1>7. Carried(more) = g[Len(more)] /\ Carried(parts) = f[Len(parts)]
  BY CarriedIsLast
<1> HIDE DEF f, g
<1> QED
  BY <1>1, <1>6, <1>7

LEMMA CarriedNoMore ==
  ASSUME NEW parts \in Seq(Parts), Carried(parts) = 0, NEW p \in Parts, Load(p) = 0
  PROVE  Carried(parts \o <<p>>) = 0
<1>1. Carried(parts \o <<p>>) = Carried(parts) + Load(p)
  BY CarriedMore
<1> QED
  BY <1>1

(* Heads carry nothing.                                                    *)
LEMMA HeadsCarryNone ==
  /\ Carried(ok_head) = 0
  /\ \A k : \A n \in Nat : Carried(ok_head \o entity_headers(k, n)) = 0
<1> DEFINE status == Part("status", 200)
           general == Part("general", 0)
<1>1. status \in Parts /\ general \in Parts /\ Load(status) = 0 /\ Load(general) = 0
  <2>1. status \in Parts /\ general \in Parts
    BY PartIs
  <2>2. Load(status) = 0
    BY DEF Part, Load
  <2>3. Load(general) = 0
    BY DEF Part, Load
  <2> QED
    BY <2>1, <2>2, <2>3
<1>2. ok_head = (<<>> \o <<status>>) \o <<general>>
  BY DEF ok_head, send_general_headers
<1> HIDE DEF status, general
<1>3. <<>> \in Seq(Parts) /\ <<>> \o <<status>> \in Seq(Parts)
  BY <1>1, EmptySeq
<1>4. Carried(<<>> \o <<status>>) = 0
  BY <1>1, <1>3, CarriedNoMore, CarriedNone, Zenon
<1>5. Carried(ok_head) = 0
  <2>1. Carried((<<>> \o <<status>>) \o <<general>>) = 0
    BY <1>1, <1>3, <1>4, CarriedNoMore, Zenon
  <2> QED
    BY <1>2, <2>1
<1>6. ASSUME NEW k, NEW n \in Nat
      PROVE  Carried(ok_head \o entity_headers(k, n)) = 0
  <2> DEFINE type == Part(get_content_type(k), 0)
             length == Part("length", n)
  <2>1. type \in Parts /\ length \in Parts /\ Load(type) = 0 /\ Load(length) = 0
    BY PartIs DEF Part, Load, get_content_type
  <2> HIDE DEF type, length
  <2>2. ok_head \in Seq(Parts) /\ <<type>> \in Seq(Parts) /\ <<length>> \in Seq(Parts)
    BY <2>1, HeadsAre
  <2>3. entity_headers(k, n) = <<type>> \o <<length>>
    BY DEF entity_headers, type, length
  <2>4. (ok_head \o <<type>>) \o <<length>> = ok_head \o (<<type>> \o <<length>>)
    BY <2>2, ConcatAssociative
  <2>5. ok_head \o <<type>> \in Seq(Parts)
    BY <2>2, ConcatProperties
  <2>6. Carried(ok_head \o <<type>>) = 0
    BY <1>5, <2>1, <2>2, CarriedNoMore, Zenon
  <2>7. Carried((ok_head \o <<type>>) \o <<length>>) = 0
    BY <2>1, <2>5, <2>6, CarriedNoMore, Zenon
  <2> QED
    BY <2>3, <2>4, <2>7
<1> QED
  BY <1>5, <1>6

(* How much of an image has been sent, while it is sent and after.         *)
Measures(h) == h \notin touched /\ Graphic(h) /\ task[h].size # LongMax /\ ~Lost(h)

SoFar(h) ==
  /\ Carried(resp[h]) = task[h].at /\ task[h].at <= task[h].size
  /\ Full(h) => HasLength(h)

Sends(h) ==
  Measures(h) => /\ task[h].pc = "chunk" => SoFar(h)
                 /\ task[h].pc = "close" /\ task[h].code = 0 => SentWhole(h)

AllSent == \A h \in Tasks : Sends(h)

LEMMA SentIsEnough == AllSent => GraphicsWhole
  BY DEF AllSent, Sends, Measures, GraphicsWhole, Lost

LEMMA SendsAlike ==
  ASSUME NEW g, Sends(g), task'[g] = task[g], resp'[g] = resp[g], Lost(g) => Lost(g)',
         g \in touched => g \in touched'
  PROVE  Sends(g)'
<1>1. Measures(g)' => Measures(g)
  BY DEF Measures, Graphic
<1>2. SoFar(g)' = SoFar(g) /\ SentWhole(g)' = SentWhole(g)
  BY DEF SoFar, SentWhole, HasLength, Full
<1> QED
  BY <1>1, <1>2 DEF Sends

LEMMA ChunkSent ==
  ASSUME Typed, NEW h \in Tasks, Sends(h), SendChunk(h)
  PROVE  Sends(h)'
<1> DEFINE n == Least(Left(h), ChunkCap)
<1>1. /\ TaskTypes /\ RespTypes /\ UNCHANGED <<gone, touched>> /\ task[h] \in Task
      /\ n \in Int /\ task[h].pc = "chunk"
  BY LeftIsNumber DEF Typed, Types4, TaskTypes, SendChunk, At, clientVars, diskVars
<1>2. \/ n <= 0 /\ GoesTo(h, "close") /\ UNCHANGED resp
      \/ /\ n > 0 /\ Write(h, <<Part("chunk", n)>>)
         /\ Goes(h, [task[h] EXCEPT !.at = task[h].at + n, !.pc = "chunk"])
  BY Zenon DEF SendChunk, AfterChunk
<1>3. task[h].size # LongMax =>
        /\ task[h].size \in Int /\ task[h].at \in Nat
        /\ n <= task[h].size - task[h].at
        /\ n <= 0 => task[h].size <= task[h].at
  <2>1. task[h].size \in Content \cup {LongMax} /\ task[h].at \in Nat
    BY <1>1 DEF Task
  <2>2. task[h].size \in Int
    BY <2>1, SizesAreNumbers
  <2> QED
    BY <2>1, <2>2, WebServerAssumption DEF Least, Left
<1> HIDE DEF n
<1>4. CASE n <= 0 /\ GoesTo(h, "close") /\ UNCHANGED resp
  <2>1. task'[h].pc = "close" /\ \A f \in Rest : task'[h][f] = task[h][f]
    BY <1>1, <1>4, GoesToIs
  <2>2. /\ task'[h].client = task[h].client /\ task'[h].req = task[h].req
        /\ task'[h].kind = task[h].kind /\ task'[h].size = task[h].size
    BY <2>1 DEF Rest
  <2>3. Full(h)' = Full(h) /\ Lost(h)' = Lost(h)
    BY <1>1, <2>2, SameLost
  <2>4. Measures(h)' = Measures(h) /\ HasLength(h)' = HasLength(h)
    BY <1>1, <1>4, <2>2, <2>3 DEF Measures, Graphic, HasLength
  <2>5. Measures(h) => Carried(resp[h]) = task[h].size /\ (Full(h) => HasLength(h))
    BY <1>1, <1>3, <1>4 DEF Sends, SoFar, Measures
  <2>6. Measures(h) => SentWhole(h)'
    BY <1>4, <2>2, <2>3, <2>4, <2>5 DEF SentWhole
  <2> QED
    BY <2>1, <2>4, <2>6 DEF Sends
<1>5. CASE /\ n > 0 /\ Write(h, <<Part("chunk", n)>>)
           /\ Goes(h, [task[h] EXCEPT !.at = task[h].at + n, !.pc = "chunk"])
  <2>1. task'[h] = [task[h] EXCEPT !.at = task[h].at + n, !.pc = "chunk"]
    BY <1>1, <1>5, GoesIs
  <2>2. /\ task'[h].pc = "chunk" /\ task'[h].req = task[h].req
        /\ task'[h].kind = task[h].kind /\ task'[h].client = task[h].client
        /\ task'[h].size = task[h].size /\ task'[h].at = task[h].at + n
    BY <1>1, <2>1 DEF Task
  <2>3. Full(h)' = Full(h) /\ Lost(h)' = Lost(h)
    BY <1>1, <2>2, SameLost
  <2>4. Measures(h)' = Measures(h)
    BY <1>1, <2>2, <2>3 DEF Measures, Graphic
  <2> SUFFICES ASSUME Measures(h) PROVE SoFar(h)'
    BY <2>2, <2>4 DEF Sends
  <2>5. SoFar(h) /\ task[h].size # LongMax
    BY <1>1 DEF Sends, Measures
  <2> DEFINE p == Part("chunk", n)
  <2>6. p \in Parts /\ Load(p) = n
    <3>1. n \in Nat
      BY <1>1, <1>5
    <3>2. p \in Parts
      BY <3>1, PartIs
    <3> QED
      BY <3>2 DEF Load, Part
  <2>7. resp[h] \in Seq(Parts) /\ resp'[h] = resp[h] \o <<p>>
    BY <1>1, <1>5, WriteDoes DEF RespTypes, Measures
  <2> HIDE DEF p
  <2>8. Carried(resp'[h]) = Carried(resp[h]) + n
    <3>1. Carried(resp[h] \o <<p>>) = Carried(resp[h]) + Load(p)
      BY <2>6, <2>7, CarriedMore
    <3> QED
      BY <2>6, <2>7, <3>1
  <2>9. Carried(resp'[h]) = task'[h].at /\ task'[h].at <= task'[h].size
    BY <1>1, <1>3, <2>2, <2>5, <2>8 DEF SoFar
  <2>10. HasLength(h) => HasLength(h)'
    <3>1. resp'[h] = Append(resp[h], p)
      BY <2>6, <2>7, AppendIsConcat
    <3>2. /\ DOMAIN resp[h] = 1 .. Len(resp[h]) /\ DOMAIN resp'[h] = 1 .. Len(resp'[h])
          /\ Len(resp[h]) \in Nat /\ Len(resp'[h]) = Len(resp[h]) + 1
          /\ \A m \in 1 .. Len(resp[h]) : resp'[h][m] = resp[h][m]
      BY <2>6, <2>7, <3>1, AppendProperties, LenProperties
    <3> QED
      BY <2>2, <3>2 DEF HasLength
  <2> QED
    BY <2>3, <2>5, <2>9, <2>10 DEF SoFar
<1> QED
  BY <1>2, <1>4, <1>5

LEMMA LengthIsFourth ==
  ASSUME NEW k, NEW n \in Nat
  PROVE  /\ 4 \in DOMAIN (ok_head \o entity_headers(k, n))
         /\ (ok_head \o entity_headers(k, n))[4] = Part("length", n)
<1> DEFINE a == ok_head
           b == entity_headers(k, n)
           s == a \o b
<1>1. /\ a \in Seq(Parts) /\ b \in Seq(Parts)
      /\ Len(a) = 2 /\ Len(b) = 2 /\ b[2] = Part("length", n)
  <2>1. a \in Seq(Parts) /\ b \in Seq(Parts)
    BY HeadsAre
  <2> QED
    BY <2>1 DEF ok_head, send_general_headers, entity_headers
<1> HIDE DEF a, b
<1>2. /\ s \in Seq(Parts) /\ Len(s) = Len(a) + Len(b)
      /\ \A m \in 1 .. Len(a) + Len(b) : s[m] = IF m <= Len(a) THEN a[m] ELSE b[m - Len(a)]
  BY <1>1, ConcatProperties
<1> HIDE DEF s
<1>3. DOMAIN s = 1 .. Len(s)
  BY <1>2, LenProperties
<1>4. 4 \in DOMAIN s /\ s[4] = Part("length", n)
  BY <1>1, <1>2, <1>3
<1> QED
  BY <1>4 DEF s, a, b

LEMMA GraphicSent ==
  ASSUME Typed, NEW h \in Tasks, Written(h), SendGraphic(h)
  PROVE  Sends(h)'
<1> DEFINE n == task[h].size
<1>1. /\ TaskTypes /\ RespTypes /\ Begun(h) /\ UNCHANGED gone /\ n \in Announces
      /\ GoesTo(h, "chunk") /\ task[h].at = 0
      /\ IF Full(h) THEN Write(h, Headers(h, n)) ELSE UNCHANGED resp
  BY DEF Typed, Types4, SendGraphic, At, Written, clientVars, AllKnown, Known,
     Graphic, Images, Announces, Unanswered
<1> HIDE DEF n
<1>2. /\ task'[h].pc = "chunk" /\ task'[h].req = task[h].req
      /\ task'[h].client = task[h].client
      /\ task'[h].size = n /\ task'[h].at = 0
  BY <1>1, GoesToIs DEF Rest, n
<1>3. Full(h)' = Full(h) /\ Lost(h)' = Lost(h) /\ n \in Nat
  BY <1>1, <1>2, SameLost, AnnouncesAre
<1> SUFFICES ASSUME ~Lost(h) PROVE SoFar(h)'
  BY <1>2, <1>3 DEF Sends, Measures
<1>4. CASE ~Full(h)
  <2>1. Carried(resp'[h]) = 0
    BY <1>1, <1>4, CarriedNone DEF Begun
  <2> QED
    BY <1>2, <1>3, <1>4, <2>1 DEF SoFar
<1>5. CASE Full(h)
  <2> DEFINE k == task[h].kind
  <2>1. resp'[h] = ok_head \o entity_headers(k, n)
    BY <1>1, <1>5, WriteDoes DEF Begun, Headers
  <2> HIDE DEF k
  <2>2. Carried(resp'[h]) = 0
    BY <1>3, <2>1, HeadsCarryNone
  <2>3. 4 \in DOMAIN resp'[h] /\ resp'[h][4] = Part("length", n)
    BY <1>3, <2>1, LengthIsFourth
  <2>7. HasLength(h)'
    BY <1>2, <2>3 DEF HasLength
  <2> QED
    BY <1>2, <1>3, <2>2, <2>7 DEF SoFar
<1> QED
  BY <1>4, <1>5

(* No other step brings a thread to where an image is or has been sent.    *)
LEMMA NotSent ==
  ASSUME Typed, NEW h \in Tasks,
         \/ Start(h) \/ Receive(h) \/ LookUp(h) \/ SendHead(h) \/ Reply(h) \/ Open(h)
         \/ SendText(h) \/ Close(h)
  PROVE  Sends(h)'
<1>1. TaskTypes /\ task[h] \in Task /\ Known(task[h])
  BY DEF Typed, Types4, TaskTypes, AllKnown
<1>2. ASSUME NEW p, GoesTo(h, p)
      PROVE  /\ task'[h].pc = p /\ task'[h].kind = task[h].kind
             /\ task'[h].code = task[h].code
  BY <1>1, <1>2, GoesToIs DEF Rest
<1>3. ASSUME task'[h].pc \notin {"chunk", "close"} PROVE Sends(h)'
  BY <1>3 DEF Sends
<1>4. ASSUME task'[h].pc = "close", task'[h].code # 0 \/ ~Graphic(h)' PROVE Sends(h)'
  BY <1>4 DEF Sends, Measures
<1>5. ASSUME NEW t, DOMAIN t = DOMAIN task[h], NEW n, Fails(h, t, n) PROVE Sends(h)'
  <2>1. task'[h] = [t EXCEPT !.pc = "reply", !.code = n]
    BY <1>1, <1>5, GoesIs DEF Fails
  <2>2. task'[h].pc = "reply"
    BY <1>1, <1>5, <2>1 DEF Task
  <2> QED
    BY <1>3, <2>2
<1>6. CASE Start(h)
  <2>1. task'[h] = [task[h] EXCEPT !.pc = "recv", !.client = Passed(h)]
    BY <1>1, <1>6, GoesIs DEF Start
  <2>2. task'[h].pc = "recv"
    BY <1>1, <2>1 DEF Task
  <2> QED
    BY <1>3, <2>2
<1>7. CASE Receive(h)
  <2>1. PICK r, k : \/ Fails(h, Asked(h, r, k), 501)
                    \/ Goes(h, [Asked(h, r, k) EXCEPT !.pc = "look"])
    BY <1>7, Zenon DEF Receive
  <2>2. DOMAIN Asked(h, r, k) = DOMAIN task[h] /\ "pc" \in DOMAIN task[h]
    BY <1>1 DEF Asked, Task
  <2>3. CASE Goes(h, [Asked(h, r, k) EXCEPT !.pc = "look"])
    <3>1. task'[h] = [Asked(h, r, k) EXCEPT !.pc = "look"]
      BY <1>1, <2>3, GoesIs
    <3>2. task'[h].pc = "look"
      BY <2>2, <3>1
    <3> QED
      BY <1>3, <3>2
  <2> QED
    BY <1>5, <2>1, <2>2, <2>3
<1>8. CASE LookUp(h)
  <2>1. Fails(h, task[h], 404) \/ GoesTo(h, "head") \/ GoesTo(h, "open")
    BY <1>8, Zenon DEF LookUp
  <2> QED
    BY <1>2, <1>3, <1>5, <2>1
<1>9. CASE SendHead(h) \/ Close(h)
  <2>1. GoesTo(h, "open") \/ GoesTo(h, "done")
    BY <1>9 DEF SendHead, Close
  <2> QED
    BY <1>2, <1>3, <2>1
<1>10. CASE Reply(h)
  <2>1. GoesTo(h, "close") /\ task[h].code # 0
    BY <1>1, <1>10 DEF Reply, At, Known, AfterReply
  <2> QED
    BY <1>2, <1>4, <2>1
<1>11. CASE Open(h)
  <2>1. PICK s : \/ Fails(h, task[h], 500) \/ Fails(h, Opens(h, s), 500)
                 \/ Goes(h, [Opens(h, s) EXCEPT !.pc = "entity"])
    BY <1>11, Zenon DEF Open
  <2>2. DOMAIN Opens(h, s) = DOMAIN task[h] /\ "pc" \in DOMAIN task[h]
    BY <1>1 DEF Opens, Task
  <2>3. CASE Goes(h, [Opens(h, s) EXCEPT !.pc = "entity"])
    <3>1. task'[h] = [Opens(h, s) EXCEPT !.pc = "entity"]
      BY <1>1, <2>3, GoesIs
    <3>2. task'[h].pc = "entity"
      BY <2>2, <3>1
    <3> QED
      BY <1>3, <3>2
  <2> QED
    BY <1>5, <2>1, <2>2, <2>3
<1>12. CASE SendText(h)
  <2>1. ~Graphic(h) /\ (Fails(h, task[h], 500) \/ GoesTo(h, "close"))
    BY <1>12, Zenon DEF SendText
  <2>2. CASE GoesTo(h, "close")
    <3>1. ~Graphic(h)'
      BY <1>2, <2>1, <2>2 DEF Graphic
    <3> QED
      BY <1>2, <1>4, <2>2, <3>1
  <2> QED
    BY <1>5, <2>1, <2>2
<1> QED
  BY <1>6, <1>7, <1>8, <1>9, <1>10, <1>11, <1>12

LEMMA RequestSent ==
  ASSUME Typed, AllWritten, AllSent, NEW h \in Tasks, handle_request(h)
  PROVE  AllSent'
<1>1. Sends(h) /\ (up => Written(h)) /\ UNCHANGED touched
  BY DEF AllSent, AllWritten, handle_request, Start, Receive, LookUp, SendHead, Reply, Open,
     SendText, SendGraphic, SendChunk, Close, diskVars
<1>2. ASSUME SendGraphic(h) PROVE Sends(h)'
  <2>1. up
    BY <1>2 DEF SendGraphic, At
  <2> QED
    BY <1>1, <1>2, <2>1, GraphicSent
<1>3. Sends(h)'
  BY <1>1, <1>2, ChunkSent, NotSent DEF handle_request
<1>4. TaskTypes /\ \E t : Goes(h, t)
  BY RequestDoes DEF Typed, Types4
<1>5. ASSUME NEW g \in Tasks \ {h}
      PROVE  Sends(g)'
  <2>1. task'[g] = task[g]
    BY <1>4, GoesIs
  <2>2. resp'[g] = resp[g] /\ (Lost(g) => Lost(g)')
    BY OthersAlike DEF Alike
  <2> QED
    BY <1>1, <2>1, <2>2, SendsAlike DEF AllSent
<1> QED
  BY <1>3, <1>5 DEF AllSent

LEMMA AllSentKept ==
  ASSUME Typed, AllWritten, AllSent, [Next]_vars
  PROVE  AllSent'
<1>1. ASSUME ProcessEnds PROVE AllSent'
  BY <1>1 DEF ProcessEnds, AllSent, Sends, NewTask
<1>2. ASSUME NEW c, LoopOn, Create(c) PROVE AllSent'
  <2>1. TaskTypes /\ num_connections + 1 \in Tasks
    BY <1>2, WebServerAssumption DEF Typed, Types4, TaskTypes, LoopOn, Tasks
  <2> PICK h \in Tasks : h = num_connections + 1
    BY <2>1
  <2>2. PICK p \in {"start", "unborn"} : Goes(h, [NewTask EXCEPT !.arg = c, !.pc = p])
    BY <1>2 DEF Create
  <2>3. /\ task'[h] = [NewTask EXCEPT !.arg = c, !.pc = p]
        /\ \A g \in Tasks \ {h} : task'[g] = task[g]
    BY <2>1, <2>2, GoesIs
  <2>4. UNCHANGED <<resp, gone, touched>>
    BY <1>2 DEF Create, clientVars, diskVars
  <2>5. Sends(h)'
    BY <2>3 DEF Sends, NewTask
  <2>6. ASSUME NEW g \in Tasks \ {h}
        PROVE  Sends(g)'
    BY <2>3, <2>4, SendsAlike DEF AllSent, Lost
  <2> QED
    BY <2>5, <2>6 DEF AllSent
<1>3. CASE Main
  BY <1>1, <1>2, <1>3, Zenon DEF Main, Accept, AcceptFails, MainReturns
<1>4. ASSUME NEW h \in Tasks, handle_request(h) \/ BrokenPipe(h)
      PROVE  AllSent'
  BY <1>1, <1>4, RequestSent DEF BrokenPipe
<1>5. ASSUME UNCHANGED <<task, resp>>, gone \subseteq gone', touched \subseteq touched'
      PROVE  AllSent'
  BY <1>5, SendsAlike DEF AllSent, Lost
<1>6. ASSUME NEW p \in Paths, NEW s \in Content, FileRewritten(p, s)
      PROVE  AllSent'
  <2>1. /\ UNCHANGED <<resp, gone>> /\ touched' = touched \cup Serving(p)
        /\ \A g \in Tasks \ Serving(p) : task'[g] = task[g]
    BY <1>6 DEF FileRewritten, clientVars
  <2>2. ASSUME NEW g \in Tasks, g \in Serving(p)
        PROVE  Sends(g)'
    BY <2>1, <2>2 DEF Sends, Measures
  <2>3. ASSUME NEW g \in Tasks, g \notin Serving(p)
        PROVE  Sends(g)'
    BY <2>1, <2>3, SendsAlike DEF AllSent, Lost
  <2> QED
    BY <2>2, <2>3 DEF AllSent
<1>7. CASE Files
  BY <1>5, <1>6, <1>7 DEF Files, FileReplaced, clientVars
<1>8. ASSUME NEW c \in Clients, Client(c)
      PROVE  AllSent'
  BY <1>5, <1>8 DEF Client, Connect, Ask, HangUp, Stall, ReadOn, clientVars, diskVars
<1>9. CASE UNCHANGED vars
  BY <1>5, <1>9 DEF vars, clientVars, diskVars
<1> QED
  BY <1>3, <1>4, <1>7, <1>8, <1>9 DEF Next

LEMMA AllSentStarts == Init => AllSent
  BY DEF Init, AllSent, Sends, NewTask

(* A graphics file that nobody changes meanwhile is sent whole and with    *)
(* its length, however large it and the buffer are (send_graphics_file).   *)
THEOREM ImagesAreWhole == Spec => []GraphicsWhole
<1>1. Spec => [](Typed /\ AllWritten /\ AllSent)
  BY TypedStarts, TypedKept, AllWrittenStarts, AllWrittenKept, AllSentStarts, AllSentKept,
     PTL DEF Spec
<1> QED
  BY <1>1, SentIsEnough, PTL

-----------------------------------------------------------------------------
(* What each thread was given, and has read.  A connection is accepted     *)
(* once, so that no two rounds of the loop give away the same.             *)
Holds(h) ==
  /\ task[h].client \in {NoClient, task[h].arg}
  /\ task[h].arg # NoClient =>
       h <= num_connections /\ conn[task[h].arg] \in {"open", "closed"}

Given ==
  /\ \A h \in Tasks : Holds(h)
  /\ \A g, h \in Tasks :
       task[g].arg = task[h].arg /\ task[h].arg # NoClient => g = h

LEMMA GivenIsEnough == Given => OneThreadEach
  BY DEF Given, Holds, OneThreadEach

LEMMA GivenStarts == Init => Given
  BY WebServerAssumption DEF Init, Given, Holds, NewTask

(* What leaves descriptors and what the threads know of them alone.        *)
Takes(h) == task'[h].arg = task[h].arg /\ task'[h].client \in {task[h].client, task[h].arg}

Apart ==
  /\ UNCHANGED num_connections /\ \A h \in Tasks : Takes(h)
  /\ \A c \in Clients :
       conn[c] \in {"open", "closed"} => conn'[c] \in {"open", "closed"}

LEMMA ApartKeeps ==
  ASSUME Typed, Given, Apart
  PROVE  Given'
<1>1. \A h \in Tasks : task[h].arg \in Clients \cup {NoClient}
  BY DEF Typed, Types4, TaskTypes, Task
<1>2. ASSUME NEW h \in Tasks
      PROVE  Holds(h)'
  BY <1>1 DEF Given, Holds, Apart, Takes
<1> QED
  BY <1>2 DEF Given, Apart, Takes

(* With the process its threads and connections end.                       *)
LEMMA EndKeeps ==
  ASSUME ProcessEnds
  PROVE  Given'
  BY DEF ProcessEnds, Given, Holds, NewTask

(* A round of the accept loop gives the next thread a connection that was  *)
(* not accepted before, or none.                                           *)
LEMMA CreateKeeps ==
  ASSUME Typed, Given, LoopOn, NEW c \in Clients \cup {NoClient}, Create(c),
         \A d \in Clients : conn'[d] = IF d = c THEN "open" ELSE conn[d],
         c \in Clients => conn[c] = "queued"
  PROVE  Given'
<1>0. /\ num_connections \in Nat /\ task \in [Tasks -> Task]
      /\ \A g \in Tasks : task[g].arg \in Clients \cup {NoClient}
      /\ num_connections + 1 \in Tasks
  BY WebServerAssumption DEF Typed, Types4, TaskTypes, LoopOn, Tasks, Task
<1>1. PICK h \in Tasks : h = num_connections + 1
  BY <1>0
<1>2. PICK p \in {"start", "unborn"} : Goes(h, [NewTask EXCEPT !.arg = c, !.pc = p])
  BY <1>1 DEF Create
<1>3. task' = [task EXCEPT ![h] = [NewTask EXCEPT !.arg = c, !.pc = p]]
  BY <1>2 DEF Goes
<1>4. task'[h].arg = c /\ task'[h].client = NoClient
  BY <1>0, <1>3 DEF NewTask
<1>5. num_connections' = h /\ \A g \in Tasks \ {h} : task'[g] = task[g]
  BY <1>0, <1>1, <1>3 DEF Create
<1>6. \A g \in Tasks \ {h} : task[g].arg # c \/ c = NoClient
  BY <1>0 DEF Given, Holds
<1>7. Holds(h)'
  BY <1>0, <1>1, <1>4, <1>5 DEF Holds
<1>8. ASSUME NEW g \in Tasks, g # h
      PROVE  Holds(g)'
  <2>1. task'[g] = task[g] /\ Holds(g) /\ g \in Nat
    BY <1>5, <1>8 DEF Given, Tasks
  <2>2. task[g].arg # NoClient => g <= num_connections'
    BY <1>0, <1>1, <1>5, <2>1 DEF Holds
  <2>3. task[g].arg # NoClient => conn'[task[g].arg] \in {"open", "closed"}
    BY <1>0, <2>1 DEF Holds
  <2> QED
    BY <2>1, <2>2, <2>3 DEF Holds
<1>9. ASSUME NEW f \in Tasks, NEW g \in Tasks,
             task'[f].arg = task'[g].arg, task'[g].arg # NoClient
      PROVE  f = g
  <2>1. CASE f = h \/ g = h
    BY <1>4, <1>5, <1>6, <1>9, <2>1
  <2>2. CASE f # h /\ g # h
    BY <1>5, <1>9, <2>2 DEF Given
  <2> QED
    BY <2>1, <2>2
<1>10. \A g \in Tasks : Holds(g)'
  BY <1>7, <1>8
<1> QED
  BY <1>9, <1>10 DEF Given

(* main.                                                                   *)
LEMMA MainKeeps ==
  ASSUME Typed, Given, Main
  PROVE  Given'
<1>1. conn \in [Clients -> {"none", "queued", "open", "closed"}]
  BY DEF Typed, Types4, ConnTypes
<1>2. ASSUME NEW c \in Clients, Accept(c)
      PROVE  Given'
  <2>1. conn[c] = "queued" /\ \A d \in Clients : conn'[d] = IF d = c THEN "open" ELSE conn[d]
    BY <1>1, <1>2 DEF Accept
  <2> QED
    BY <1>2, <2>1, CreateKeeps DEF Accept
<1>3. CASE AcceptFails
  <2>1. \A d \in Clients : conn'[d] = IF d = NoClient THEN "open" ELSE conn[d]
    BY <1>3, WebServerAssumption DEF AcceptFails
  <2>2. Create(NoClient) /\ LoopOn
    BY <1>3 DEF AcceptFails
  <2> QED
    BY <2>1, <2>2, CreateKeeps, WebServerAssumption
<1>4. CASE MainReturns
  BY <1>4, EndKeeps DEF MainReturns
<1> QED
  BY <1>2, <1>3, <1>4 DEF Main

(* handle_request: only the first step of a thread takes what it was       *)
(* given.                                                                  *)
LEMMA RequestTakes ==
  ASSUME Typed, NEW h \in Tasks, handle_request(h)
  PROVE  Takes(h)
<1>1. TaskTypes /\ task[h] \in Task
  BY DEF Typed, Types4, TaskTypes
<1> DEFINE Kept(t) == DOMAIN t = DOMAIN task[h] /\ t.arg = task[h].arg
                      /\ t.client = task[h].client
<1>2. ASSUME NEW t, Kept(t), NEW n, Fails(h, t, n) PROVE Takes(h)
  <2>1. task'[h] = [t EXCEPT !.pc = "reply", !.code = n]
    BY <1>1, <1>2, GoesIs DEF Fails
  <2> QED
    BY <1>1, <1>2, <2>1 DEF Task, Takes
<1>3. ASSUME NEW t, Kept(t), NEW p, Goes(h, [t EXCEPT !.pc = p]) PROVE Takes(h)
  <2>1. task'[h] = [t EXCEPT !.pc = p]
    BY <1>1, <1>3, GoesIs
  <2> QED
    BY <1>1, <1>3, <2>1 DEF Task, Takes
<1>4. ASSUME NEW p, GoesTo(h, p) PROVE Takes(h)
  BY <1>3, <1>4 DEF GoesTo
<1>5. ASSUME NEW s PROVE Kept(Opens(h, s))
  BY <1>1 DEF Opens, Task
<1>6. ASSUME NEW r, NEW k PROVE Kept(Asked(h, r, k))
  BY <1>1 DEF Asked, Task
<1>7. Kept(task[h])
  OBVIOUS
<1> HIDE DEF Kept
<1>8. CASE Start(h)
  <2>1. task'[h] = [task[h] EXCEPT !.pc = "recv", !.client = task[h].arg]
    BY <1>1, <1>8, GoesIs DEF Start, Passed
  <2> QED
    BY <1>1, <2>1 DEF Task, Takes
<1>9. CASE Receive(h)
  <2>1. PICK r, k : \/ Fails(h, Asked(h, r, k), 501)
                    \/ Goes(h, [Asked(h, r, k) EXCEPT !.pc = "look"])
    BY <1>9, Zenon DEF Receive
  <2> QED
    BY <1>2, <1>3, <1>6, <2>1
<1>10. CASE Open(h)
  <2>1. PICK s : \/ Fails(h, task[h], 500) \/ Fails(h, Opens(h, s), 500)
                 \/ Goes(h, [Opens(h, s) EXCEPT !.pc = "entity"])
    BY <1>10, Zenon DEF Open
  <2> QED
    BY <1>2, <1>3, <1>5, <1>7, <2>1
<1>11. CASE SendChunk(h)
  <2>1. PICK n : \/ GoesTo(h, "close")
                 \/ Goes(h, [task[h] EXCEPT !.at = task[h].at + n, !.pc = AfterChunk])
    BY <1>11, Zenon DEF SendChunk
  <2>2. CASE Goes(h, [task[h] EXCEPT !.at = task[h].at + n, !.pc = AfterChunk])
    <3>1. task'[h] = [task[h] EXCEPT !.at = task[h].at + n, !.pc = AfterChunk]
      BY <1>1, <2>2, GoesIs
    <3> QED
      BY <1>1, <3>1 DEF Task, Takes
  <2> QED
    BY <1>4, <2>1, <2>2
<1>12. CASE LookUp(h) \/ SendHead(h) \/ Reply(h) \/ SendText(h) \/ SendGraphic(h) \/ Close(h)
  <2>1. (\E n : Fails(h, task[h], n)) \/ (\E p : GoesTo(h, p))
    BY <1>12, Zenon DEF LookUp, SendHead, Reply, SendText, SendGraphic, Close
  <2> QED
    BY <1>2, <1>4, <1>7, <2>1
<1> QED
  BY <1>8, <1>9, <1>10, <1>11, <1>12 DEF handle_request

LEMMA RequestApart ==
  ASSUME Typed, NEW h \in Tasks, handle_request(h)
  PROVE  Apart
<1>1. /\ TaskTypes /\ UNCHANGED num_connections
      /\ conn \in [Clients -> {"none", "queued", "open", "closed"}]
  BY NothingAccepted DEF Typed, Types4, ConnTypes
<1>2. UNCHANGED conn \/ CloseClient(task[h].client)
  BY DEF handle_request, Start, Receive, LookUp, SendHead, Reply, Open,
     SendText, SendGraphic, SendChunk, Close
<1>3. \A c \in Clients : conn[c] \in {"open", "closed"} => conn'[c] \in {"open", "closed"}
  BY <1>1, <1>2 DEF CloseClient
<1>4. \E t : Goes(h, t)
  BY RequestDoes
<1>5. \A g \in Tasks \ {h} : Takes(g)
  BY <1>1, <1>4, GoesIs DEF Takes
<1>6. Takes(h)
  BY RequestTakes
<1> QED
  BY <1>1, <1>3, <1>5, <1>6 DEF Apart

(* Clients and files.                                                      *)
LEMMA ClientApart ==
  ASSUME Typed, NEW c \in Clients, Client(c)
  PROVE  Apart
<1>1. conn \in [Clients -> {"none", "queued", "open", "closed"}]
  BY DEF Typed, Types4, ConnTypes
<1> QED
  BY <1>1 DEF Apart, Takes, Client, Connect, Ask, HangUp, Stall, ReadOn, Connected, mainVars

LEMMA FilesApart ==
  ASSUME Typed, Files
  PROVE  Apart
<1>1. TaskTypes
  BY DEF Typed, Types4
<1>2. UNCHANGED <<mainVars, conn>>
  BY DEF Files, FileReplaced, FileRewritten
<1>3. ASSUME NEW h \in Tasks
      PROVE  Takes(h)
  <2>1. \/ task'[h] = task[h]
        \/ \E s : task'[h] = [task[h] EXCEPT !.size = s]
    BY DEF Files, FileReplaced, FileRewritten
  <2> QED
    BY <1>1, <2>1 DEF TaskTypes, Task, Takes
<1> QED
  BY <1>2, <1>3 DEF Apart, mainVars

LEMMA GivenKept ==
  ASSUME Typed, Given, [Next]_vars
  PROVE  Given'
<1>1. ASSUME NEW h \in Tasks, handle_request(h) \/ BrokenPipe(h)
      PROVE  Given'
  BY <1>1, RequestApart, ApartKeeps, EndKeeps DEF BrokenPipe
<1>2. ASSUME NEW c \in Clients, Client(c)
      PROVE  Given'
  BY <1>2, ClientApart, ApartKeeps
<1>3. CASE Files
  BY <1>3, FilesApart, ApartKeeps
<1>4. CASE UNCHANGED vars
  <2>1. Apart
    BY <1>4 DEF Apart, Takes, vars, mainVars
  <2> QED
    BY <2>1, ApartKeeps
<1> QED
  BY <1>1, <1>2, <1>3, <1>4, MainKeeps DEF Next

(* No two threads answer the same connection, whatever main has gone on to *)
(* before they start (main, handle_request).                               *)
THEOREM OneThreadForEach == Spec => []OneThreadEach
<1>1. Spec => [](Typed /\ Given)
  BY TypedStarts, TypedKept, GivenStarts, GivenKept, PTL DEF Spec
<1> QED
  BY <1>1, GivenIsEnough, PTL

-----------------------------------------------------------------------------
(* The loop of populate_config is inside the file.                         *)
Reading ==
  /\ strings \in Config!Files /\ j \in 0 .. Len(strings)
  /\ DOMAIN config = Config!Keywords

(* A file is a sequence of words (the array strings of populate_config).   *)
LEMMA FilesAreSequences ==
  ASSUME Config!WebConfigAssumption, NEW s \in Config!Files
  PROVE  Len(s) \in Nat /\ DOMAIN s = 1 .. Len(s)
<1>1. PICK n \in 0 .. MaxWords : s \in [1 .. n -> Words \cup Config!Keywords]
  BY DEF Config!Files
<1>2. n \in Nat
  BY <1>1 DEF Config!WebConfigAssumption
<1> QED
  BY <1>1, <1>2, SMT

(* Taking one word more keeps the loop of populate_config in the file.     *)
LEMMA ReadingKept ==
  ASSUME Config!WebConfigAssumption, Reading, [Config!Next]_(Config!vars)
  PROVE  Reading'
<1>1. CASE Config!TakeWord
  BY <1>1, FilesAreSequences DEF Reading, Config!TakeWord
<1>2. CASE UNCHANGED Config!vars
  BY <1>2 DEF Reading, Config!vars
<1> QED
  BY <1>1, <1>2 DEF Config!Next

(* The word that populate_config takes next is the last place so far of    *)
(* its own keyword, and changes no place of another one.                   *)
LEMMA PlacesKept ==
  ASSUME Config!WebConfigAssumption, Reading, Config!TakeWord, NEW k \in Config!Keywords
  PROVE  /\ strings[j'] # k => Config!Places(k)' = Config!Places(k)
         /\ strings[j'] = k => Config!Places(k)' # {} /\ Config!LastPlace(k)' = j'
<1>1. /\ Len(strings) \in Nat /\ j \in Nat /\ j' = j + 1 /\ j' <= Len(strings)
      /\ strings' = strings
  BY FilesAreSequences DEF Reading, Config!TakeWord
<1>2. 1 .. j' = (1 .. j) \cup {j'}
  BY <1>1
<1>3. Config!Places(k)' = {n \in 1 .. j' : strings[n] = k}
  BY <1>1 DEF Config!Places
<1>4. ASSUME strings[j'] # k
      PROVE  Config!Places(k)' = Config!Places(k)
  BY <1>2, <1>3, <1>4 DEF Config!Places
<1>5. ASSUME strings[j'] = k
      PROVE  Config!Places(k)' # {} /\ Config!LastPlace(k)' = j'
  <2>1. j' \in Config!Places(k)' /\ \A o \in Config!Places(k)' : o <= j' /\ o \in Nat
    BY <1>1, <1>3, <1>5
  <2>2. \A n \in Config!Places(k)' : (\A o \in Config!Places(k)' : o <= n) => n = j'
    BY <1>1, <2>1
  <2>3. Config!LastPlace(k)' = CHOOSE n \in Config!Places(k)' : \A o \in Config!Places(k)' : o <= n
    BY DEF Config!LastPlace
  <2> QED
    BY <2>1, <2>2, <2>3
<1> QED
  BY <1>4, <1>5

(* Whatever populate_config has read, each setting is the word behind the  *)
(* last place of its keyword.                                              *)
LEMMA LastIsTakenKept ==
  ASSUME Config!WebConfigAssumption, Reading, Config!LastIsTaken, [Config!Next]_(Config!vars)
  PROVE  Config!LastIsTaken'
<1>1. CASE Config!TakeWord
  <2> SUFFICES ASSUME NEW k \in Config!Keywords
               PROVE  config'[k] = IF Config!Places(k)' = {} THEN Config!Zero ELSE
                        IF Config!LastPlace(k)' = Len(strings') THEN Config!Unset
                          ELSE strings'[Config!LastPlace(k)' + 1]
    BY DEF Config!LastIsTaken
  <2>1. /\ Len(strings) \in Nat /\ j \in Nat /\ j' = j + 1 /\ j' <= Len(strings)
        /\ DOMAIN config = Config!Keywords /\ strings' = strings
    BY <1>1, FilesAreSequences DEF Reading, Config!TakeWord
  <2>2. CASE strings[j'] = k
    <3>1. config'[k] = Config!Behind(j')
      BY <1>1, <2>1, <2>2 DEF Config!TakeWord
    <3>2. Config!Places(k)' # {} /\ Config!LastPlace(k)' = j'
      BY <1>1, <2>2, PlacesKept
    <3>3. config'[k] = IF j' = Len(strings') THEN Config!Unset ELSE strings'[j' + 1]
      BY <2>1, <3>1 DEF Config!Behind
    <3> QED
      BY <3>2, <3>3, Zenon
  <2>3. CASE strings[j'] # k
    <3>1. config'[k] = config[k]
      BY <1>1, <2>1, <2>3 DEF Config!TakeWord
    <3>2. Config!Places(k)' = Config!Places(k)
      BY <1>1, <2>3, PlacesKept
    <3>3. Config!LastPlace(k)' = Config!LastPlace(k)
      BY <3>2 DEF Config!LastPlace
    <3> QED
      BY <2>1, <3>1, <3>2, <3>3 DEF Config!LastIsTaken
  <2> QED
    BY <2>2, <2>3, Zenon
<1>2. CASE UNCHANGED Config!vars
  <2>1. strings' = strings /\ j' = j /\ config' = config
    BY <1>2 DEF Config!vars
  <2>2. \A k \in Config!Keywords : Config!Places(k)' = Config!Places(k) /\ Config!LastPlace(k)' = Config!LastPlace(k)
    BY <2>1 DEF Config!Places, Config!LastPlace
  <2> QED
    BY <2>1, <2>2 DEF Config!LastIsTaken
<1> QED
  BY <1>1, <1>2 DEF Config!Next

(* populate_config takes what follows a keyword for the last time, however *)
(* long the file is and whatever words it has.                             *)
THEOREM LastTaken ==
  ASSUME Config!WebConfigAssumption
  PROVE  Config!Spec => []Config!LastIsTaken
<1>1. Config!Init => Reading /\ Config!LastIsTaken
  <2> SUFFICES ASSUME Config!Init PROVE Reading /\ Config!LastIsTaken
    OBVIOUS
  <2>1. Reading
    BY FilesAreSequences DEF Config!Init, Reading
  <2>2. \A k \in Config!Keywords : Config!Places(k) = {} /\ config[k] = Config!Zero
    BY DEF Config!Init, Config!Places
  <2> QED
    BY <2>1, <2>2, Zenon DEF Config!LastIsTaken
<1>2. Reading /\ Config!LastIsTaken /\ [Config!Next]_(Config!vars) => (Reading /\ Config!LastIsTaken)'
  BY ReadingKept, LastIsTakenKept
<1> QED
  BY <1>1, <1>2, PTL DEF Config!Spec

-----------------------------------------------------------------------------
(* The loop of file_type: once it is behind a dot it copies what follows.  *)
Letters == Chars \cup {Names!Slash, Names!Dot, "x", "h", "t", "m"}

Dotted == \E n \in 1 .. i : rel_path[n] = Names!Dot
CopiesFrom(d) ==
  rel_path[d] = Names!Dot /\ ending = SubSeq(rel_path, d + 1, i) /\ i - d <= 3

Scanned ==
  /\ rel_path \in Seq(Letters) /\ i \in 0 .. Len(rel_path) /\ copy \in BOOLEAN
  /\ copy <=> Dotted
  /\ ~copy => ending = <<>>
  /\ copy => \E d \in 1 .. i : CopiesFrom(d)
  /\ kind # "none" => i = Len(rel_path) \/ Names!Enough

LEMMA PathsAreSequences ==
  ASSUME Names!Init
  PROVE  rel_path \in Seq(Letters)
<1>1. Names!Root \in Seq(Letters) /\ Names!Index \in Seq(Letters)
  BY DEF Names!Root, Names!Index, Letters
<1>2. ASSUME NEW p \in Names!Named
      PROVE  p \in Seq(Letters)
  <2>1. PICK t \in UNION {[1 .. n -> Chars] : n \in 0 .. MaxLen} : p = <<Names!Slash>> \o t
    BY DEF Names!Named
  <2>2. PICK n \in 0 .. MaxLen : t \in [1 .. n -> Chars]
    OBVIOUS
  <2>3. n \in Nat
    BY PartsAssumption DEF Names!WebNamesAssumption
  <2>4. t \in Seq(Letters)
    BY <2>2, <2>3, SeqDef DEF Letters
  <2>5. <<Names!Slash>> \in Seq(Letters)
    BY DEF Letters
  <2> QED
    BY <2>1, <2>4, <2>5, ConcatProperties
<1>3. Names!Root \o Names!Index \in Seq(Letters)
  BY <1>1, ConcatProperties
<1>4. PICK p \in Names!Named : rel_path = IF p = Names!Root THEN Names!Root \o Names!Index ELSE p
  BY DEF Names!Init
<1> QED
  BY <1>2, <1>3, <1>4, Zenon

LEMMA ScannedStarts == Names!Init => Scanned
<1> SUFFICES ASSUME Names!Init PROVE Scanned
  OBVIOUS
<1>1. rel_path \in Seq(Letters) /\ Len(rel_path) \in Nat
  BY PathsAreSequences
<1>2. i = 0 /\ copy = FALSE /\ ending = <<>> /\ kind = "none"
  BY DEF Names!Init
<1>3. ~copy /\ copy \in BOOLEAN
  BY <1>2, Zenon
<1>4. i \in 0 .. Len(rel_path) /\ ~Dotted
  BY <1>1, <1>2 DEF Dotted
<1> QED
  BY <1>1, <1>2, <1>3, <1>4 DEF Scanned

LEMMA ScannedKept ==
  ASSUME Scanned, [Names!Next]_(Names!vars)
  PROVE  Scanned'
<1>1. rel_path \in Seq(Letters) /\ Len(rel_path) \in Nat /\ i \in 0 .. Len(rel_path)
  BY DEF Scanned
<1>2. CASE Names!Step
  <2>1. /\ i < Len(rel_path) /\ i' = i + 1 /\ rel_path' = rel_path
        /\ kind = "none" /\ kind' = "none"
        /\ copy' <=> (copy \/ rel_path[i + 1] = Names!Dot)
        /\ copy' \in BOOLEAN
        /\ ending' = IF copy THEN Append(ending, rel_path[i + 1]) ELSE ending
        /\ ~(copy /\ Len(ending) >= 3)
    BY <1>2 DEF Names!Step, Names!Enough
  <2>2. copy' <=> Dotted'
    <3>1. 1 .. i' = (1 .. i) \cup {i + 1}
      BY <1>1, <2>1
    <3>2. copy <=> \E n \in 1 .. i : rel_path[n] = Names!Dot
      BY DEF Scanned, Dotted
    <3> QED
      BY <2>1, <3>1, <3>2 DEF Dotted
  <2>3. CASE copy
    <3>1. PICK d \in 1 .. i : /\ rel_path[d] = Names!Dot /\ i - d <= 3
                              /\ ending = SubSeq(rel_path, d + 1, i)
      BY <2>3 DEF Scanned, CopiesFrom
    <3>2. d \in Nat /\ d + 1 \in 1 .. i + 1 /\ i \in Nat
      BY <1>1
    <3>3. Len(ending) = i - d
      <4>1. \A n \in d + 1 .. i : rel_path[n] \in Letters
        BY <1>1, <3>2
      <4> QED
        BY <1>1, <3>1, <3>2, <4>1, SubSeqProperties
    <3>4. ending' = SubSeq(rel_path, d + 1, i + 1)
      <4>1. d + 1 \in 1 .. Len(rel_path) /\ i + 1 \in d + 1 .. Len(rel_path)
        BY <1>1, <2>1, <3>2
      <4>2. SubSeq(rel_path, d + 1, i + 1)
              = SubSeq(rel_path, d + 1, (i + 1) - 1) \o <<rel_path[i + 1]>>
        BY <1>1, <4>1, SubSeqRecursiveSecond
      <4>3. (i + 1) - 1 = i
        BY <3>2
      <4>4. ending \in Seq(Letters) /\ rel_path[i + 1] \in Letters
        <5>1. \A n \in d + 1 .. i : rel_path[n] \in Letters
          BY <1>1, <3>2
        <5> QED
          BY <1>1, <2>1, <3>1, <3>2, <5>1, SubSeqProperties
      <4>5. Append(ending, rel_path[i + 1]) = ending \o <<rel_path[i + 1]>>
        BY <4>4, AppendIsConcat
      <4> QED
        BY <2>1, <2>3, <3>1, <4>2, <4>3, <4>5
    <3>5. i - d <= 2
      BY <1>1, <2>1, <2>3, <3>2, <3>3
    <3>6. d \in 1 .. i' /\ i' - d <= 3
      BY <1>1, <2>1, <3>2, <3>5
    <3>7. CopiesFrom(d)'
      BY <2>1, <3>1, <3>4, <3>6 DEF CopiesFrom
    <3> QED
      BY <1>1, <2>1, <2>2, <2>3, <3>6, <3>7 DEF Scanned
  <2>4. CASE ~copy /\ rel_path[i + 1] = Names!Dot
    <3>1. ending = <<>> /\ ending' = <<>>
      BY <2>1, <2>4 DEF Scanned
    <3>2. SubSeq(rel_path, i' + 1, i') = <<>>
      BY <1>1, <2>1, SubSeqEmpty
    <3>3. i' \in 1 .. i' /\ i' - i' <= 3 /\ rel_path'[i'] = Names!Dot
      BY <1>1, <2>1, <2>4
    <3>4. PICK d \in 1 .. i' : d = i'
      BY <3>3
    <3>5. CopiesFrom(d)'
      BY <2>1, <3>1, <3>2, <3>3, <3>4 DEF CopiesFrom
    <3> QED
      BY <1>1, <2>1, <2>2, <2>4, <3>1, <3>5 DEF Scanned
  <2>5. CASE ~copy /\ rel_path[i + 1] # Names!Dot
    BY <1>1, <2>1, <2>2, <2>5 DEF Scanned
  <2> QED
    BY <2>3, <2>4, <2>5
<1>3. CASE Names!Compare
  <2>1. UNCHANGED <<rel_path, i, copy, ending>> /\ (i = Len(rel_path) \/ Names!Enough)
    BY <1>3 DEF Names!Compare
  <2> QED
    BY <2>1 DEF Scanned, Dotted, CopiesFrom, Names!Enough
<1>4. CASE UNCHANGED Names!vars
  BY <1>4 DEF Names!vars, Scanned, Dotted, CopiesFrom, Names!Enough
<1> QED
  BY <1>2, <1>3, <1>4 DEF Names!Next

(* Behind the only dot the loop has copied the three characters.           *)
LEMMA EndingIsThree ==
  ASSUME Scanned, kind # "none", NEW d \in DOMAIN rel_path, Names!Dots = {d},
         Len(rel_path) >= d + 3
  PROVE  ending = SubSeq(rel_path, d + 1, d + 3) /\ Len(ending) = 3
<1>1. /\ rel_path \in Seq(Letters) /\ Len(rel_path) \in Nat /\ i \in 0 .. Len(rel_path)
      /\ d \in 1 .. Len(rel_path) /\ rel_path[d] = Names!Dot
  BY DEF Scanned, Names!Dots
<1>2. ASSUME copy
      PROVE  /\ d \in 1 .. i /\ ending = SubSeq(rel_path, d + 1, i)
             /\ i - d <= 3 /\ Len(ending) = i - d
  <2>1. PICK c \in 1 .. i : /\ rel_path[c] = Names!Dot /\ i - c <= 3
                            /\ ending = SubSeq(rel_path, c + 1, i)
    BY <1>2 DEF Scanned, CopiesFrom
  <2>2. c \in DOMAIN rel_path
    BY <1>1
  <2>3. c = d
    BY <2>1, <2>2 DEF Names!Dots
  <2>4. d + 1 \in 1 .. i + 1
    BY <1>1, <2>3
  <2>5. Len(ending) = i - d
    <3>1. \A n \in d + 1 .. i : rel_path[n] \in Letters
      BY <1>1
    <3>2. ending = SubSeq(rel_path, d + 1, i) /\ d + 1 \in Int /\ i \in Int
      BY <1>1, <2>1, <2>3
    <3>3. Len(ending) = IF d + 1 <= i THEN i - (d + 1) + 1 ELSE 0
      BY <3>1, <3>2, SubSeqProperties
    <3> QED
      BY <1>1, <2>4, <3>3
  <2> QED
    BY <2>1, <2>3, <2>5
<1>3. copy
  <2>1. CASE i = Len(rel_path)
    BY <1>1, <2>1 DEF Scanned, Dotted
  <2> QED
    BY <2>1 DEF Scanned, Names!Enough
<1>4. i - d >= 3
  <2>1. CASE i = Len(rel_path)
    BY <1>1, <2>1
  <2>2. CASE Names!Enough
    BY <1>2, <1>3, <2>2 DEF Names!Enough
  <2> QED
    BY <2>1, <2>2 DEF Scanned
<1>5. i = d + 3
  BY <1>1, <1>2, <1>3, <1>4
<1>6. ending = SubSeq(rel_path, d + 1, i) /\ Len(ending) = i - d
  BY <1>2, <1>3
<1>7. i - d = 3
  BY <1>1, <1>5
<1> QED
  BY <1>5, <1>6, <1>7

LEMMA Triple ==
  ASSUME NEW S, NEW a \in S, NEW b \in S, NEW c \in S
  PROVE  <<a, b, c>> \in Seq(S) /\ Len(<<a, b, c>>) = 3
  OBVIOUS

EndingLetters == {"j", "p", "g", "i", "f", "c", "s"}

LEMMA EndingsAreThree ==
  ASSUME NEW k \in DOMAIN Names!Ending
  PROVE  /\ Names!Ending[k] \in Seq(EndingLetters) /\ Len(Names!Ending[k]) = 3
         /\ k # "html"
<1>1. k \in {"jpg", "gif", "css", "cgi"}
  BY DEF Names!Ending
<1>2. \/ Names!Ending[k] = <<"j", "p", "g">> \/ Names!Ending[k] = <<"g", "i", "f">>
      \/ Names!Ending[k] = <<"c", "s", "s">> \/ Names!Ending[k] = <<"c", "g", "i">>
  BY <1>1 DEF Names!Ending
<1>3. /\ "j" \in EndingLetters /\ "p" \in EndingLetters /\ "g" \in EndingLetters
      /\ "i" \in EndingLetters /\ "f" \in EndingLetters /\ "c" \in EndingLetters
      /\ "s" \in EndingLetters
  BY DEF EndingLetters
<1>4. \A t \in {<<"j", "p", "g">>, <<"g", "i", "f">>, <<"c", "s", "s">>, <<"c", "g", "i">>} :
        t \in Seq(EndingLetters) /\ Len(t) = 3
  BY <1>3, Triple, Zenon
<1>5. k # "html"
  BY <1>1
<1> QED
  BY <1>2, <1>4, <1>5, Zenon

(* A sequence of three is the beginning of another one of three only if    *)
(* they are the same.                                                      *)
LEMMA BeginningOfThree ==
  ASSUME NEW S, NEW e \in Seq(S), Len(e) = 3, NEW s, Len(s) = 3
  PROVE  (\E n \in 0 .. 3 : s = SubSeq(e, 1, n)) <=> s = e
<1>1. SubSeq(e, 1, 3) = e
  BY SubSeqFull
<1>2. ASSUME NEW n \in 0 .. 3, s = SubSeq(e, 1, n)
      PROVE  n = 3
  <2>1. ASSUME NEW m \in 1 .. n PROVE e[m] \in S
    <3>1. m \in 1 .. Len(e)
      OBVIOUS
    <3> QED
      BY <3>1, ElementOfSeq
  <2>2. Len(SubSeq(e, 1, n)) = IF 1 <= n THEN n - 1 + 1 ELSE 0
    BY <2>1, SubSeqProperties
  <2> QED
    BY <1>2, <2>2
<1>3. 3 \in 0 .. 3
  OBVIOUS
<1> QED
  BY <1>1, <1>2, <1>3, Zenon

LEMMA ScannedIsEnough == Scanned => Names!OneDotDecides
<1> SUFFICES ASSUME Scanned, NEW k \in DOMAIN Names!Ending, NEW d \in Names!Dots,
                    kind # "none", Names!Dots = {d}, Len(rel_path) >= d + 3
             PROVE  k \in Names!Compared <=> SubSeq(rel_path, d + 1, d + 3) = Names!Ending[k]
  BY DEF Names!OneDotDecides
<1>1. ending = SubSeq(rel_path, d + 1, d + 3) /\ Len(ending) = 3
  BY EndingIsThree DEF Names!Dots
<1>2. Names!Ending[k] \in Seq(EndingLetters) /\ Len(Names!Ending[k]) = 3 /\ k # "html"
  BY EndingsAreThree
<1>3. PICK e \in Seq(EndingLetters) : e = Names!Ending[k]
  BY <1>2
<1>4. (\E n \in 0 .. 3 : ending = SubSeq(e, 1, n)) <=> ending = e
  <2>1. Len(e) = 3 /\ Len(ending) = 3
    BY <1>1, <1>2, <1>3
  <2> QED
    BY <2>1, BeginningOfThree, Zenon
<1>5. Names!Agrees(k) <=> ending = Names!Ending[k]
  BY <1>3, <1>4, Zenon DEF Names!Agrees
<1> QED
  BY <1>1, <1>2, <1>5, Zenon DEF Names!Compared

(* However long names are and whatever characters are in them, the three   *)
(* behind the one dot decide the kind of a file (file_type).               *)
THEOREM DotDecides == Names!Spec => []Names!OneDotDecides
<1>1. Names!Spec => []Scanned
  BY ScannedStarts, ScannedKept, PTL DEF Names!Spec
<1> QED
  BY <1>1, ScannedIsEnough, PTL

(* The types of its variables.                                             *)
NamesKnown ==
  rel_path \in Names!Named \cup {Names!Root \o Names!Index} /\ kind \in Names!Kinds \cup {"none"}

LEMMA NamesKnownStarts == Names!Init => NamesKnown
  BY Zenon DEF Names!Init, NamesKnown

LEMMA NamesKnownKept ==
  ASSUME NamesKnown, [Names!Next]_(Names!vars)
  PROVE  NamesKnown'
<1>1. Names!Compared \subseteq Names!Kinds
  BY DEF Names!Compared, Names!Kinds
<1>2. UNCHANGED rel_path /\ kind' \in Names!Kinds \cup {"none", kind}
  BY <1>1 DEF Names!Next, Names!Step, Names!Compare, Names!vars
<1> QED
  BY <1>2 DEF NamesKnown

LEMMA NamesAreTyped == Scanned /\ NamesKnown => Names!TypeOK
<1> SUFFICES ASSUME Scanned, NamesKnown PROVE Names!TypeOK
  OBVIOUS
<1> DEFINE R == {rel_path[n] : n \in DOMAIN rel_path}
<1>1. ending \in Seq(R) /\ Len(ending) <= 3
  <2>1. CASE copy
    <3>1. PICK d \in 1 .. i : ending = SubSeq(rel_path, d + 1, i) /\ i - d <= 3
      BY <2>1 DEF Scanned, CopiesFrom
    <3>2. /\ Len(rel_path) \in Nat /\ DOMAIN rel_path = 1 .. Len(rel_path)
          /\ i \in 0 .. Len(rel_path) /\ d + 1 \in Int /\ i \in Int
      BY DEF Scanned
    <3>3. \A n \in d + 1 .. i : rel_path[n] \in R
      BY <3>2
    <3>4. /\ ending \in Seq(R)
          /\ Len(ending) = IF d + 1 <= i THEN i - (d + 1) + 1 ELSE 0
      BY <3>1, <3>2, <3>3, SubSeqProperties
    <3> QED
      BY <3>1, <3>2, <3>4
  <2>2. CASE ~copy
    BY <2>2, EmptySeq DEF Scanned
  <2> QED
    BY <2>1, <2>2
<1> QED
  BY <1>1 DEF Names!TypeOK, Scanned, NamesKnown

-----------------------------------------------------------------------------
(* The date: who fills the structure has the lock, and what it and the     *)
(* copies hold comes from a time that the thread has met.                  *)
DayMet(M, d) == \E m \in M : d = Date!Fields(m).day
TimeMet(M, d) == \E m \in M : d = Date!Fields(m).time

Filling(t) == pc[t] \in {"day", "time_of_day"}

Dated(t) ==
  /\ Filling(t) => lock = t
  /\ pc[t] \in {"time_of_day", "copy_day"} => DayMet(met[t], static.day)
  /\ pc[t] \in {"copy_day", "copy_time"} => TimeMet(met[t], static.time)
  /\ pc[t] \in {"copy_time", "send"} => DayMet(met[t], tm[t].day)
  /\ pc[t] = "send" => TimeMet(met[t], tm[t].time)

DateInv == Date!TypeOK /\ \A t \in Threads : Dated(t)

LEMMA FieldsAre ==
  ASSUME NEW n \in 0 .. Date!LastTick
  PROVE  Date!Fields(n) \in [day : {0, 1}, time : 0 .. DayLength - 1]
<1> DEFINE D == DayLength
<1>1. D \in Nat \ {0} /\ n \in 0 .. 2 * D - 1
  BY PartsAssumption DEF Date!WebDateAssumption, Date!LastTick
<1>2. n % D \in 0 .. D - 1
  BY <1>1
<1>3. n \div D \in {0, 1}
  BY <1>1
<1> QED
  BY <1>2, <1>3 DEF Date!Fields

LEMMA DateInvStarts == Date!Init => DateInv
<1> SUFFICES ASSUME Date!Init PROVE DateInv
  OBVIOUS
<1>1. DayLength \in Nat \ {0}
  BY PartsAssumption DEF Date!WebDateAssumption
<1>2. 0 \in 0 .. Date!LastTick
  BY <1>1 DEF Date!LastTick
<1>3. Date!Fields(0) \in [day : {0, 1}, time : 0 .. DayLength - 1]
  BY <1>2, FieldsAre
<1>4. Date!TypeOK
  BY <1>2, <1>3 DEF Date!TypeOK, Date!Init
<1>5. \A t \in Threads : Dated(t)
  BY DEF Date!Init, Dated, Filling
<1> QED
  BY <1>4, <1>5 DEF DateInv

(* The types, with names for the ranges that do not change.                *)
DateTypes(N, D) ==
  /\ clock \in N /\ now \in [Threads -> N] /\ met \in [Threads -> SUBSET N]
  /\ pc \in [Threads -> {"time", "gmtime", "day", "time_of_day", "copy_day",
                         "copy_time", "send"}]
  /\ static \in D /\ tm \in [Threads -> D] /\ lock \in Threads \cup {Nobody}

LEMMA DateTypesKept ==
  ASSUME Date!TypeOK, [Date!Next]_(Date!vars)
  PROVE  Date!TypeOK'
<1>1. PICK N : N = 0 .. Date!LastTick
  OBVIOUS
<1>2. PICK D : D = [day : {0, 1}, time : 0 .. DayLength - 1]
  OBVIOUS
<1>3. DateTypes(N, D) /\ \A n \in N : Date!Fields(n) \in D
  BY <1>1, <1>2, FieldsAre DEF Date!TypeOK, DateTypes
<1>4. ASSUME Date!Tick
      PROVE  DateTypes(N, D)'
  <2>1. DayLength \in Nat
    BY PartsAssumption DEF Date!WebDateAssumption
  <2>2. clock' \in N
    BY <1>1, <1>4, <2>1 DEF Date!Tick, Date!LastTick, Date!TypeOK
  <2> QED
    BY <1>3, <1>4, <2>2 DEF Date!Tick, DateTypes
<1>5. ASSUME NEW t \in Threads, Date!get_current_date(t)
      PROVE  DateTypes(N, D)'
  <2>1. now[t] \in N /\ Date!Fields(now[t]) \in D
    BY <1>3 DEF DateTypes
  <2>2. CASE Date!Time(t)
    BY <1>3, <2>2 DEF Date!Time, Date!Go, DateTypes
  <2>6. CASE Date!Lock(t)
    BY <1>3, <2>1, <2>6 DEF Date!Lock, Date!Go, DateTypes
  <2>7. CASE Date!Send(t)
    BY <1>3, <2>7 DEF Date!Send, Date!Go, DateTypes
  <2>3. CASE Date!FillDay(t)
    <3>1. static' \in D
      BY <1>2, <1>3, <2>1, <2>3 DEF Date!FillDay, DateTypes
    <3> QED
      BY <1>3, <2>1, <2>3, <3>1 DEF Date!FillDay, Date!Fills, Date!Go, DateTypes
  <2>4. CASE Date!FillTime(t)
    <3>1. static' \in D
      BY <1>2, <1>3, <2>1, <2>4 DEF Date!FillTime, DateTypes
    <3> QED
      BY <1>3, <2>1, <2>4, <3>1 DEF Date!FillTime, Date!Fills, Date!Go, DateTypes
  <2>5. CASE Date!CopyDay(t)
    <3>1. [tm[t] EXCEPT !.day = static.day] \in D
      BY <1>2, <1>3 DEF DateTypes
    <3> QED
      BY <1>3, <2>5, <3>1 DEF Date!CopyDay, Date!Go, DateTypes
  <2>8. CASE Date!CopyTime(t)
    <3>1. [tm[t] EXCEPT !.time = static.time] \in D
      BY <1>2, <1>3 DEF DateTypes
    <3> QED
      BY <1>3, <2>8, <3>1 DEF Date!CopyTime, Date!Go, DateTypes
  <2> QED
    BY <1>5, <2>2, <2>3, <2>4, <2>5, <2>6, <2>7, <2>8 DEF Date!get_current_date
<1>6. ASSUME UNCHANGED Date!vars
      PROVE  DateTypes(N, D)'
  BY <1>3, <1>6 DEF Date!vars, DateTypes
<1>7. DateTypes(N, D)'
  BY <1>4, <1>5, <1>6 DEF Date!Next
<1> QED
  BY <1>1, <1>2, <1>7 DEF Date!TypeOK, DateTypes, Date!LastTick

(* A time that was met stays met until the thread asks for the next.       *)
LEMMA MetMore ==
  ASSUME NEW M, NEW M1, M \subseteq M1, NEW d
  PROVE  (DayMet(M, d) => DayMet(M1, d)) /\ (TimeMet(M, d) => TimeMet(M1, d))
  BY DEF DayMet, TimeMet

LEMMA DatedKept ==
  ASSUME DateInv, [Date!Next]_(Date!vars)
  PROVE  \A t \in Threads : Dated(t)'
<1> USE DEF Date!Go
<1>1. /\ pc \in [Threads -> {"time", "gmtime", "day", "time_of_day", "copy_day",
                             "copy_time", "send"}]
      /\ DOMAIN now = Threads /\ DOMAIN met = Threads /\ DOMAIN tm = Threads
      /\ DOMAIN static = {"day", "time"} /\ \A t \in Threads : DOMAIN tm[t] = {"day", "time"}
      /\ \A t \in Threads : Dated(t)
  BY DEF DateInv, Date!TypeOK
<1> DEFINE Same(t) == /\ pc'[t] = pc[t] /\ tm'[t] = tm[t] /\ met[t] \subseteq met'[t]
                      /\ Filling(t) => lock' = lock
                      /\ \/ static'.day = static.day \/ DayMet(met'[t], static'.day)
                         \/ pc[t] \notin {"time_of_day", "copy_day"}
                      /\ \/ static'.time = static.time \/ TimeMet(met'[t], static'.time)
                         \/ pc[t] \notin {"copy_day", "copy_time"}
<1>2. ASSUME NEW t \in Threads, Same(t)
      PROVE  Dated(t)'
  BY <1>1, <1>2, MetMore DEF Dated, Filling
<1>3. ASSUME UNCHANGED <<pc, static, tm, lock, met>>
      PROVE  \A t \in Threads : Dated(t)'
  BY <1>2, <1>3
<1>4. ASSUME NEW u \in Threads, Date!Time(u) \/ Date!Lock(u) \/ Date!Send(u),
             NEW t \in Threads
      PROVE  Dated(t)'
  <2>1. CASE t = u
    BY <1>1, <1>4, <2>1 DEF Date!Time, Date!Lock, Date!Send, Dated, Filling
  <2>2. CASE t # u
    <3>1. Nobody # t
      BY PartsAssumption DEF Date!WebDateAssumption
    <3>2. Filling(t) => lock' = lock
      BY <1>1, <1>4, <3>1 DEF Date!Time, Date!Lock, Date!Send, Dated
    <3>3. UNCHANGED <<static, tm>> /\ pc'[t] = pc[t] /\ met'[t] = met[t]
      BY <1>1, <1>4, <2>2 DEF Date!Time, Date!Lock, Date!Send
    <3> QED
      BY <1>2, <3>2, <3>3
  <2> QED
    BY <2>1, <2>2
<1>5. ASSUME NEW u \in Threads, Date!FillDay(u) \/ Date!FillTime(u), NEW t \in Threads
      PROVE  Dated(t)'
  <2>1. met[t] \subseteq met'[t] /\ now[u] \in met'[t] /\ tm' = tm
    BY <1>1, <1>5 DEF Date!FillDay, Date!FillTime, Date!Fills
  <2>2. CASE Date!FillDay(u)
    <3>1. static'.day = Date!Fields(now[u]).day /\ static'.time = static.time /\ lock' = lock
      BY <1>1, <2>2 DEF Date!FillDay
    <3>2. DayMet(met'[t], static'.day)
      BY <2>1, <3>1 DEF DayMet
    <3>3. CASE t = u
      BY <1>1, <2>2, <3>1, <3>2, <3>3 DEF Date!FillDay, Dated, Filling
    <3>4. CASE t # u
      <4>1. Same(t)
        BY <1>1, <2>1, <2>2, <3>1, <3>2, <3>4 DEF Date!FillDay
      <4> QED
        BY <1>2, <4>1
    <3> QED
      BY <3>3, <3>4
  <2>3. CASE Date!FillTime(u)
    <3>1. static'.time = Date!Fields(now[u]).time /\ static'.day = static.day
      BY <1>1, <2>3 DEF Date!FillTime
    <3>2. TimeMet(met'[t], static'.time)
      BY <2>1, <3>1 DEF TimeMet
    <3>3. CASE t = u
      <4>1. pc[t] = "time_of_day" /\ pc'[t] = "copy_day"
        BY <1>1, <2>3, <3>3 DEF Date!FillTime
      <4>2. DayMet(met[t], static.day)
        BY <1>1, <4>1 DEF Dated
      <4>3. DayMet(met'[t], static'.day)
        BY <2>1, <3>1, <4>2, MetMore
      <4> QED
        BY <3>2, <4>1, <4>3 DEF Dated, Filling
    <3>4. CASE t # u
      <4>1. lock = u /\ ~Filling(t)
        BY <1>1, <2>3, <3>4 DEF Date!FillTime, Dated, Filling
      <4>2. Same(t)
        BY <1>1, <2>1, <2>3, <3>1, <3>2, <3>4, <4>1 DEF Date!FillTime
      <4> QED
        BY <1>2, <4>2
    <3> QED
      BY <3>3, <3>4
  <2> QED
    BY <1>5, <2>2, <2>3
<1>6. ASSUME NEW u \in Threads, Date!CopyDay(u) \/ Date!CopyTime(u), NEW t \in Threads
      PROVE  Dated(t)'
  <2>1. UNCHANGED <<static, lock, met>>
    BY <1>6 DEF Date!CopyDay, Date!CopyTime
  <2>3. CASE t = u /\ Date!CopyDay(u)
    <3>1. pc[t] = "copy_day" /\ pc'[t] = "copy_time" /\ tm'[t].day = static.day
      BY <1>1, <2>3 DEF Date!CopyDay
    <3> QED
      BY <1>1, <2>1, <3>1 DEF Dated, Filling
  <2>4. CASE t = u /\ Date!CopyTime(u)
    <3>1. /\ pc[t] = "copy_time" /\ pc'[t] = "send" /\ tm'[t].time = static.time
          /\ tm'[t].day = tm[t].day
      BY <1>1, <2>4 DEF Date!CopyTime
    <3> QED
      BY <1>1, <2>1, <3>1 DEF Dated, Filling
  <2>5. CASE t # u
    <3>1. Same(t)
      BY <1>1, <1>6, <2>1, <2>5 DEF Date!CopyDay, Date!CopyTime
    <3> QED
      BY <1>2, <3>1
  <2> QED
    BY <1>6, <2>3, <2>4, <2>5
<1>7. CASE Date!Tick \/ UNCHANGED Date!vars
  BY <1>3, <1>7 DEF Date!Tick, Date!vars
<1> QED
  BY <1>4, <1>5, <1>6, <1>7 DEF Date!Next, Date!get_current_date

LEMMA DateInvKept ==
  ASSUME DateInv, [Date!Next]_(Date!vars)
  PROVE  DateInv'
  BY DateTypesKept, DatedKept DEF DateInv

LEMMA DatedIsEnough == DateInv => Date!DateOfSomebody
<1> SUFFICES ASSUME DateInv, NEW t \in Threads, pc[t] = "send"
             PROVE  \E m, n \in met[t] :
                      tm[t] = [day |-> Date!Fields(m).day, time |-> Date!Fields(n).time]
  BY DEF Date!DateOfSomebody
<1>1. DayMet(met[t], tm[t].day) /\ TimeMet(met[t], tm[t].time)
  BY DEF DateInv, Dated
<1>2. PICK m \in met[t] : tm[t].day = Date!Fields(m).day
  BY <1>1 DEF DayMet
<1>3. PICK n \in met[t] : tm[t].time = Date!Fields(n).time
  BY <1>1 DEF TimeMet
<1>4. tm[t] = [day |-> tm[t].day, time |-> tm[t].time]
  BY DEF DateInv, Date!TypeOK
<1> QED
  BY <1>2, <1>3, <1>4

(* However many threads share the structure of the C library, what a       *)
(* thread sends was the time of one that filled it meanwhile, day and time *)
(* each (get_current_date).                                                *)
THEOREM DatesAreMet == Date!Spec => []Date!DateOfSomebody
<1>1. Date!Spec => []DateInv
  BY DateInvStarts, DateInvKept, PTL DEF Date!Spec
<1> QED
  BY <1>1, DatedIsEnough, PTL

-----------------------------------------------------------------------------
(* The log: what is in it, then what the buffer holds, is what was printed *)
(* while stdout leads there.                                               *)
Access == written["access_log"]
LogFiles == {"console", "access_log", "error_log"}

LogTypes(R) ==
  /\ buffer \in Seq(R) /\ written \in [LogFiles -> Seq(R)] /\ got \in Seq(R) /\ early \in Nat
  /\ fd1 \in {"console", "access_log"} /\ fd2 \in {"console", "error_log"}

Leads ==
  /\ mainpc \in {"config", "socket", "loop", "flush", "stdout_back"} => fd1 = "access_log"
  /\ mainpc \in {"open", "redirect", "stderr_back", "return", "exited"} => fd1 = "console"

Fresh ==
  mainpc \in {"open", "redirect"} =>
    /\ got = <<>> /\ buffer = <<>> /\ Access = <<>>
    /\ \A t \in Log!Rounds : threadpc[t] = "none"

Kept(R) ==
  /\ fd1 = "access_log" /\ mainpc # "sigpipe" => got = Access \o buffer
  /\ \E s \in Seq(R) : got = Access \o s
  /\ early <= Len(Access)

LogInv(R) == LogTypes(R) /\ Leads /\ Fresh /\ Kept(R)

LEMMA LogInvStarts ==
  ASSUME Log!Init, NEW R
  PROVE  LogInv(R)
<1>1. <<>> \in Seq(R) /\ Len(<<>>) = 0 /\ <<>> \o <<>> = <<>>
  BY EmptySeq, ConcatEmptySeq
<1>2. written = [p \in LogFiles |-> <<>>] /\ got = <<>> /\ buffer = <<>> /\ early = 0
  BY DEF Log!Init, Log!Places, LogFiles
<1>3. Access = <<>>
  BY <1>2 DEF Access, LogFiles
<1>4. Kept(R)
  <2>1. got = Access \o buffer /\ got = Access \o <<>> /\ Len(Access) = 0 /\ early <= 0
    BY <1>1, <1>2, <1>3
  <2> QED
    BY <1>1, <2>1, Zenon DEF Kept
<1> QED
  BY <1>1, <1>2, <1>3, <1>4 DEF Log!Init, LogInv, LogTypes, Leads, Fresh

(* What leaves the output alone leaves the log.                            *)
LEMMA LogOutputKept ==
  ASSUME NEW R, LogTypes(R), Kept(R), Log!SameOutput,
         mainpc = "sigpipe" => mainpc' = "sigpipe"
  PROVE  LogTypes(R)' /\ Kept(R)'
  BY DEF LogTypes, Kept, Access, Log!SameOutput

(* fflush, and what fprintf does when the buffer is full.                  *)
LEMMA WrittenOut ==
  ASSUME NEW R, LogTypes(R), Kept(R), mainpc # "sigpipe", NEW b \in Seq(R),
         written' = [written EXCEPT ![fd1] = @ \o b], buffer' = <<>>, fd1' = fd1,
         fd2' = fd2, got' \in Seq(R), fd1 = "access_log" => got' = Access \o b,
         early' \in Nat, early' <= Len(Access) \/ (early' = Len(got') /\ fd1 = "access_log"),
         fd1 = "console" => \E s \in Seq(R) : got' = Access \o s
  PROVE  LogTypes(R)' /\ Kept(R)'
<1>1. Access \in Seq(R) /\ written[fd1] \in Seq(R) /\ Len(Access) \in Nat
  BY DEF LogTypes, Access, LogFiles
<1>2. written[fd1] \o b \in Seq(R) /\ Access \o b \in Seq(R)
      /\ Len(Access \o b) = Len(Access) + Len(b) /\ Len(b) \in Nat
  BY <1>1, ConcatProperties
<1>3. LogTypes(R)'
  BY <1>2, EmptySeq DEF LogTypes
<1>4. Access' = IF fd1 = "access_log" THEN Access \o b ELSE Access
  BY DEF LogTypes, Access, LogFiles
<1>5. CASE fd1 = "access_log"
  <2>1. got' = Access' \o buffer'
    BY <1>2, <1>4, <1>5, ConcatEmptySeq
  <2>2. early' <= Len(Access')
    BY <1>1, <1>2, <1>4, <1>5
  <2> QED
    BY <1>3, <1>5, <2>1, <2>2 DEF Kept, LogTypes
<1>6. CASE fd1 = "console"
  <2>1. Access' = Access /\ fd1' # "access_log"
    BY <1>4, <1>6
  <2>2. early' <= Len(Access')
    BY <1>4, <1>6
  <2> QED
    BY <1>3, <1>6, <2>1, <2>2 DEF Kept
<1> QED
  BY <1>5, <1>6 DEF LogTypes

LEMMA LogThreadKeeps ==
  ASSUME NEW R, Log!Rounds = R, LogInv(R), NEW t \in R, Log!handle_request(t)
  PROVE  LogInv(R)'
<1>1. /\ LogTypes(R) /\ Kept(R) /\ mainpc \notin Log!Ended /\ threadpc[t] # "none"
      /\ UNCHANGED <<fd1, fd2, early>>
  BY DEF LogInv, Log!handle_request, Log!NobodyThere, Log!PrintRequest, Log!PrintLength,
     Log!Answer, Log!BrokenPipe, Log!Thread
<1>2. mainpc \notin {"open", "redirect"} /\ mainpc # "sigpipe"
  BY <1>1 DEF LogInv, Fresh, Log!Ended
<1>3. mainpc' = mainpc \/ mainpc' = "sigpipe"
  BY DEF Log!handle_request, Log!NobodyThere, Log!PrintRequest, Log!PrintLength,
     Log!Answer, Log!BrokenPipe, Log!Thread
<1>4. Leads' /\ Fresh'
  BY <1>1, <1>2, <1>3 DEF LogInv, Leads, Fresh
<1>5. CASE Log!NobodyThere(t) \/ Log!Answer(t)
  BY <1>1, <1>2, <1>4, <1>5, LogOutputKept
  DEF Log!NobodyThere, Log!Answer, Log!Thread, Log!SameOutput, LogInv
<1>6. Access \in Seq(R) /\ buffer \in Seq(R) /\ got \in Seq(R) /\ Append(buffer, t) \in Seq(R)
      /\ got' \in Seq(R)
  <2>1. got' = got \/ got' = Append(got, t)
    BY DEF Log!handle_request, Log!NobodyThere, Log!PrintRequest, Log!PrintLength,
       Log!Answer, Log!BrokenPipe
  <2>2. Access \in Seq(R) /\ buffer \in Seq(R) /\ got \in Seq(R)
    BY <1>1 DEF LogTypes, Access, LogFiles
  <2>3. Append(buffer, t) \in Seq(R) /\ Append(got, t) \in Seq(R)
    BY <2>2, AppendProperties
  <2> QED
    BY <2>1, <2>2, <2>3
<1>7. CASE Log!PrintRequest(t)
  <2>1. mainpc' = mainpc /\ got' = Append(got, t)
    BY <1>7 DEF Log!PrintRequest, Log!Thread
  <2>2. fd1 = "access_log" => got' = Access \o Append(buffer, t)
    <3>1. Append(got, t) = got \o <<t>> /\ Append(buffer, t) = buffer \o <<t>>
      BY <1>6, AppendIsConcat
    <3>2. (Access \o buffer) \o <<t>> = Access \o (buffer \o <<t>>)
      BY <1>6, ConcatAssociative, ConcatProperties
    <3> QED
      BY <1>1, <1>2, <2>1, <3>1, <3>2 DEF Kept
  <2>5. PICK held \in Seq(R) : got = Access \o held
    BY <1>1 DEF Kept
  <2>6. got' = Access \o Append(held, t) /\ Append(held, t) \in Seq(R)
    <3>1. Append(got, t) = got \o <<t>> /\ Append(held, t) = held \o <<t>>
      BY <1>6, AppendIsConcat
    <3>2. (Access \o held) \o <<t>> = Access \o (held \o <<t>>)
      <4>1. <<t>> \in Seq(R) /\ Access \in Seq(R) /\ held \in Seq(R)
        BY <1>6, <2>5, ConcatProperties
      <4>2. PICK one \in Seq(R) : one = <<t>>
        BY <4>1
      <4>3. (Access \o held) \o one = Access \o (held \o one)
        BY <4>1, ConcatAssociative
      <4> QED
        BY <4>2, <4>3
    <3>3. Append(held, t) \in Seq(R)
      BY AppendProperties, Zenon
    <3>4. got' = Access \o Append(held, t)
      BY <2>1, <2>5, <3>1, <3>2, Zenon
    <3> QED
      BY <3>3, <3>4
  <2>3. CASE Log!Room
    <3>1. buffer' = Append(buffer, t) /\ written' = written
      BY <1>7, <2>3 DEF Log!PrintRequest
    <3>2. Access' = Access /\ LogTypes(R)'
      BY <1>1, <1>6, <3>1 DEF LogTypes, Access
    <3>5. Kept(R)'
      BY <1>1, <2>2, <2>6, <3>1, <3>2 DEF Kept
    <3> QED
      BY <1>4, <3>2, <3>5 DEF LogInv
  <2>4. CASE ~Log!Room
    <3>1. buffer' = <<>> /\ written' = [written EXCEPT ![fd1] = @ \o Append(buffer, t)]
      BY <1>7, <2>4 DEF Log!PrintRequest
    <3> QED
      <4>1. early' \in Nat /\ early' <= Len(Access)
        BY <1>1 DEF LogTypes, Kept
      <4>2. LogTypes(R)' /\ Kept(R)'
        BY <1>1, <1>2, <1>6, <2>2, <2>6, <3>1, <4>1, WrittenOut
      <4> QED
        BY <1>4, <4>2 DEF LogInv
  <2> QED
    BY <2>3, <2>4
<1>8. CASE Log!PrintLength(t)
  <2>1. /\ written' = [written EXCEPT ![fd2] = Append(@, t)] /\ mainpc' = mainpc
        /\ UNCHANGED <<buffer, got>>
    BY <1>8 DEF Log!PrintLength, Log!Thread
  <2>2. written[fd2] \in Seq(R) /\ fd2 \in LogFiles /\ fd2 # "access_log"
    BY <1>1 DEF LogTypes, LogFiles
  <2>3. Append(written[fd2], t) \in Seq(R)
    BY <2>2, AppendProperties
  <2>4. LogTypes(R)' /\ Access' = Access
    BY <1>1, <2>1, <2>2, <2>3 DEF LogTypes, Access, LogFiles
  <2> QED
    BY <1>1, <1>4, <2>1, <2>4 DEF LogInv, Kept
<1>9. CASE Log!BrokenPipe(t)
  <2>1. mainpc' = "sigpipe" /\ buffer' = <<>> /\ UNCHANGED <<written, got>>
    BY <1>9 DEF Log!BrokenPipe
  <2>2. LogTypes(R)' /\ Access' = Access
    BY <1>1, <2>1, EmptySeq DEF LogTypes, Access
  <2> QED
    BY <1>1, <1>4, <2>1, <2>2 DEF LogInv, Kept
<1> QED
  BY <1>5, <1>7, <1>8, <1>9 DEF Log!handle_request

LEMMA LogMainKeeps ==
  ASSUME NEW R, Log!Rounds = R, LogInv(R), Log!main
  PROVE  LogInv(R)'
<1>1. LogTypes(R) /\ Kept(R) /\ Leads /\ Fresh
  BY DEF LogInv
<1>2. CASE Log!OpenLogs \/ Log!Socket \/ Log!Accept \/ Log!LoopEnds
  <2>1. Log!SameOutput /\ mainpc # "sigpipe"
    BY <1>2 DEF Log!OpenLogs, Log!Socket, Log!Accept, Log!LoopEnds, Log!Go
  <2>2. Leads'
    BY <1>1, <1>2 DEF Leads, Log!OpenLogs, Log!Socket, Log!Accept, Log!LoopEnds, Log!Go,
       Log!SameOutput
  <2>3. Fresh'
    BY <1>1, <1>2 DEF Fresh, Access, Log!OpenLogs, Log!Socket, Log!Accept, Log!LoopEnds,
       Log!Go, Log!SameOutput, Log!SameRounds, Log!Rounds
  <2> QED
    BY <1>1, <2>1, <2>2, <2>3, LogOutputKept DEF LogInv
<1>3. CASE Log!Redirect
  <2>1. got = <<>> /\ buffer = <<>> /\ Access = <<>> /\ UNCHANGED <<buffer, written, got, early>>
    BY <1>1, <1>3 DEF Fresh, Log!Redirect, Log!Go
  <2>2. got' = Access' \o buffer'
    BY <2>1, ConcatEmptySeq, EmptySeq DEF Access
  <2>3. LogTypes(R)' /\ Leads' /\ Fresh'
    BY <1>1, <1>3, <2>1 DEF LogTypes, Leads, Fresh, Log!Redirect, Log!Go
  <2> QED
    BY <1>1, <2>1, <2>2, <2>3 DEF LogInv, Kept, Access
<1>4. CASE Log!FlushStdout
  <2>1. /\ mainpc = "flush" /\ mainpc' = "stdout_back" /\ fd1 = "access_log"
        /\ written' = [written EXCEPT ![fd1] = @ \o buffer] /\ buffer' = <<>>
        /\ early' = Len(got) /\ UNCHANGED <<fd1, fd2, got>>
    BY <1>1, <1>4 DEF Leads, Log!FlushStdout, Log!FlushFirst, Log!Flush, Log!Go
  <2>2. LogTypes(R)' /\ Kept(R)'
    BY <1>1, <2>1, WrittenOut, LenProperties DEF LogTypes, Kept
  <2>3. Leads' /\ Fresh'
    BY <2>1 DEF Leads, Fresh
  <2> QED
    BY <2>2, <2>3 DEF LogInv
<1>5. CASE Log!StdoutBack \/ Log!StderrBack
  <2>1. /\ mainpc \in {"stdout_back", "stderr_back"} /\ mainpc' \in {"stderr_back", "return"}
        /\ fd1' = "console" /\ fd2' \in {fd2, "console"}
        /\ UNCHANGED <<buffer, written, got, early>>
    BY <1>1, <1>5 DEF Leads, Log!StdoutBack, Log!StderrBack, Log!Go
  <2>2. LogTypes(R)' /\ Leads' /\ Fresh' /\ Access' = Access
    BY <1>1, <2>1 DEF LogTypes, Leads, Fresh, Access
  <2> QED
    BY <1>1, <2>1, <2>2 DEF LogInv, Kept
<1>6. CASE Log!Exit
  <2>1. /\ mainpc = "return" /\ mainpc' = "exited" /\ fd1 = "console"
        /\ written' = [written EXCEPT ![fd1] = @ \o buffer] /\ buffer' = <<>>
        /\ UNCHANGED <<fd1, fd2, got, early>>
    BY <1>1, <1>6 DEF Leads, Log!Exit, Log!Flush, Log!Go
  <2>2. LogTypes(R)' /\ Kept(R)'
    BY <1>1, <2>1, WrittenOut DEF LogTypes, Kept
  <2>3. Leads' /\ Fresh'
    BY <2>1 DEF Leads, Fresh
  <2> QED
    BY <2>2, <2>3 DEF LogInv
<1> QED
  BY <1>2, <1>3, <1>4, <1>5, <1>6 DEF Log!main

LEMMA LogInvKept ==
  ASSUME NEW R, Log!Rounds = R, LogInv(R), [Log!Next]_(Log!vars)
  PROVE  LogInv(R)'
<1>1. CASE UNCHANGED Log!vars
  BY <1>1 DEF Log!vars, LogInv, LogTypes, Leads, Fresh, Kept, Access, Log!Rounds
<1> QED
  BY <1>1, LogThreadKeeps, LogMainKeeps DEF Log!Next

LEMMA LogIsEnough ==
  ASSUME NEW R, LogInv(R)
  PROVE  Log!EarlyLogged
<1>1. Access \in Seq(R) /\ got \in Seq(R)
  BY DEF LogInv, LogTypes, Access, LogFiles
<1>2. PICK s \in Seq(R) : got = Access \o s
  BY DEF LogInv, Kept
<1>3. Len(Access) \in Nat /\ Len(s) \in Nat /\ Len(got) = Len(Access) + Len(s)
  BY <1>1, <1>2, ConcatProperties
<1>4. SubSeq(got, 1, Len(Access)) = Access
  <2>1. CASE Access = <<>>
    BY <2>1, EmptySeq, SubSeqEmpty
  <2>2. CASE Access # <<>>
    <3>1. 1 \in 1 .. Len(Access) /\ Len(Access) \in 1 .. Len(Access)
      BY <1>1, <1>3, <2>2, EmptySeq
    <3>2. SubSeq(Access \o s, 1, Len(Access)) = SubSeq(Access, 1, Len(Access))
      BY <1>1, <3>1, SubSeqOfConcat1
    <3> QED
      BY <1>1, <1>2, <3>2, SubSeqFull
  <2> QED
    BY <2>1, <2>2
<1>5. Log!FirstOnes(got, Len(Access)) = SubSeq(got, 1, Len(Access))
  BY <1>3 DEF Log!FirstOnes
<1>6. early <= Len(Access)
  BY DEF LogInv, Kept
<1> QED
  BY <1>4, <1>5, <1>6 DEF Log!EarlyLogged, Access

(* Of what is printed before main flushes stdout nothing is lost or out of *)
(* order, however many threads print meanwhile and however much stdio      *)
(* holds back (main).                                                      *)
THEOREM EarlyIsLogged == Log!Spec => []Log!EarlyLogged
<1> SUFFICES ASSUME NEW R, R = Log!Rounds
             PROVE  Log!Spec => []Log!EarlyLogged
  OBVIOUS
<1>1. Log!Init => LogInv(R)
  BY LogInvStarts
<1>2. LogInv(R) /\ [Log!Next]_(Log!vars) => LogInv(R)'
  BY LogInvKept
<1>3. LogInv(R) => Log!EarlyLogged
  BY LogIsEnough
<1> QED
  BY <1>1, <1>2, <1>3, PTL DEF Log!Spec

(* The rest of the types of the log: the buffer is never full, a round of  *)
(* the loop has one thread.                                                *)
LogPlaces ==
  {"open", "redirect", "config", "socket", "loop", "flush", "stdout_back", "stderr_back",
   "return", "failed", "crashed", "sigpipe", "exited"}
LogThreads == {"none", "no_client", "recv", "stderr", "answer", "done"}

LogMoves(R) ==
  /\ mainpc \in LogPlaces /\ listening \in BOOLEAN
  /\ rounds \in 0 .. LogConnections + 1 /\ threadpc \in [R -> LogThreads]
BufferLow == Len(buffer) < BufCap

LEMMA LogMovesStarts ==
  ASSUME Log!Init, NEW R, R = Log!Rounds
  PROVE  LogMoves(R) /\ BufferLow
<1>1. LogConnections \in Nat /\ BufCap \in Nat \ {0}
  BY PartsAssumption DEF Log!WebLogAssumption
<1>2. LogMoves(R)
  <2>1. listening \in BOOLEAN
    BY Zenon DEF Log!Init
  <2>2. mainpc \in LogPlaces /\ rounds \in 0 .. LogConnections + 1
    BY <1>1 DEF Log!Init, LogPlaces
  <2>3. threadpc \in [R -> LogThreads]
    BY DEF Log!Init, LogThreads
  <2> QED
    BY <2>1, <2>2, <2>3 DEF LogMoves
<1>3. Len(buffer) = 0
  BY EmptySeq DEF Log!Init
<1> QED
  BY <1>1, <1>2, <1>3 DEF BufferLow

LEMMA LogMovesKept ==
  ASSUME NEW R, R = Log!Rounds, LogMoves(R), [Log!Next]_(Log!vars)
  PROVE  LogMoves(R)'
<1>1. LogConnections \in Nat
  BY PartsAssumption DEF Log!WebLogAssumption
<1>2. CASE Log!main
  <2>2. mainpc' \in LogPlaces
    BY <1>2 DEF LogMoves, Log!main, Log!OpenLogs, Log!Redirect, Log!Socket, Log!Accept,
       Log!LoopEnds, Log!FlushStdout, Log!StdoutBack, Log!StderrBack, Log!Exit, Log!Go,
       LogPlaces
  <2>3. listening' \in BOOLEAN
    BY <1>2, Zenon DEF LogMoves, Log!main, Log!OpenLogs, Log!Redirect, Log!Socket, Log!Accept,
       Log!LoopEnds, Log!FlushStdout, Log!StdoutBack, Log!StderrBack, Log!Exit, Log!SameRounds
  <2>4. (rounds' = rounds /\ threadpc' = threadpc) \/ Log!Accept
    BY <1>2, Zenon DEF LogMoves, Log!main, Log!OpenLogs, Log!Redirect, Log!Socket, Log!Accept,
       Log!LoopEnds, Log!FlushStdout, Log!StdoutBack, Log!StderrBack, Log!Exit, Log!SameRounds
  <2>5. rounds' \in 0 .. LogConnections + 1 /\ threadpc' \in [R -> LogThreads]
    BY <1>1, <2>4 DEF LogMoves, Log!Accept, LogThreads
  <2> QED
    BY <2>2, <2>3, <2>5 DEF LogMoves
<1>3. ASSUME NEW t \in R, Log!handle_request(t)
      PROVE  LogMoves(R)'
  <2>1. UNCHANGED <<listening, rounds>> /\ mainpc' \in {mainpc, "sigpipe"}
    BY <1>3, Zenon DEF Log!handle_request, Log!NobodyThere, Log!PrintRequest,
       Log!PrintLength, Log!Answer, Log!BrokenPipe, Log!Thread, Log!SameRounds
  <2>2. threadpc' \in [R -> LogThreads]
    BY <1>3 DEF LogMoves, LogThreads, Log!handle_request, Log!NobodyThere, Log!PrintRequest,
       Log!PrintLength, Log!Answer, Log!BrokenPipe, Log!Thread, Log!SameRounds
  <2> QED
    BY <2>1, <2>2 DEF LogMoves, LogPlaces
<1>4. CASE UNCHANGED Log!vars
  BY <1>4 DEF Log!vars, LogMoves
<1> QED
  BY <1>2, <1>3, <1>4 DEF Log!Next

LEMMA BufferLowKept ==
  ASSUME NEW R, R = Log!Rounds, LogTypes(R), BufferLow, [Log!Next]_(Log!vars)
  PROVE  BufferLow'
<1>1. BufCap \in Nat \ {0} /\ buffer \in Seq(R)
  BY PartsAssumption DEF Log!WebLogAssumption, LogTypes
<1>2. CASE buffer' = buffer
  BY <1>2 DEF BufferLow
<1>3. CASE buffer' = <<>>
  BY <1>1, <1>3, EmptySeq DEF BufferLow
<1>4. ASSUME NEW t \in R, Log!PrintRequest(t)
      PROVE  BufferLow'
  <2>1. Len(Append(buffer, t)) = Len(buffer) + 1
    BY <1>1, AppendProperties
  <2>2. buffer' = <<>> \/ (buffer' = Append(buffer, t) /\ Len(buffer) + 1 < BufCap)
    BY <1>4 DEF Log!PrintRequest, Log!Room
  <2> QED
    BY <1>3, <2>1, <2>2 DEF BufferLow
<1>5. buffer' = buffer \/ buffer' = <<>> \/ \E t \in R : Log!PrintRequest(t)
  BY Zenon DEF Log!Next, Log!vars, Log!main, Log!OpenLogs, Log!Redirect, Log!Socket, Log!Accept,
     Log!LoopEnds, Log!FlushStdout, Log!FlushFirst, Log!Flush, Log!StdoutBack, Log!StderrBack,
     Log!Exit, Log!SameOutput, Log!handle_request, Log!NobodyThere,
     Log!PrintLength, Log!Answer, Log!BrokenPipe
<1> QED
  BY <1>2, <1>3, <1>4, <1>5

LEMMA LogIsTyped ==
  ASSUME NEW R, R = Log!Rounds, LogInv(R), LogMoves(R), BufferLow
  PROVE  Log!TypeOK
  BY DEF LogInv, LogTypes, LogMoves, BufferLow, LogPlaces, LogThreads, LogFiles, Log!TypeOK,
     Log!Places, Log!Ended

-----------------------------------------------------------------------------
(* All together: a behaviour of the web server is one of each part.        *)
LEMMA PartsStart == WebInit => Init /\ Config!Init /\ Names!Init /\ Log!Init /\ Date!Init
  BY Zenon DEF WebInit

LEMMA PartsMove ==
  ASSUME [WebNext]_<<part, vars, configVars, nameVars, logVars, dateVars>>
  PROVE  /\ [Next]_vars /\ [Config!Next]_(Config!vars) /\ [Names!Next]_(Names!vars)
         /\ [Log!Next]_(Log!vars) /\ [Date!Next]_(Date!vars)
<1>1. /\ Config!vars = configVars /\ Names!vars = nameVars
      /\ Log!vars = logVars /\ Date!vars = dateVars
  BY Zenon DEF Config!vars, Names!vars, Log!vars, Date!vars, configVars, nameVars, logVars,
     dateVars
<1>2. /\ [Next]_vars /\ [Config!Next]_configVars /\ [Names!Next]_nameVars
      /\ [Log!Next]_logVars /\ [Date!Next]_dateVars
  <2>1. CASE UNCHANGED <<part, vars, configVars, nameVars, logVars, dateVars>>
    BY <2>1, Zenon
  <2>2. CASE WebNext
    BY <2>2, Zenon DEF WebNext, Others
  <2> QED
    BY <2>1, <2>2
<1> QED
  BY <1>1, <1>2, Zenon DEF Config!vars, Names!vars, Log!vars, Date!vars, configVars, nameVars,
     logVars, dateVars

(* A behaviour of all parts together is, for each of them, a behaviour of  *)
(* that part: what is proved of a part holds of the server as a whole.     *)
THEOREM PartsAreServed ==
  WebSpec => Spec /\ Config!Spec /\ Names!Spec /\ Log!Spec /\ Date!Spec
<1>1. WebInit => Init /\ Config!Init /\ Names!Init /\ Log!Init /\ Date!Init
  BY PartsStart
<1>2. [WebNext]_<<part, vars, configVars, nameVars, logVars, dateVars>> =>
        /\ [Next]_vars /\ [Config!Next]_(Config!vars) /\ [Names!Next]_(Names!vars)
        /\ [Log!Next]_(Log!vars) /\ [Date!Next]_(Date!vars)
  BY PartsMove, Zenon
<1> QED
  BY <1>1, <1>2, PTL DEF WebSpec, Spec, Config!Spec, Names!Spec, Log!Spec, Date!Spec

(* What the server reads from text is what is there: the word behind the   *)
(* last place of a keyword, the kind that the one dot of a name tells      *)
(* (populate_config, file_type).                                           *)
THEOREM TextIsUnderstood == WebSpec => []TextUnderstood
<1>1. Config!WebConfigAssumption
  BY PartsAssumption
<1>2. Config!Spec => []Config!LastIsTaken
  BY <1>1, LastTaken
<1>3. Config!LastIsTaken /\ Names!OneDotDecides => TextUnderstood
  BY DEF TextUnderstood
<1> QED
  BY <1>2, <1>3, PartsAreServed, DotDecides, PTL

(* What the threads share in the C library harms what is logged before     *)
(* main flushes not at all, and a date only by those that met (main,       *)
(* get_current_date).                                                      *)
THEOREM LibraryIsShared == WebSpec => []LibraryShared
<1>1. Log!EarlyLogged /\ Date!DateOfSomebody => LibraryShared
  BY DEF LibraryShared
<1> QED
  BY <1>1, PartsAreServed, EarlyIsLogged, DatesAreMet, PTL

PartKnown == part \in {"requests", "config", "names", "log", "date"}

(* Each value of the server as a whole is one of its type: the threads and *)
(* the clients, the path of a request and what file_type makes of it, the  *)
(* log and its buffer, which is never full, the date, the configuration.   *)
THEOREM AllTypesHold == WebSpec => []TypesOK
<1>1. Config!Spec => [](j \in 0 .. Len(strings))
  <2>1. Config!WebConfigAssumption
    BY PartsAssumption
  <2>2. Config!Init => Reading
    BY <2>1, FilesAreSequences DEF Config!Init, Reading
  <2>3. Reading /\ [Config!Next]_(Config!vars) => Reading'
    BY <2>1, ReadingKept
  <2>4. Reading => j \in 0 .. Len(strings)
    BY DEF Reading
  <2> QED
    BY <2>2, <2>3, <2>4, PTL DEF Config!Spec
<1>2. Names!Spec => []Names!TypeOK
  <2>1. Names!Init => Scanned /\ NamesKnown
    BY ScannedStarts, NamesKnownStarts
  <2>2. Scanned /\ NamesKnown /\ [Names!Next]_(Names!vars) => (Scanned /\ NamesKnown)'
    BY ScannedKept, NamesKnownKept
  <2> QED
    BY <2>1, <2>2, NamesAreTyped, PTL DEF Names!Spec
<1>3. Log!Spec => []Log!TypeOK
  <2> SUFFICES ASSUME NEW R, R = Log!Rounds
               PROVE  Log!Spec => []Log!TypeOK
    OBVIOUS
  <2>1. Log!Init => LogInv(R) /\ LogMoves(R) /\ BufferLow
    BY LogInvStarts, LogMovesStarts
  <2>2. LogInv(R) /\ LogMoves(R) /\ BufferLow /\ [Log!Next]_(Log!vars)
          => LogInv(R)' /\ LogMoves(R)' /\ BufferLow'
    BY LogInvKept, LogMovesKept, BufferLowKept DEF LogInv
  <2>3. LogInv(R) /\ LogMoves(R) /\ BufferLow => Log!TypeOK
    BY LogIsTyped
  <2> QED
    BY <2>1, <2>2, <2>3, PTL DEF Log!Spec
<1>4. Date!Spec => []Date!TypeOK
  <2>1. DateInv => Date!TypeOK
    BY DEF DateInv
  <2> QED
    BY <2>1, DateInvStarts, DateInvKept, PTL DEF Date!Spec
<1>5. WebSpec => []PartKnown
  <2>1. WebInit => PartKnown
    BY DEF WebInit, PartKnown
  <2>2. ASSUME PartKnown,
               [WebNext]_<<part, vars, configVars, nameVars, logVars, dateVars>>
        PROVE  PartKnown'
    <3>1. part' = part
      BY <2>2, Zenon DEF WebNext
    <3> QED
      BY <2>2, <3>1 DEF PartKnown
  <2> QED
    BY <2>1, <2>2, PTL DEF WebSpec
<1>6. ASSUME PartKnown,
             TypeOK, Names!TypeOK, Log!TypeOK, Date!TypeOK, j \in 0 .. Len(strings)
      PROVE  TypesOK
  BY <1>6 DEF TypesOK, PartKnown
<1> QED
  BY <1>1, <1>2, <1>3, <1>4, <1>5, <1>6, PartsAreServed, WebTypesHold, PTL
=============================================================================
