----------------------------- MODULE WebServer -----------------------------
(***************************************************************************)
(* The web server: the accept loop of main, and the thread it creates for  *)
(* each connection, which reads one request, answers it and closes the     *)
(* connection (server.c, httpResponses.c).  A step of a thread is one      *)
(* system call or the writes of one part of a response.  Meanwhile the     *)
(* clients connect, ask, stop reading and go away, and files change.       *)
(*                                                                         *)
(* A response is the sequence of its parts: what each of its lines is for  *)
(* and how much of an entity each write carries; a page has the size 1.    *)
(***************************************************************************)
EXTENDS Integers, Sequences, FiniteSets

CONSTANTS
  Clients, NoClient,  \* who connects, once each; the descriptor -1
  Requests, Sent,     \* what may be asked for, and what they send
  Paths, Kind,        \* the files, and what their names say they hold
  Sizes,              \* the sizes a file may have
  Disk, Disks,        \* the files there are at first, and those there may be
  MaxConnections,     \* MAX_CONNECTIONS of httpd.conf
  MaxOpen,            \* how many descriptors are left for connections, files
  TextCap,            \* TEXT_ENTITY_BODY_SIZE
  ChunkCap,           \* MAX_ENTITY_BODY_SIZE
  MaxLapses,          \* how many times clients stop reading or go away
  MaxChanges          \* how many times a file changes

(* "GET" or not, HTTP/0.9 or not, and what for.                            *)
Request == [get : BOOLEAN, simple : BOOLEAN, path : Paths]

ASSUME WebServerAssumption ==
  /\ NoClient \notin Clients /\ Requests \subseteq Request
  /\ Kind \in [Paths -> {"html", "css", "jpg", "gif", "cgi"}] /\ Sizes \subseteq Nat
  /\ MaxConnections \in Nat /\ MaxOpen \in Nat \ {0}
  /\ TextCap \in Nat \ {0} /\ ChunkCap \in Nat \ {0}
  /\ MaxLapses \in Nat /\ MaxChanges \in Nat

VARIABLES
  up,              \* the process runs
  num_connections, new_socket,    \* variables of main
  task,            \* the threads, in the order of their creation
  resp,            \* what each has written to its client
  conn,            \* where the connection of each client has got to
  asked,           \* what each client has sent
  gone, stalled,   \* clients that have closed, that do not read
  lapses,          \* how often that has happened
  disk, changes,   \* the files, and how often they have changed
  touched          \* history: threads whose file changed while they sent it

mainVars   == <<num_connections, new_socket>>
clientVars == <<asked, gone, stalled, lapses>>
diskVars   == <<disk, changes, touched>>
vars == <<up, mainVars, task, resp, conn, clientVars, diskVars>>

-----------------------------------------------------------------------------
Tasks == 1 .. MaxConnections + 1
NoRequest == [get |-> FALSE, simple |-> FALSE, path |-> "nothing"]
Fragment == [NoRequest EXCEPT !.path = "fragment"]  \* a part of a request

ASSUME SentAssumption == Sent \subseteq Requests \cup {Fragment}

(* What a path leads to when it is not a file of a size.                   *)
Absent == -1
Locked == -2
Directory == -3
Content == {Absent, Locked, Directory} \cup Sizes

(* Where a directory ends depends on the file system.                      *)
LongMax == 2147483647

ASSUME DisksAssumption == Disk \in Disks /\ Disks \subseteq [Paths -> Content]

(* The codes there are pages for; the server uses three of them.           *)
Codes == {400, 401, 403, 404, 500, 501, 502, 503}
Types == {"text_html", "text_css", "image_jpeg", "image_gif"}

Task == [pc : {"none", "unborn", "start", "recv", "look", "head", "open",
               "entity", "chunk", "reply", "close", "done"},
         arg : Clients \cup {NoClient}, client : Clients \cup {NoClient},
         req : Requests \cup {NoRequest},
         kind : {"html", "css", "jpg", "gif", "cgi"},
         code : {0} \cup Codes, open : BOOLEAN, size : Content \cup {LongMax}, at : Nat]

NewTask == [pc |-> "none", arg |-> NoClient, client |-> NoClient,
            req |-> NoRequest, kind |-> "html", code |-> 0,
            open |-> FALSE, size |-> Absent, at |-> 0]


-----------------------------------------------------------------------------
(* The parts of responses (httpResponses.c).                               *)
Part(is, n) == [is |-> is, n |-> n]
Parts == [is : {"status", "general", "length", "chunk", "text", "page"}
                 \cup Types, n : Nat]

send_general_headers == <<Part("general", 0)>>

get_content_type(kind) ==
  CASE kind = "html" -> "text_html"  [] kind = "jpg" -> "image_jpeg"
    [] kind = "gif" -> "image_gif"   [] OTHER -> "text_css"

entity_headers(kind, n) == <<Part(get_content_type(kind), 0), Part("length", n)>>

send_string_as_entity(page) == entity_headers("html", 1) \o <<Part("page", page)>>

ok_head == <<Part("status", 200)>> \o send_general_headers

full_error(code) ==
  <<Part("status", code)>> \o send_general_headers \o send_string_as_entity(code)

simple_error(code) == <<Part("page", code)>>

-----------------------------------------------------------------------------
TypeOK ==
  /\ up \in BOOLEAN
  /\ num_connections \in 0 .. MaxConnections + 1
  /\ new_socket \in Clients \cup {NoClient}
  /\ task \in [Tasks -> Task] /\ resp \in [Tasks -> Seq(Parts)]
  /\ conn \in [Clients -> {"none", "queued", "open", "closed"}]
  /\ asked \in [Clients -> Sent \cup {NoRequest}]
  /\ gone \subseteq Clients /\ stalled \subseteq Clients /\ lapses \in 0 .. MaxLapses
  /\ disk \in [Paths -> Content] /\ changes \in 0 .. MaxChanges
  /\ touched \subseteq Tasks

Init ==
  /\ up = TRUE /\ num_connections = 0 /\ new_socket = NoClient
  /\ task = [h \in Tasks |-> NewTask]
  /\ resp = [h \in Tasks |-> <<>>]
  /\ conn = [c \in Clients |-> "none"]
  /\ asked = [c \in Clients |-> NoRequest] /\ gone = {} /\ stalled = {}
  /\ lapses = 0
  /\ disk = Disk /\ changes = 0 /\ touched = {}

-----------------------------------------------------------------------------
(* Descriptors: a connection holds one until its thread closes it, and a   *)
(* file that is sent holds one for good, for nobody closes it.             *)
OpenConnections == {c \in Clients : conn[c] = "open"}
Used == Cardinality(OpenConnections) + Cardinality({h \in Tasks : task[h].open})
CanOpen == Used < MaxOpen

(* The loop of main.  Mutant: it goes round once more.                     *)
LoopOnceMore == num_connections <= MaxConnections + 1
LoopOn == num_connections <= MaxConnections

(* The thread is given the descriptor itself.  Mutant: the variable of     *)
(* main that holds it.                                                     *)
NewSocket(h) == new_socket
Passed(h) == task[h].arg

(* handle_request closes the connection.  Mutant: it does not.             *)
LeaveOpen(c) == UNCHANGED conn
CloseClient(c) ==
  conn' = IF c = NoClient THEN conn ELSE [conn EXCEPT ![c] = "closed"]

(* After an error page the response is over.  Mutant: a return is missing. *)
ReplyGoesOn == "entity"
AfterReply == "close"

(* A graphics file is sent in chunks until it is all sent.  Mutant: one    *)
(* chunk is sent.                                                          *)
AfterOneChunk == "close"
AfterChunk == "chunk"

-----------------------------------------------------------------------------
(* What a thread is after a step: as t says, elsewhere in its program, or  *)
(* about to send an error page.                                            *)
Goes(h, t) == task' = [task EXCEPT ![h] = t]
GoesTo(h, p) == Goes(h, [task[h] EXCEPT !.pc = p])
Fails(h, t, n) == Goes(h, [t EXCEPT !.pc = "reply", !.code = n])

(* main.  pthread_create may fail, the more so as nobody joins the threads *)
(* that have ended; then nobody closes the connection either.              *)
Create(c) ==
  /\ new_socket' = c /\ num_connections' = num_connections + 1
  /\ \E p \in {"start", "unborn"} :
       Goes(num_connections + 1, [NewTask EXCEPT !.arg = c, !.pc = p])
  /\ UNCHANGED <<up, resp, clientVars, diskVars>>

Accept(c) ==
  /\ up /\ LoopOn /\ CanOpen
  /\ conn[c] = "queued" /\ conn' = [conn EXCEPT ![c] = "open"]
  /\ Create(c)

(* Without a descriptor accept fails at once, and a thread is created for  *)
(* its result of -1 all the same.                                          *)
AcceptFails ==
  /\ up /\ LoopOn /\ ~CanOpen
  /\ Create(NoClient) /\ UNCHANGED conn

(* The process ends, with all its threads and descriptors.                 *)
ProcessEnds ==
  /\ up' = FALSE /\ task' = [h \in Tasks |-> NewTask]
  /\ conn' = [c \in Clients |-> IF conn[c] = "none" THEN "none" ELSE "closed"]
  /\ UNCHANGED <<mainVars, resp, clientVars, diskVars>>

MainReturns == up /\ ~LoopOn /\ ProcessEnds

-----------------------------------------------------------------------------
(* handle_request.                                                         *)
At(h, p) == up /\ task[h].pc = p
Full(h) == ~task[h].req.simple
Least(a, b) == IF a < b THEN a ELSE b

Start(h) ==
  /\ At(h, "start")
  /\ Goes(h, [task[h] EXCEPT !.pc = "recv", !.client = Passed(h)])
  /\ UNCHANGED <<up, mainVars, resp, conn, clientVars, diskVars>>

(* What recv leaves in the buffer.  When it is not one whole request, what *)
(* populate_request makes of it depends on bytes that were never set.      *)
Received(h) ==
  LET c == task[h].client
  IN  IF c = NoClient \/ c \in gone \/ asked[c] = Fragment
        THEN Requests ELSE Requests \cap {asked[c]}

Asked(h, r, k) == [task[h] EXCEPT !.req = r, !.kind = k]

(* file_type compares four characters of which it has set three, so that   *)
(* it may miss.                                                            *)
Receive(h) ==
  /\ At(h, "recv")
  /\ \E r \in Received(h) : \E k \in {Kind[r.path], "html"} :
       \/ /\ k = "cgi" \/ ~r.get
          /\ Fails(h, Asked(h, r, k), 501)
       \/ /\ k # "cgi" /\ r.get
          /\ Goes(h, [Asked(h, r, k) EXCEPT !.pc = "look"])
  /\ UNCHANGED <<up, mainVars, resp, conn, clientVars, diskVars>>

(* send_get_response.                                                      *)
LookUp(h) ==
  /\ At(h, "look")
  /\ \/ /\ disk[task[h].req.path] = Absent
        /\ Fails(h, task[h], 404)
     \/ /\ disk[task[h].req.path] # Absent
        /\ GoesTo(h, IF Full(h) THEN "head" ELSE "open")
  /\ UNCHANGED <<up, mainVars, resp, conn, clientVars, diskVars>>

(* Parts are written to the client: it waits while the client does not     *)
(* read, and they are lost when there is no client or it has gone.         *)
Write(h, parts) ==
  IF task[h].client \in Clients \ gone
    THEN task[h].client \notin stalled /\ resp' = [resp EXCEPT ![h] = @ \o parts]
    ELSE UNCHANGED resp

(* full_ok: status line and general headers.                               *)
SendHead(h) ==
  /\ At(h, "head")
  /\ Write(h, ok_head)
  /\ GoesTo(h, "open")
  /\ UNCHANGED <<up, mainVars, conn, clientVars, diskVars>>

(* The error page of a code, in full or as the page alone.                 *)
Reply(h) ==
  /\ At(h, "reply")
  /\ Write(h, IF Full(h) THEN full_error(task[h].code)
                         ELSE simple_error(task[h].code))
  /\ GoesTo(h, AfterReply)
  /\ UNCHANGED <<up, mainVars, conn, clientVars, diskVars>>

(* send_text_file and send_graphics_file open the file; the latter looks   *)
(* at its size at once, and takes an empty file for an error.              *)
Graphic(h) == task[h].kind \in {"jpg", "gif"}
Measured(h, s) ==
  IF Graphic(h) /\ s = Directory THEN {s, LongMax} ELSE {s}

Opens(h, s) == [task[h] EXCEPT !.open = TRUE, !.size = s]
Usable(h, s) == Graphic(h) => s > 0

Open(h) ==
  /\ At(h, "open")
  /\ \E s \in Measured(h, disk[task[h].req.path]) :
       LET opened == CanOpen /\ s \notin {Absent, Locked}
       IN  \/ /\ ~opened
              /\ Fails(h, task[h], 500)
           \/ /\ opened /\ ~Usable(h, s)
              /\ Fails(h, Opens(h, s), 500)
           \/ /\ opened /\ Usable(h, s)
              /\ Goes(h, [Opens(h, s) EXCEPT !.pc = "entity"])
  /\ UNCHANGED <<up, mainVars, resp, conn, clientVars, diskVars>>

Headers(h, n) == IF Full(h) THEN entity_headers(task[h].kind, n) ELSE <<>>

(* The rest of send_text_file.  It sends its buffer up to the first zero   *)
(* byte, which nobody has set, so that how much follows is not counted.    *)
SendText(h) ==
  /\ At(h, "entity") /\ ~Graphic(h)
  /\ LET n == Least(task[h].size, TextCap)
     IN  \/ /\ n < 0
            /\ Fails(h, task[h], 500)
            /\ UNCHANGED resp
         \/ /\ n >= 0
            /\ Write(h, Headers(h, n) \o <<Part("text", 0)>>)
            /\ GoesTo(h, "close")
  /\ UNCHANGED <<up, mainVars, conn, clientVars, diskVars>>

(* The rest of send_graphics_file: the headers, then the chunks.  Nothing  *)
(* can be read from a directory.                                           *)
SendGraphic(h) ==
  /\ At(h, "entity") /\ Graphic(h)
  /\ \/ Full(h) /\ Write(h, Headers(h, task[h].size))
     \/ ~Full(h) /\ UNCHANGED resp
  /\ GoesTo(h, "chunk")
  /\ UNCHANGED <<up, mainVars, conn, clientVars, diskVars>>

Left(h) == IF task[h].size = LongMax THEN 0 ELSE task[h].size - task[h].at

SendChunk(h) ==
  /\ At(h, "chunk")
  /\ LET n == Least(Left(h), ChunkCap)
     IN  \/ /\ n <= 0
            /\ GoesTo(h, "close") /\ UNCHANGED resp
         \/ /\ n > 0
            /\ Write(h, <<Part("chunk", n)>>)
            /\ Goes(h, [task[h] EXCEPT !.at = task[h].at + n, !.pc = AfterChunk])
  /\ UNCHANGED <<up, mainVars, conn, clientVars, diskVars>>

Close(h) ==
  /\ At(h, "close")
  /\ CloseClient(task[h].client)
  /\ GoesTo(h, "done")
  /\ UNCHANGED <<up, mainVars, resp, clientVars, diskVars>>

(* A write to a client that has gone may raise SIGPIPE, which nobody       *)
(* handles: it ends the process.                                           *)
BrokenPipe(h) ==
  /\ up /\ task[h].pc \in {"head", "reply", "entity", "chunk"}
  /\ task[h].client \in gone /\ ProcessEnds

-----------------------------------------------------------------------------
(* The clients.  What one sends before its connection has been accepted is *)
(* as if it sent it just afterwards.                                       *)
Connect(c) ==
  /\ up /\ conn[c] = "none" /\ conn' = [conn EXCEPT ![c] = "queued"]
  /\ UNCHANGED <<up, mainVars, task, resp, clientVars, diskVars>>

Connected(c) == up /\ conn[c] \in {"queued", "open"} /\ c \notin gone

Ask(c) ==
  /\ Connected(c) /\ conn[c] = "open" /\ asked[c] = NoRequest
  /\ \E r \in Sent : asked' = [asked EXCEPT ![c] = r]
  /\ UNCHANGED <<up, mainVars, task, resp, conn, gone, stalled, lapses, diskVars>>

Lapse == lapses < MaxLapses /\ lapses' = lapses + 1

HangUp(c) ==
  /\ Connected(c) /\ Lapse
  /\ gone' = gone \cup {c} /\ stalled' = stalled \ {c}
  /\ UNCHANGED <<up, mainVars, task, resp, conn, asked, diskVars>>

Stall(c) ==
  /\ Connected(c) /\ c \notin stalled /\ Lapse
  /\ stalled' = stalled \cup {c}
  /\ UNCHANGED <<up, mainVars, task, resp, conn, asked, gone, diskVars>>

ReadOn(c) ==
  /\ Connected(c) /\ c \in stalled /\ stalled' = stalled \ {c}
  /\ UNCHANGED <<up, mainVars, task, resp, conn, asked, gone, lapses, diskVars>>

(* A file changes: in place, which shows in the threads that have it open, *)
(* or by another that takes its name.                                      *)
Serving(p) == {h \in Tasks : task[h].open /\ task[h].size \in Sizes
                             /\ task[h].req.path = p}

Becomes(p, s) ==
  /\ up /\ changes < MaxChanges /\ changes' = changes + 1
  /\ disk[p] # s /\ disk' = [disk EXCEPT ![p] = s] /\ disk' \in Disks

FileReplaced(p, s) ==
  /\ Becomes(p, s)
  /\ UNCHANGED <<up, mainVars, task, resp, conn, clientVars, touched>>

FileRewritten(p, s) ==
  /\ Becomes(p, s) /\ {disk[p], s} \subseteq Sizes
  /\ task' = [h \in Tasks |->
                IF h \in Serving(p) THEN [task[h] EXCEPT !.size = s]
                                    ELSE task[h]]
  /\ touched' = touched \cup Serving(p)
  /\ UNCHANGED <<up, mainVars, resp, conn, clientVars>>

-----------------------------------------------------------------------------
Main == (\E c \in Clients : Accept(c)) \/ AcceptFails \/ MainReturns

handle_request(h) ==
  \/ Start(h) \/ Receive(h) \/ LookUp(h) \/ SendHead(h) \/ Reply(h)
  \/ Open(h) \/ SendText(h) \/ SendGraphic(h) \/ SendChunk(h) \/ Close(h)

Client(c) == Connect(c) \/ Ask(c) \/ HangUp(c) \/ Stall(c) \/ ReadOn(c)

Files == \E p \in Paths, s \in Content : FileReplaced(p, s) \/ FileRewritten(p, s)

Next ==
  \/ Main \/ Files
  \/ \E h \in Tasks : handle_request(h) \/ BrokenPipe(h)
  \/ \E c \in Clients : Client(c)

Spec == Init /\ [][Next]_vars

(* main and the threads run when they can; what clients do is theirs.      *)
Fairness == WF_vars(Main) /\ \A h \in Tasks : WF_vars(handle_request(h))

FairSpec == Spec /\ Fairness

-----------------------------------------------------------------------------
(* Every connection is answered by one thread: main may have gone on to    *)
(* the next connection before the thread has started, and still no two     *)
(* threads write to the same client (main passes the descriptor itself).   *)
OneThreadEach ==
  \A g, h \in Tasks :
    task[g].client = task[h].client /\ task[h].client # NoClient => g = h

(* A full response is one status line, its headers and one entity of the   *)
(* type asked for, in this order, or its beginning, whatever happens to    *)
(* the file meanwhile; only when the file was there and then cannot be     *)
(* sent, an error follows the first head.  A simple response is an entity  *)
(* or a page alone (full_ok, send_file_as_entity, the error responses).    *)
Entity(parts) == \A n \in DOMAIN parts : parts[n].is \in {"chunk", "text"}
Announced(h, n) == ok_head \o entity_headers(task[h].kind, n)
Announces == Sizes \cup {LongMax, TextCap}

Answers(h) ==
  LET r    == resp[h]
      rest == SubSeq(r, 5, Len(r))
  IN  IF Full(h)
        THEN \/ r \in {<<>>, ok_head, ok_head \o full_error(500)}
             \/ \E c \in {404, 501} : r = full_error(c)
             \/ Entity(rest) /\ \E n \in Announces : r = Announced(h, n) \o rest
        ELSE Entity(r) \/ \E c \in {404, 500, 501} : r = simple_error(c)

OneAnswer == up => \A h \in Tasks : Answers(h)

(* A graphics file that does not change while it is sent is sent whole,    *)
(* however many chunks it takes, and with its length (send_graphics_file). *)
Carried(parts) ==
  LET sum[n \in 0 .. Len(parts)] ==
        IF n = 0 THEN 0
        ELSE sum[n - 1] + (IF parts[n].is = "chunk" THEN parts[n].n ELSE 0)
  IN  sum[Len(parts)]

HasLength(h) == \E n \in DOMAIN resp[h] : resp[h][n] = Part("length", task[h].size)

SentWhole(h) == Carried(resp[h]) = task[h].size /\ (Full(h) => HasLength(h))

GraphicsWhole ==
  \A h \in Tasks \ touched :
    /\ task[h].pc = "close" /\ Graphic(h) /\ task[h].code = 0
    /\ task[h].size # LongMax
    /\ task[h].client \in Clients \ gone
    => SentWhole(h)

(* A client that connects is served: its connection is accepted, and once  *)
(* it has sent anything it is answered and the connection closed, also     *)
(* while another does not read or sends nothing, and when accept runs out  *)
(* of descriptors.  This fails only when the server ends, the thread could *)
(* not be created, or the client itself does not read or goes (main,       *)
(* handle_request).                                                        *)
Unborn(c) == \E h \in Tasks : task[h].pc = "unborn" /\ task[h].arg = c

Served(c) == \/ conn[c] = "closed" \/ ~up
             \/ conn[c] = "open" /\ asked[c] = NoRequest
             \/ c \in gone \cup stalled \/ Unborn(c)

ClientsServed == \A c \in Clients : conn[c] \in {"queued", "open"} ~> Served(c)

(* "The 200 OK response works for all text/html, text/css ... file types"  *)
(* (README.md): a text that does not change is announced with its length.  *)
TextsWhole ==
  \A h \in Tasks \ touched :
    /\ task[h].pc = "close" /\ ~Graphic(h) /\ task[h].code = 0 /\ Full(h)
    /\ task[h].size \in Sizes /\ task[h].client \in Clients \ gone
    => HasLength(h)

=============================================================================
