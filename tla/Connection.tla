----------------------------- MODULE Connection -----------------------------
(***************************************************************************)
(* A body's end of the connected runtime: useRuntimeConnection and the     *)
(* RuntimeClient it holds (apps/web), with the server's end of the socket  *)
(* and of the one question asked over HTTP at each connect (getUI).        *)
(*                                                                         *)
(* Every switch to the connected runtime makes a client; a client opens a  *)
(* socket and, when it closes, another after a while.  A body of the       *)
(* server is the number of its version, from 1; 0 is the body of the local *)
(* core.  Frames that are not a ui_patch change nothing here.              *)
(***************************************************************************)
EXTENDS Naturals, Sequences, SequencesExt

CONSTANTS
  MaxAttempts,   \* failed reconnects after which a client gives up (5)
  MaxClients,    \* bound: switches to the connected runtime
  MaxBodies,     \* bound: versions of the server's body
  Embedded,      \* the page connects when it is mounted (?connect=1)
  Strict         \* React mounts every effect twice (reactStrictMode, in development)

ConnectionAssumption ==
  /\ MaxAttempts \in Nat /\ MaxClients \in Nat \ {0} /\ MaxBodies \in Nat \ {0}
  /\ Embedded \in BOOLEAN /\ Strict \in BOOLEAN

VARIABLES
  mode,        \* "local" or "connected"
  connected,   \* what the body says of its socket
  switching,   \* a switch is waiting for getUI
  current,     \* the client the body holds, 0 for none
  made,        \* clients made so far
  manual, attempts, timer,   \* of each client: manualClose, attempts, a reconnect to come
  socket,      \* of each client: where its socket is
  frames,      \* of each client: the patches on their way to it, oldest first
  asked,       \* the getUI under way: who asked, and the body it was answered with
  shown,       \* the body on the screen
  body,        \* the server's body
  missed,      \* a patch was made or lost while nobody here could hear it     (history)
  overtaken    \* an answer to getUI put an older body over a newer one        (history)

clientVars == <<manual, attempts, timer, socket, frames>>
history == <<missed, overtaken>>
vars == <<mode, connected, switching, current, made, clientVars, asked, shown, body, history>>

Clients == 1..MaxClients
Live == {"connecting", "accepted", "open"}   \* accepted: the server broadcasts to it
NoQuestion == [by |-> 0, answer |-> 0]

-----------------------------------------------------------------------------
(* RuntimeClient *)

\* disconnect: no frame is heard after it; the close event comes later.
DisconnectLeftOpen(c) ==
  /\ socket' = [socket EXCEPT ![c] = IF @ \in Live THEN "closing" ELSE @]
  /\ frames' = [frames EXCEPT ![c] = <<>>]
  /\ UNCHANGED <<manual, attempts, timer>>
Disconnect(c) ==
  /\ manual' = [manual EXCEPT ![c] = TRUE]
  /\ socket' = [socket EXCEPT ![c] = IF @ \in Live THEN "closing" ELSE @]
  /\ frames' = [frames EXCEPT ![c] = <<>>]
  /\ UNCHANGED <<attempts, timer>>

\* scheduleReconnect, in the close event of a socket.
WillRetryForEver(c) == ~manual[c]
WillRetry(c) == ~manual[c] /\ attempts[c] < MaxAttempts
OnClose(c) ==
  /\ socket' = [socket EXCEPT ![c] = "none"]
  /\ frames' = [frames EXCEPT ![c] = <<>>]
  /\ connected' = FALSE
  /\ timer' = [timer EXCEPT ![c] = WillRetry(c)]
  /\ attempts' = [attempts EXCEPT ![c] = IF WillRetry(c) THEN @ + 1 ELSE @]
  /\ UNCHANGED manual

Accepted(c) ==
  /\ socket[c] = "connecting"
  /\ socket' = [socket EXCEPT ![c] = "accepted"]
  /\ UNCHANGED <<mode, connected, switching, current, made, manual, attempts, timer, frames, asked, shown, body, history>>

Opens(c) ==
  /\ socket[c] = "accepted"
  /\ socket' = [socket EXCEPT ![c] = "open"] /\ attempts' = [attempts EXCEPT ![c] = 0]
  /\ connected' = TRUE
  /\ UNCHANGED <<mode, switching, current, made, manual, timer, frames, asked, shown, body, history>>

\* The socket fails, or the server goes away.
Lost(c) ==
  /\ socket[c] \in Live
  /\ OnClose(c)
  /\ missed' = (missed \/ frames[c] # <<>>)
  /\ UNCHANGED <<mode, switching, current, made, asked, shown, body, overtaken>>

\* The close event of a socket that was disconnected.
Closed(c) ==
  /\ socket[c] = "closing"
  /\ OnClose(c)
  /\ UNCHANGED <<mode, switching, current, made, asked, shown, body, history>>

Reconnect(c) ==
  /\ timer[c]
  /\ timer' = [timer EXCEPT ![c] = FALSE]
  /\ socket' = [socket EXCEPT ![c] = IF manual[c] THEN @ ELSE "connecting"]
  /\ UNCHANGED <<mode, connected, switching, current, made, manual, attempts, frames, asked, shown, body, history>>

Deliver(c) ==
  /\ socket[c] = "open" /\ frames[c] # <<>>
  /\ shown' = Head(frames[c])
  /\ frames' = [frames EXCEPT ![c] = Tail(@)]
  /\ UNCHANGED <<mode, connected, switching, current, made, manual, attempts, timer, socket, asked, body, history>>

-----------------------------------------------------------------------------
(* The server *)

\* A morph, an undo or a redo: broadcast to every socket it has accepted.
Patched ==
  /\ body < MaxBodies /\ body' = body + 1
  /\ frames' = [c \in Clients |-> IF socket[c] \in {"accepted", "open"} THEN Append(frames[c], body') ELSE frames[c]]
  /\ missed' = (missed \/ (/\ current # 0 /\ socket[current] \notin {"accepted", "open"}
                          /\ ~(asked.by = current /\ asked.answer = 0)))
  /\ UNCHANGED <<mode, connected, switching, current, made, manual, attempts, timer, socket, asked, shown, overtaken>>

Answer ==
  /\ asked.by # 0 /\ asked.answer = 0
  /\ asked' = [asked EXCEPT !.answer = body]
  /\ UNCHANGED <<mode, connected, switching, current, made, clientVars, shown, body, history>>

-----------------------------------------------------------------------------
(* useRuntimeConnection *)

\* The client of a new switch, whose socket is opened and whose body is asked for.
Connect ==
  /\ made < MaxClients /\ made' = made + 1
  /\ switching' = TRUE /\ mode' = "connected"
  /\ asked' = [by |-> made', answer |-> 0]
  /\ UNCHANGED <<connected, manual, attempts, timer, frames, shown, body, history>>

\* toggleMode is let through one at a time.
SwitchToServer ==
  /\ ~switching /\ mode = "local" /\ (Embedded => made > 0)
  /\ Connect
  /\ current' = made' /\ socket' = [socket EXCEPT ![made'] = "connecting"]

\* An embedded page connects in the effect of its mount.  Where effects are mounted
\* twice, the cleanup of the first mount disconnects it, and the second is turned away:
\* the first switch is still under way.
Mount ==
  /\ Embedded /\ made = 0
  /\ IF Strict
     THEN /\ made' = 1 /\ switching' = TRUE /\ mode' = "connected"
          /\ asked' = [by |-> 1, answer |-> 0]
          /\ current' = 0 /\ manual' = [manual EXCEPT ![1] = TRUE]
          /\ socket' = [socket EXCEPT ![1] = "closing"]
          /\ UNCHANGED <<connected, attempts, timer, frames, shown, body, history>>
     ELSE /\ Connect
          /\ current' = made' /\ socket' = [socket EXCEPT ![made'] = "connecting"]

SwitchToLocal ==
  /\ ~switching /\ mode = "connected"
  /\ mode' = "local" /\ connected' = FALSE /\ current' = 0 /\ shown' = 0
  /\ IF current # 0 THEN Disconnect(current) ELSE UNCHANGED clientVars
  /\ missed' = FALSE /\ overtaken' = FALSE
  /\ UNCHANGED <<switching, made, asked, body>>

\* The answer to getUI is put on the screen, unless its client was given up meanwhile.
\* A question that fails, or is answered with what this build cannot read, changes nothing.
GotUI(readable) ==
  /\ asked.by # 0 /\ (readable => asked.answer # 0)
  /\ switching' = FALSE /\ asked' = NoQuestion
  /\ LET taken == readable /\ current = asked.by IN
     /\ shown' = IF taken THEN asked.answer ELSE shown
     /\ overtaken' = (overtaken \/ (taken /\ asked.answer < shown))
     /\ missed' = (missed \/ (~taken /\ shown < body))
  /\ UNCHANGED <<mode, connected, current, made, clientVars, body>>

-----------------------------------------------------------------------------
Init ==
  /\ mode = "local" /\ connected = FALSE /\ switching = FALSE
  /\ current = 0 /\ made = 0
  /\ manual = [c \in Clients |-> FALSE] /\ attempts = [c \in Clients |-> 0]
  /\ timer = [c \in Clients |-> FALSE]
  /\ socket = [c \in Clients |-> "none"] /\ frames = [c \in Clients |-> <<>>]
  /\ asked = NoQuestion /\ shown = 0 /\ body = 1
  /\ missed = FALSE /\ overtaken = FALSE

Next ==
  \/ Mount \/ SwitchToServer \/ SwitchToLocal \/ Patched \/ Answer
  \/ \E b \in BOOLEAN : GotUI(b)
  \/ \E c \in Clients : Accepted(c) \/ Opens(c) \/ Lost(c) \/ Closed(c) \/ Reconnect(c) \/ Deliver(c)

\* Timers fire, sockets open or fail, and the question is answered or fails.
Fairness ==
  /\ \A c \in Clients : WF_vars(Accepted(c)) /\ WF_vars(Opens(c)) /\ WF_vars(Closed(c)) /\ WF_vars(Reconnect(c))
  /\ WF_vars(Answer) /\ WF_vars(\E b \in BOOLEAN : GotUI(b))

Spec == Init /\ [][Next]_vars
FairSpec == Spec /\ Fairness

-----------------------------------------------------------------------------
(* Properties *)

TypeOK ==
  /\ mode \in {"local", "connected"} /\ connected \in BOOLEAN /\ switching \in BOOLEAN
  /\ current \in 0..made /\ made \in 0..MaxClients
  /\ manual \in [Clients -> BOOLEAN] /\ timer \in [Clients -> BOOLEAN]
  /\ attempts \in [Clients -> 0..MaxAttempts]
  /\ socket \in [Clients -> Live \cup {"none", "closing"}]
  /\ \A c \in Clients : ToSet(frames[c]) \subseteq 1..body
  /\ asked.by \in 0..made /\ asked.answer \in 0..body
  /\ shown \in 0..body /\ body \in 1..MaxBodies

\* "Two sockets pushing patches into one body" (toggleMode): whatever was switched, lost
\* and reconnected, the only socket that can bring a patch is that of the held client.
OneSocketFeedsTheBody == \A c \in Clients : socket[c] \in Live => c = current

\* The local core's body is never replaced by one the server pushed or answered with.
LocalBodyIsLocal == mode = "local" => shown = 0

\* A body says it is connected only while the socket of its client is open.
NeverClaimsUp == connected => current # 0 /\ socket[current] = "open"

\* A client is not left with nothing under way before it has failed as often as it may:
\* its socket is up or coming, or a reconnect is.
NeverSilentlyDown ==
  current # 0 => \/ socket[current] \in Live \/ timer[current]
                 \/ attempts[current] = MaxAttempts

\* A client whose socket is up has all its attempts before it, however often it failed on the way
\* there and in whatever order late closings and openings came (runtimeClient.ts, onopen).
AttemptsBeginAnew == \A c \in Clients : socket[c] = "open" => attempts[c] = 0

\* When nothing is on its way, the body on the screen is the server's, but for the two
\* ways it has of falling behind: a patch nobody here could hear, which no reconnect asks
\* for, and an answer to getUI older than the patch it overwrites.
SettledBodyIsTheServers ==
  /\ current # 0 /\ asked.by = 0 /\ socket[current] = "open" /\ frames[current] = <<>>
  /\ ~missed /\ ~overtaken
  => shown = body

\* The body of a page is the server's while it may be: one socket feeds it, it does not claim
\* to be connected when it is not, it is not left behind in silence, and a connection that was up
\* is tried for as often as the first.
BodyIsTheServers ==
  /\ OneSocketFeedsTheBody /\ LocalBodyIsLocal /\ NeverClaimsUp
  /\ NeverSilentlyDown /\ AttemptsBeginAnew /\ SettledBodyIsTheServers

\* A switch comes to an end: only then may there be another. It waits for the answer to getUI,
\* which nothing times out (runtimeClient.ts:405): that the answer, or its failure, comes some
\* time is the fairness of Answer, and a server that accepts and never answers is not modelled.
SwitchEnds == switching ~> ~switching

\* A body that switched to the server is connected some time, or its client gives up
\* having failed as often as it may, or the person goes back.
GetsThere ==
  (mode = "connected" /\ current # 0) ~>
    (mode = "local" \/ socket[current] = "open" \/ attempts[current] = MaxAttempts)

\* "Whether its socket is up" (useRuntimeConnection): the body of an open socket says so.
StatusIsTheSockets == current # 0 /\ socket[current] = "open" => connected

\* "Connect to the runtime once" (the embedded body's effect): a body in the connected
\* mode holds a client.
ConnectedHasAClient == mode = "connected" => current # 0
=============================================================================
