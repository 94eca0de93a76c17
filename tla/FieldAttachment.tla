-------------------------- MODULE FieldAttachment --------------------------
(***************************************************************************)
(* The write-ownership protocol between the plant server and its           *)
(* attachments: crates/dcs-sim-net/src/server.rs (the claim and its        *)
(* arbitration) and crates/dcs-sim-net/src/client.rs (RemoteDriver: the    *)
(* lazily re-attached link, the recorded owner token, the re-arm of an     *)
(* unclaimed field), driven by the threads of a controller process.        *)
(*                                                                         *)
(* A RemoteDriver serialises its exchanges under the connection mutex, but *)
(* reads and writes its recorded token in separate critical sections, so   *)
(* one call is the steps Start, Send, (Attached,) Receive, Settle here.    *)
(* Any exchange may time out after the request left: the server may still  *)
(* execute it.  The link can end, the server can restart with no claim,    *)
(* and a process can die, all at any step.                                 *)
(*                                                                         *)
(* A controller's scan thread and its monitor's HTTP threads share one     *)
(* driver.  The Monitor mutex serialises their calls, except the plant     *)
(* step, which scan_loop runs outside it.                                  *)
(***************************************************************************)
EXTENDS WriterClaim, Naturals

CONSTANTS Drivers,      \* one RemoteDriver per process
          Controllers,  \* those whose claims carry the controller marker
          TokenOf,      \* the owner token each process claims under
          Http,         \* drivers whose process also serves switchover calls
          Uses,         \* bound: the calls each process makes in this instance
          NoConn,       \* "no stream"
          NoDriver,     \* "no client end": a connection that is down
          MaxFaults     \* bound: link faults, server restarts and crashes

Threads == {"scan", "http"}

Releases == {"yield", "release"}
Grants   == {"claim", "unlessHeld", "ensure", "reclaim"}

\* "mutate" is a Step or a Write (one claim check, one re-arm, one retry);
\* "probe" stands for every request the claim does not arbitrate (Read, Ping,
\* ListPoints, ProbeWriter): it matters for the re-attach it triggers.
Ops == Releases \cup Grants \cup {"unbound", "probe", "mutate"}

ASSUME DriverAssumption ==
    /\ TokenOf \in [Drivers -> Tokens]
    /\ Controllers \subseteq Drivers
    /\ Http \subseteq Controllers
    /\ Uses \in [Drivers -> SUBSET Ops]
    /\ NoDriver \notin Drivers
    /\ NoConn \notin Conns
    /\ MaxFaults \in Nat

\* dcs-plant-ctl claims under its own fixed TOOL_OWNER, a controller under a
\* token of its process.
ASSUME ToolAssumption ==
    \A d \in Controllers, e \in Drivers \ Controllers : TokenOf[d] # TokenOf[e]

VARIABLES
    claim,   \* Shared.writer
    up,      \* up[c]: the server still serves connection c
    dialer,  \* dialer[c]: the process at the client end of connection c
    wire,    \* wire[c]: the request or the response in flight on c
    stream,  \* Connection.stream of each driver, by server-side id
    owner,   \* Connection.owner: the recorded token
    lock,    \* the thread inside `request`, holding the connection mutex
    call,    \* call[d][t]: the RemoteDriver method thread t runs
    writer,  \* the token behind the last mutation the plant accepted
    faults   \* faults so far

vars == <<claim, up, dialer, wire, stream, owner, lock, call, writer, faults>>

-----------------------------------------------------------------------------
(* Calls and messages                                                      *)

\* What a controller's hooks call (main.rs), and what a field tool calls:
\* dcs-plant-ctl ensures, mutates and releases; a foreign one claims outright.
OpsOf(d) == IF d \in Controllers THEN Ops \ {"ensure", "release"}
            ELSE {"claim", "ensure", "mutate", "release"}

Stages == {"first", "rearm", "retry"}
Phases == {"idle", "ready", "attach", "sent", "settle"}

Calls == [op : Ops, stage : Stages, phase : Phases,
          token : Tokens \cup {NoToken}, verdict : Verdicts]

NoCall == [op |-> "probe", stage |-> "first", phase |-> "idle",
           token |-> NoToken, verdict |-> "done"]

Messages == [kind : {"none", "request", "reply"}, req : Ops,
             owner : Tokens \cup {NoToken}, controller : BOOLEAN,
             verdict : Verdicts]

Silence == [kind |-> "none", req |-> "probe", owner |-> NoToken,
            controller |-> FALSE, verdict |-> "done"]

Message(req, token, d) ==
    [kind |-> "request", req |-> req, owner |-> token,
     controller |-> (d \in Controllers), verdict |-> "done"]

Response(verdict) == [Silence EXCEPT !.kind = "reply", !.verdict = verdict]

\* The request the call's current stage sends.
RequestOf(cl) == IF cl.stage = "rearm" THEN "ensure" ELSE cl.op

MessageOf(d, cl) == Message(RequestOf(cl), cl.token, d)

-----------------------------------------------------------------------------
Init ==
    /\ claim = NoClaim
    /\ up = [c \in Conns |-> FALSE]
    /\ dialer = [c \in Conns |-> NoDriver]
    /\ wire = [c \in Conns |-> Silence]
    /\ stream = [d \in Drivers |-> NoConn]
    /\ owner = [d \in Drivers |-> NoToken]
    /\ lock = [d \in Drivers |-> "free"]
    /\ call = [d \in Drivers |-> [t \in Threads |-> NoCall]]
    /\ writer = NoToken
    /\ faults = 0

-----------------------------------------------------------------------------
(* The client: RemoteDriver                                                *)

Busy(d, t) == call[d][t].phase # "idle"

\* Every call but the plant step runs under the Monitor mutex.
MonitorFree(d) == \A t \in Threads : Busy(d, t) => call[d][t].op = "mutate"

\* switchover's two calls: promote claims the field, demote yields it.
HttpOps == {"claim", "unlessHeld", "yield"}

\* A promotion needs a tracking cycle of the scan thread since the peer last
\* owned the field (promote_as), so it never overlaps that owner's step.
MayStart(d, t, op) ==
    /\ op \in OpsOf(d) \cap Uses[d]
    /\ t = "http" => /\ d \in Http
                     /\ op \in HttpOps
                     /\ op = "yield" \/ ~Busy(d, "scan")
    /\ IF op = "mutate" THEN Busy(d, "http") => call[d]["http"].op = "yield"
       ELSE MonitorFree(d)

\* Mutant: the hand-back keeps the recorded token.
StartRemembers(d, op) == owner[d]

\* The release paths forget the recorded token before they send anything.
StartOwner(d, op) == IF op \in Releases THEN NoToken ELSE owner[d]

Start(d, t, op) ==
    /\ ~Busy(d, t)
    /\ MayStart(d, t, op)
    /\ lock[d] = "free"
    /\ owner' = [owner EXCEPT ![d] = StartOwner(d, op)]
    /\ call' = [call EXCEPT ![d][t] = [NoCall EXCEPT !.op = op,
                                                     !.phase = "ready",
                                                     !.token = TokenOf[d]]]
    /\ UNCHANGED <<claim, up, dialer, wire, stream, lock, writer, faults>>

\* `request` on a live stream: the exchange holds the connection mutex.
Send(d, t) ==
    /\ call[d][t].phase = "ready"
    /\ lock[d] = "free"
    /\ stream[d] # NoConn
    /\ lock' = [lock EXCEPT ![d] = t]
    /\ wire' = IF up[stream[d]]
               THEN [wire EXCEPT ![stream[d]] = MessageOf(d, call[d][t])]
               ELSE wire
    /\ call' = [call EXCEPT ![d][t].phase = "sent"]
    /\ UNCHANGED <<claim, up, dialer, stream, owner, writer, faults>>

\* No stream: the retry window is still closed, or the connect fails.
NoLink(d, t) ==
    /\ call[d][t].phase = "ready"
    /\ lock[d] = "free"
    /\ stream[d] = NoConn
    /\ faults < MaxFaults
    /\ faults' = faults + 1
    /\ call' = [call EXCEPT ![d][t] = NoCall]
    /\ UNCHANGED <<claim, up, dialer, wire, stream, owner, lock, writer>>

FreshConn(c) == ~up[c] /\ \A d \in Drivers : stream[d] # c

\* No stream: `reattach` connects and, with a token recorded, re-asserts it
\* before the stream serves the call's own request.
Dial(d, t, c) ==
    /\ call[d][t].phase = "ready"
    /\ lock[d] = "free"
    /\ stream[d] = NoConn
    /\ FreshConn(c)
    /\ up' = [up EXCEPT ![c] = TRUE]
    /\ dialer' = [dialer EXCEPT ![c] = d]
    /\ stream' = [stream EXCEPT ![d] = c]
    /\ lock' = [lock EXCEPT ![d] = t]
    /\ wire' = [wire EXCEPT ![c] = IF owner[d] # NoToken
                                   THEN Message("ensure", owner[d], d)
                                   ELSE MessageOf(d, call[d][t])]
    /\ call' = [call EXCEPT ![d][t].phase =
                   IF owner[d] # NoToken THEN "attach" ELSE "sent"]
    /\ UNCHANGED <<claim, owner, writer, faults>>

\* A fenced re-arm keeps the link and forgets the token.
AttachedOwner(d, verdict) == IF verdict = "fenced" THEN NoToken ELSE owner[d]

\* The re-arm is answered: the stream is up and the call's request goes out.
Attached(d, t) ==
    LET c == stream[d] IN
    /\ call[d][t].phase = "attach"
    /\ wire[c].kind = "reply"
    /\ owner' = [owner EXCEPT ![d] = AttachedOwner(d, wire[c].verdict)]
    /\ wire' = [wire EXCEPT ![c] = MessageOf(d, call[d][t])]
    /\ call' = [call EXCEPT ![d][t].phase = "sent"]
    /\ UNCHANGED <<claim, up, dialer, stream, lock, writer, faults>>

(* What is left to do once the response is read, in a critical section of  *)
(* its own after the exchange's.                                           *)

\* The calls that forget the token when the field answers `fenced`.
Forgets(cl) == /\ cl.verdict = "fenced"
               /\ cl.op \in {"mutate", "ensure", "reclaim", "unbound"}

Records(cl) == /\ Granted(cl.verdict)
               /\ cl.op \in Grants \/ cl.stage = "rearm"

Unclaimed(cl) == /\ cl.op = "mutate"
                 /\ cl.stage = "first"
                 /\ cl.verdict = "unclaimed"

\* The call after its response: every other answer ends it.
Answered(cl) ==
    IF Forgets(cl) \/ Records(cl) \/ Unclaimed(cl)
    THEN [cl EXCEPT !.phase = "settle"] ELSE NoCall

Receive(d, t) ==
    LET c == stream[d] IN
    /\ call[d][t].phase = "sent"
    /\ wire[c].kind = "reply"
    /\ wire' = [wire EXCEPT ![c] = Silence]
    /\ lock' = [lock EXCEPT ![d] = "free"]
    /\ call' = [call EXCEPT
           ![d][t] = Answered([@ EXCEPT !.verdict = wire[c].verdict])]
    /\ UNCHANGED <<claim, up, dialer, stream, owner, writer, faults>>

\* A failed exchange drops the stream; what was sent stays sent.
FailExchange(d, t) ==
    LET c == stream[d] IN
    /\ call[d][t].phase \in {"attach", "sent"}
    /\ up[c] => faults < MaxFaults
    /\ faults' = IF up[c] THEN faults + 1 ELSE faults
    /\ stream' = [stream EXCEPT ![d] = NoConn]
    /\ lock' = [lock EXCEPT ![d] = "free"]
    /\ call' = [call EXCEPT ![d][t] = NoCall]
    /\ UNCHANGED <<claim, up, dialer, wire, owner, writer>>

-----------------------------------------------------------------------------
(* The answer's effect on the recorded token                               *)

\* try_rearm: an unclaimed mutation with a token recorded re-arms once.
Rearms(d, cl) == /\ Unclaimed(cl)
                 /\ owner[d] # NoToken

\* Mutant: a fenced answer leaves the token recorded.
SettledRemembers(d, cl) == IF Records(cl) THEN cl.token ELSE owner[d]

\* Mutant: a granted claim is not recorded.
SettledUnrecorded(d, cl) == IF Forgets(cl) THEN NoToken ELSE owner[d]

SettledOwner(d, cl) == IF Forgets(cl) THEN NoToken
                       ELSE IF Records(cl) THEN cl.token
                       ELSE owner[d]

NextCall(d, cl) ==
    IF Rearms(d, cl)
    THEN [cl EXCEPT !.stage = "rearm", !.phase = "ready", !.token = owner[d],
                      !.verdict = "done"]
    ELSE IF cl.stage = "rearm" /\ Granted(cl.verdict)
    THEN [cl EXCEPT !.stage = "retry", !.phase = "ready", !.verdict = "done"]
    ELSE NoCall

Settle(d, t) ==
    /\ call[d][t].phase = "settle"
    /\ lock[d] = "free"
    /\ owner' = [owner EXCEPT ![d] = SettledOwner(d, call[d][t])]
    /\ call' = [call EXCEPT ![d][t] = NextCall(d, call[d][t])]
    /\ UNCHANGED <<claim, up, dialer, wire, stream, lock, writer, faults>>

-----------------------------------------------------------------------------
(* The server                                                              *)

\* `dispatch`, under the writer mutex.
Arbitrate(c, m) ==
    CASE m.req = "claim"      -> ClaimWriter(claim, m.owner, c, m.controller)
      [] m.req = "unlessHeld" -> ClaimWriterUnlessHeld(claim, m.owner, c)
      [] m.req = "reclaim"    -> ReclaimWriter(claim, m.owner, c)
      [] m.req = "ensure"     -> EnsureWriter(claim, m.owner, c, TRUE, m.controller)
      [] m.req = "unbound"    -> EnsureWriter(claim, m.owner, c, FALSE, m.controller)
      [] m.req = "yield"      -> ReleaseWriter(claim, c, TRUE)
      [] m.req = "release"    -> ReleaseWriter(claim, c, FALSE)
      [] m.req \in {"probe", "mutate"} -> Reply(claim, MutationVerdict(claim, c))

Accepted(c, m) == m.req = "mutate" /\ MutationVerdict(claim, c) = "done"

Dispatch(c) ==
    LET m == wire[c]
        r == Arbitrate(c, m) IN
    /\ up[c]
    /\ m.kind = "request"
    /\ claim' = r.claim
    /\ wire' = [wire EXCEPT ![c] = Response(r.verdict)]
    /\ writer' = IF Accepted(c, m) THEN TokenOf[dialer[c]] ELSE writer
    /\ UNCHANGED <<up, dialer, stream, owner, lock, call, faults>>

Attachment(c) == \E d \in Drivers : stream[d] = c

\* A connection's end, met in serve_connection's read: the hold is dropped,
\* the claim stands.  With the client still attached it is a link fault.
CloseConn(c) ==
    /\ up[c]
    /\ Attachment(c) => faults < MaxFaults
    /\ faults' = IF Attachment(c) THEN faults + 1 ELSE faults
    /\ up' = [up EXCEPT ![c] = FALSE]
    /\ dialer' = [dialer EXCEPT ![c] = NoDriver]
    /\ wire' = [wire EXCEPT ![c] = Silence]
    /\ claim' = ReleaseHold(claim, c)
    /\ UNCHANGED <<stream, owner, lock, call, writer>>

\* The plant server restarts: its claim state is memory only.
Restart ==
    /\ faults < MaxFaults
    /\ faults' = faults + 1
    /\ claim' = NoClaim
    /\ up' = [c \in Conns |-> FALSE]
    /\ dialer' = [c \in Conns |-> NoDriver]
    /\ wire' = [c \in Conns |-> Silence]
    /\ UNCHANGED <<stream, owner, lock, call, writer>>

\* A controller or tool process dies and comes back with nothing recorded.
Crash(d) ==
    /\ faults < MaxFaults
    /\ faults' = faults + 1
    /\ stream' = [stream EXCEPT ![d] = NoConn]
    /\ owner' = [owner EXCEPT ![d] = NoToken]
    /\ lock' = [lock EXCEPT ![d] = "free"]
    /\ call' = [call EXCEPT ![d] = [t \in Threads |-> NoCall]]
    /\ UNCHANGED <<claim, up, dialer, wire, writer>>

-----------------------------------------------------------------------------
Client(d) ==
    \/ \E t \in Threads : \/ \E op \in Ops : Start(d, t, op)
                          \/ Send(d, t) \/ NoLink(d, t)
                          \/ \E c \in Conns : Dial(d, t, c)
                          \/ Attached(d, t) \/ Receive(d, t)
                          \/ FailExchange(d, t) \/ Settle(d, t)
    \/ Crash(d)

Next ==
    \/ \E d \in Drivers : Client(d)
    \/ \E c \in Conns : Dispatch(c) \/ CloseConn(c)
    \/ Restart

Spec == Init /\ [][Next]_vars

-----------------------------------------------------------------------------
(* Properties                                                              *)

TypeOK ==
    /\ claim \in Claims
    /\ up \in [Conns -> BOOLEAN]
    /\ dialer \in [Conns -> Drivers \cup {NoDriver}]
    /\ wire \in [Conns -> Messages]
    /\ stream \in [Drivers -> Conns \cup {NoConn}]
    /\ owner \in [Drivers -> Tokens \cup {NoToken}]
    /\ lock \in [Drivers -> Threads \cup {"free"}]
    /\ call \in [Drivers -> [Threads -> Calls]]
    /\ writer \in Tokens \cup {NoToken}
    /\ faults \in 0..MaxFaults

\* Fencing: whatever was timed out, re-sent, re-attached or left executing on
\* an abandoned connection, every connection the field accepts mutations from
\* is live and belongs to a process of the claim's own token.
FencingSound ==
    \A c \in claim.holders : up[c] /\ TokenOf[dialer[c]] = claim.owner

\* An attachment whose token is forgotten (it released, or was fenced) and
\* that runs no call holds no part of the field's claim: what a driver
\* believes about itself never lags behind what the field would accept of it.
ForgottenNeverHolds ==
    \A d \in Drivers :
        (owner[d] = NoToken /\ \A t \in Threads : ~Busy(d, t))
            => stream[d] \notin claim.holders

-----------------------------------------------------------------------------
(* What makes FencingSound inductive                                       *)

\* Anything in flight is on a live connection, and asks for no token but its
\* dialer's.
WireSound ==
    \A c \in Conns : wire[c].kind # "none" =>
        /\ up[c]
        /\ wire[c].kind = "request" => wire[c].owner = TokenOf[dialer[c]]

\* A stream is the dialer's end of its connection for as long as that is up,
\* and nobody else's.
StreamSound ==
    /\ \A c \in Conns : up[c] => dialer[c] \in Drivers
    /\ \A d \in Drivers : stream[d] # NoConn /\ up[stream[d]]
                              => dialer[stream[d]] = d

\* A process records and re-asserts its own token only.
TokenSound ==
    \A d \in Drivers :
        /\ owner[d] \in {NoToken, TokenOf[d]}
        /\ \A t \in Threads : Busy(d, t) => call[d][t].token = TokenOf[d]

\* One exchange at a time: the thread waiting for an answer is the one that
\* holds the connection mutex, and its stream stands.
ExchangeSound ==
    \A d \in Drivers, t \in Threads :
        call[d][t].phase \in {"attach", "sent"}
            => lock[d] = t /\ stream[d] # NoConn

\* The inductive invariant of FencingSound's proof.
FencingInv == /\ TypeOK
              /\ FencingSound
              /\ WireSound
              /\ StreamSound
              /\ TokenSound
              /\ ExchangeSound

LiveController == claim.controller /\ claim.holders # {} /\ ~claim.yielded

ServerRestarted == claim' = NoClaim /\ \A c \in Conns : ~up'[c]

PromoteDispatched ==
    \E c \in Conns : wire[c].req = "claim" /\ wire'[c] # wire[c]

\* A live controller that did not yield loses the field to nothing but an
\* outright claim (claim_writer, a promotion) or the plant server's own restart: no
\* startup claim, reclaim, re-arm, orphan probe or tool takes it, however late
\* the request is executed.
IncumbentKeepsField ==
    [][LiveController /\ claim'.owner # claim.owner
          => PromoteDispatched \/ ServerRestarted]_vars

\* The abstract specification this protocol implements.
Single == INSTANCE SingleWriter WITH claimant <- claim.owner

\* Every accepted mutation is the standing claimant's: the protocol, with its
\* links, retries, re-attaches and restarts, implements SingleWriter.
ImplementsSingleWriter == Single!Spec

-----------------------------------------------------------------------------
(* Liveness                                                                *)

\* Threads run (a request is answered or times out), the server executes what
\* arrived and reaps dropped links, and scan_loop steps the plant every cycle.
Fairness ==
    /\ \A d \in Drivers, t \in Threads :
          /\ WF_vars(Send(d, t) \/ \E c \in Conns : Dial(d, t, c))
          /\ WF_vars(Attached(d, t))
          /\ WF_vars(Receive(d, t))
          /\ WF_vars(FailExchange(d, t))
          /\ WF_vars(Settle(d, t))
    /\ \A d \in Controllers : SF_vars(Start(d, "scan", "mutate"))
    /\ \A c \in Conns : WF_vars(Dispatch(c)) /\ WF_vars(CloseConn(c))

FairSpec == Spec /\ Fairness

\* A recorded token never goes stale for good: once the faults stop, the
\* process holds the field under it again or has forgotten it.
RecordedTokenResolves ==
    \A d \in Controllers :
        owner[d] # NoToken ~> (owner[d] = NoToken \/ stream[d] \in claim.holders)
=============================================================================
