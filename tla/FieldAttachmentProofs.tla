----------------------- MODULE FieldAttachmentProofs -----------------------
(***************************************************************************)
(* The field's attachment protocol, for every set of processes, tokens and *)
(* connections and every number of faults.  First fencing: the inductive   *)
(* invariant behind FencingSound, and the refinement of SingleWriter that  *)
(* follows from it.  Then what an attachment remembers: a live controller  *)
(* is unseated by promotions only, a forgotten token holds nothing, and a  *)
(* demotion on the scan thread stays forgotten.                            *)
(***************************************************************************)
EXTENDS FieldHandback, TLAPS

-----------------------------------------------------------------------------
(* What the arbitration does to the holders, whatever is asked of it.      *)

\* A hold after the step is one the standing owner had, or the requester's
\* own under the token it asked for.
HoldersFollow(old, new, c, token) ==
    \A h \in new.holders : \/ h \in old.holders /\ new.owner = old.owner
                           \/ h = c /\ new.owner = token

\* A grant (grant_writer_claim_locked) keeps the standing holders only under
\* the same owner, and adds nobody but the requester.
LEMMA GrantSound ==
    ASSUME NEW old \in Claims, NEW c \in Conns, NEW token \in Tokens \cup {NoToken},
           NEW k \in BOOLEAN
    PROVE  LET r == GrantReply(old, token, c, k) IN
           /\ r.claim \in Claims /\ r.verdict \in Verdicts
           /\ HoldersFollow(old, r.claim, c, token)
  BY DEF Claims, Verdicts, GrantReply, Reply, Grant, GrantVerdict, FreshClaim,
         HoldersFollow

\* ensure_writer, bound or unbound, adds nobody but the requester under its own
\* token.
LEMMA EnsureSound ==
    ASSUME NEW old \in Claims, NEW c \in Conns, NEW token \in Tokens \cup {NoToken},
           NEW k \in BOOLEAN, NEW rebind \in BOOLEAN
    PROVE  LET r == EnsureWriter(old, token, c, rebind, k) IN
           /\ r.claim \in Claims /\ r.verdict \in Verdicts
           /\ HoldersFollow(old, r.claim, c, token)
  BY DEF Claims, Verdicts, EnsureWriter, Reply, Refuse, GrantVerdict, FreshClaim,
         OwnedByOther, Standing, HoldersFollow

\* A release adds no hold and changes no owner while a hold remains.
LEMMA ReleaseSound ==
    ASSUME NEW old \in Claims, NEW c \in Conns, NEW keep \in BOOLEAN, NEW token
    PROVE  LET r == ReleaseWriter(old, c, keep) IN
           /\ r.claim \in Claims /\ r.verdict \in Verdicts
           /\ HoldersFollow(old, r.claim, c, token)
  BY DEF Claims, Verdicts, ReleaseWriter, Reply, NoClaim, HoldersFollow

\* Whatever request the server dispatches, the claim it leaves is well formed
\* and HoldersFollow.
LEMMA ArbitrateSound ==
    ASSUME claim \in Claims, NEW c \in Conns, NEW m \in Messages
    PROVE  /\ Arbitrate(c, m).claim \in Claims
           /\ Arbitrate(c, m).verdict \in Verdicts
           /\ HoldersFollow(claim, Arbitrate(c, m).claim, c, m.owner)
  <1>0. m.owner \in Tokens \cup {NoToken} /\ m.controller \in BOOLEAN
    BY DEF Messages
  <1>1. CASE m.req = "claim"
    BY <1>0, <1>1, GrantSound DEF Arbitrate, ClaimWriter
  <1>2. CASE m.req \in {"unlessHeld", "reclaim"}
    <2>1. Refuse(claim).claim = claim /\ Refuse(claim).verdict \in Verdicts
      BY DEF Refuse, Reply, Verdicts
    <2>2. HoldersFollow(claim, claim, c, m.owner)
      BY DEF HoldersFollow
    <2> QED BY <1>0, <1>2, <2>1, <2>2, GrantSound
            DEF Arbitrate, ClaimWriterUnlessHeld, ReclaimWriter
  <1>3. CASE m.req \in {"ensure", "unbound"}
    BY <1>0, <1>3, EnsureSound DEF Arbitrate
  <1>4. CASE m.req \in {"yield", "release"}
    BY <1>4, ReleaseSound DEF Arbitrate
  <1>5. CASE m.req \in {"probe", "mutate"}
    BY <1>5 DEF Arbitrate, Reply, MutationVerdict, Verdicts, HoldersFollow
  <1> QED BY <1>1, <1>2, <1>3, <1>4, <1>5
          DEF Messages, Ops, Releases, Grants

-----------------------------------------------------------------------------
(* The invariant                                                           *)

\* A plant server that just started satisfies the invariant.
LEMMA InitFencing == Init => FencingInv
  <1> SUFFICES ASSUME Init PROVE FencingInv
    OBVIOUS
  <1> USE DriverAssumption, TokenAssumption DEF Init
  <1>1. TypeOK
    BY DEF TypeOK, Claims, NoClaim, Messages, Silence, Calls, NoCall, Ops, Stages,
           Phases, Threads, Verdicts, Releases, Grants
  <1>2. FencingSound
    BY DEF FencingSound, NoClaim
  <1>3. WireSound
    BY DEF WireSound, Silence
  <1>4. StreamSound
    BY DEF StreamSound
  <1>5. TokenSound
    BY DEF TokenSound, Busy, NoCall
  <1>6. ExchangeSound
    BY DEF ExchangeSound, NoCall
  <1> QED BY <1>1, <1>2, <1>3, <1>4, <1>5, <1>6 DEF FencingInv

\* A request carries the token it was built with.
LEMMA MessageTyped ==
    ASSUME NEW d \in Drivers, NEW req \in Ops, NEW token \in Tokens \cup {NoToken}
    PROVE  /\ Message(req, token, d) \in Messages
           /\ Message(req, token, d).kind = "request"
           /\ Message(req, token, d).owner = token
  <1>1. (d \in Controllers) = TRUE \/ (d \in Controllers) = FALSE
    <2>1. CASE d \in Controllers
      BY <2>1
    <2>2. CASE d \notin Controllers
      BY <2>2
    <2> QED BY <2>1, <2>2
  <1>2. \A b \in BOOLEAN :
            [kind |-> "request", req |-> req, owner |-> token,
             controller |-> b, verdict |-> "done"] \in Messages
    BY DEF Messages, Verdicts
  <1>3. Message(req, token, d) \in Messages
    BY <1>1, <1>2, Zenon DEF Message
  <1> QED BY <1>3 DEF Message

\* The request of a call's current stage carries the call's own token.
LEMMA MessageSound ==
    ASSUME NEW d \in Drivers, NEW cl \in Calls
    PROVE  /\ MessageOf(d, cl) \in Messages
           /\ MessageOf(d, cl).kind = "request"
           /\ MessageOf(d, cl).owner = cl.token
  <1>1. RequestOf(cl) \in Ops /\ cl.token \in Tokens \cup {NoToken}
    BY DEF RequestOf, Calls, Ops, Grants
  <1> QED BY <1>1, MessageTyped DEF MessageOf

\* The re-arm `reattach` sends carries the recorded token.
LEMMA RearmMessageSound ==
    ASSUME NEW d \in Drivers, NEW token \in Tokens \cup {NoToken}
    PROVE  /\ Message("ensure", token, d) \in Messages
           /\ Message("ensure", token, d).kind = "request"
           /\ Message("ensure", token, d).owner = token
  BY MessageTyped DEF Ops, Grants

\* The constants of the message and call vocabularies.
LEMMA Vocabulary ==
    /\ NoCall \in Calls /\ NoCall.phase = "idle"
    /\ Silence \in Messages /\ Silence.kind = "none"
    /\ NoClaim \in Claims /\ NoClaim.holders = {} /\ NoClaim.owner = NoToken
  BY DEF NoCall, Calls, Ops, Stages, Phases, Verdicts, Silence, Messages, NoClaim,
         Claims

\* A call moved to another thread state keeps the frame of `call`.
LEMMA CallUpdate ==
    ASSUME call \in [Drivers -> [Threads -> Calls]],
           NEW d \in Drivers, NEW t \in Threads, NEW cl \in Calls,
           call' = [call EXCEPT ![d][t] = cl]
    PROVE  /\ call' \in [Drivers -> [Threads -> Calls]]
           /\ call'[d][t] = cl
           /\ \A e \in Drivers, u \in Threads :
                 e # d \/ u # t => call'[e][u] = call[e][u]
  OBVIOUS

\* A RemoteDriver method starts: the call takes its process's own token.
LEMMA StartFencing ==
    ASSUME FencingInv, NEW d \in Drivers, NEW t \in Threads, NEW op \in Ops,
           Start(d, t, op)
    PROVE  FencingInv'
  <1> DEFINE cl == [NoCall EXCEPT !.op = op, !.phase = "ready", !.token = TokenOf[d]]
  <1> USE DriverAssumption, TokenAssumption
  <1>1. /\ cl \in Calls /\ cl.phase = "ready" /\ cl.token = TokenOf[d]
    BY DEF NoCall, Calls, Stages, Phases, Verdicts
  <1>2. call' = [call EXCEPT ![d][t] = cl]
    BY DEF Start
  <1> HIDE DEF cl
  <1>3. /\ call' \in [Drivers -> [Threads -> Calls]]
        /\ call'[d][t] = cl
        /\ \A e \in Drivers, u \in Threads :
              e # d \/ u # t => call'[e][u] = call[e][u]
    BY <1>1, <1>2, CallUpdate DEF FencingInv, TypeOK
  <1>4. TypeOK'
    BY <1>3 DEF FencingInv, TypeOK, Start, StartOwner
  <1>5. FencingSound' /\ WireSound' /\ StreamSound'
    BY DEF FencingInv, FencingSound, WireSound, StreamSound, Start
  <1>6. TokenSound'
    BY <1>1, <1>3 DEF FencingInv, TypeOK, TokenSound, Start, StartOwner, Busy
  <1>7. ExchangeSound'
    BY <1>1, <1>3 DEF FencingInv, ExchangeSound, Start
  <1> QED BY <1>4, <1>5, <1>6, <1>7 DEF FencingInv

\* `request` puts the call on a live stream: it is the dialer's own.
LEMMA SendFencing ==
    ASSUME FencingInv, NEW d \in Drivers, NEW t \in Threads, Send(d, t)
    PROVE  FencingInv'
  <1> DEFINE cl == [call[d][t] EXCEPT !.phase = "sent"]
             c == stream[d]
  <1> USE DriverAssumption, TokenAssumption
  <1>0. /\ call[d][t] \in Calls /\ call[d][t].token = TokenOf[d] /\ c \in Conns
    BY DEF FencingInv, TypeOK, TokenSound, Busy, Send
  <1>1. cl \in Calls /\ cl.token = TokenOf[d]
    BY <1>0 DEF Calls, Phases
  <1>2. call' = [call EXCEPT ![d][t] = cl]
    BY DEF Send
  <1> HIDE DEF cl
  <1>3. /\ call' \in [Drivers -> [Threads -> Calls]]
        /\ call'[d][t] = cl
        /\ \A e \in Drivers, u \in Threads :
              e # d \/ u # t => call'[e][u] = call[e][u]
    BY <1>1, <1>2, CallUpdate DEF FencingInv, TypeOK
  <1>4. /\ MessageOf(d, call[d][t]) \in Messages
        /\ MessageOf(d, call[d][t]).owner = TokenOf[d]
    BY <1>0, MessageSound
  <1>5. TypeOK'
    <2>1. wire' \in [Conns -> Messages]
      BY <1>4 DEF FencingInv, TypeOK, Send
    <2> QED BY <1>3, <2>1 DEF FencingInv, TypeOK, Send
  <1>6. FencingSound' /\ StreamSound'
    BY DEF FencingInv, FencingSound, StreamSound, Send
  <1>7. WireSound'
    BY <1>0, <1>4 DEF FencingInv, TypeOK, WireSound, StreamSound, Send
  <1>8. TokenSound'
    BY <1>1, <1>3 DEF FencingInv, TypeOK, TokenSound, Send, Busy
  <1>9. ExchangeSound'
    BY <1>3 DEF FencingInv, TypeOK, ExchangeSound, Send, Threads
  <1> QED BY <1>5, <1>6, <1>7, <1>8, <1>9 DEF FencingInv

\* A request that found no link ends and moves nothing else.
LEMMA NoLinkFencing ==
    ASSUME FencingInv, NEW d \in Drivers, NEW t \in Threads, NoLink(d, t)
    PROVE  FencingInv'
  <1> DEFINE cl == NoCall
  <1> USE DriverAssumption, TokenAssumption
  <1>1. cl \in Calls /\ cl.phase = "idle"
    BY Vocabulary
  <1>2. call' = [call EXCEPT ![d][t] = cl]
    BY DEF NoLink
  <1> HIDE DEF cl
  <1>3. /\ call' \in [Drivers -> [Threads -> Calls]]
        /\ call'[d][t] = cl
        /\ \A e \in Drivers, u \in Threads :
              e # d \/ u # t => call'[e][u] = call[e][u]
    BY <1>1, <1>2, CallUpdate DEF FencingInv, TypeOK
  <1>4. TypeOK'
    BY <1>3 DEF FencingInv, TypeOK, NoLink
  <1>5. FencingSound' /\ WireSound' /\ StreamSound'
    BY DEF FencingInv, FencingSound, WireSound, StreamSound, NoLink
  <1>6. TokenSound'
    BY <1>1, <1>3 DEF FencingInv, TypeOK, TokenSound, NoLink, Busy
  <1>7. ExchangeSound'
    BY <1>1, <1>3 DEF FencingInv, ExchangeSound, NoLink
  <1> QED BY <1>4, <1>5, <1>6, <1>7 DEF FencingInv

\* `reattach` connects: the new connection is the dialer's, and no hold on it
\* was left by an earlier one of the same id.
LEMMA DialFencing ==
    ASSUME FencingInv, NEW d \in Drivers, NEW t \in Threads, NEW c \in Conns,
           Dial(d, t, c)
    PROVE  FencingInv'
  <1> DEFINE cl == [call[d][t] EXCEPT
                       !.phase = IF owner[d] # NoToken THEN "attach" ELSE "sent"]
             m == IF owner[d] # NoToken THEN Message("ensure", owner[d], d)
                  ELSE MessageOf(d, call[d][t])
  <1> USE DriverAssumption, TokenAssumption
  <1>0. /\ call[d][t] \in Calls /\ call[d][t].token = TokenOf[d]
        /\ owner[d] \in {NoToken, TokenOf[d]} /\ TokenOf[d] \in Tokens
    <2>1. call[d][t] \in Calls /\ TokenOf[d] \in Tokens
      BY DEF FencingInv, TypeOK
    <2>2. Busy(d, t)
      BY DEF Busy, Dial
    <2> QED BY <2>1, <2>2 DEF FencingInv, TokenSound
  <1>1. cl \in Calls /\ cl.token = TokenOf[d]
    BY <1>0 DEF Calls, Phases
  <1>2. call' = [call EXCEPT ![d][t] = cl] /\ wire' = [wire EXCEPT ![c] = m]
    BY DEF Dial
  <1>4. m \in Messages /\ m.owner = TokenOf[d]
    BY <1>0, MessageSound, RearmMessageSound
  <1> HIDE DEF cl, m
  <1>3. /\ call' \in [Drivers -> [Threads -> Calls]]
        /\ call'[d][t] = cl
        /\ \A e \in Drivers, u \in Threads :
              e # d \/ u # t => call'[e][u] = call[e][u]
    BY <1>1, <1>2, CallUpdate DEF FencingInv, TypeOK
  <1>5. TypeOK'
    <2>1. wire' \in [Conns -> Messages]
      BY <1>2, <1>4 DEF FencingInv, TypeOK
    <2> QED BY <1>3, <2>1 DEF FencingInv, TypeOK, Dial
  <1>6. FencingSound'
    BY DEF FencingInv, TypeOK, Claims, FencingSound, Dial, FreshConn
  <1>7. WireSound'
    BY <1>2, <1>4 DEF FencingInv, TypeOK, WireSound, Dial
  <1>8. StreamSound'
    BY DEF FencingInv, TypeOK, StreamSound, Dial, FreshConn
  <1>9. TokenSound'
    BY <1>0, <1>1, <1>3 DEF FencingInv, TypeOK, TokenSound, Dial, Busy
  <1>10. ExchangeSound'
    BY <1>3 DEF FencingInv, TypeOK, ExchangeSound, Dial, Threads
  <1> QED BY <1>5, <1>6, <1>7, <1>8, <1>9, <1>10 DEF FencingInv

\* The answered re-arm forgets the token or keeps it, and sends the call.
LEMMA AttachedFencing ==
    ASSUME FencingInv, NEW d \in Drivers, NEW t \in Threads, Attached(d, t)
    PROVE  FencingInv'
  <1> DEFINE cl == [call[d][t] EXCEPT !.phase = "sent"]
             c == stream[d]
  <1> USE DriverAssumption, TokenAssumption
  <1>0. /\ call[d][t] \in Calls /\ call[d][t].token = TokenOf[d]
        /\ c \in Conns /\ up[c] /\ dialer[c] = d
    <2>1. call[d][t] \in Calls
      BY DEF FencingInv, TypeOK
    <2>2. call[d][t].token = TokenOf[d]
      BY DEF FencingInv, TokenSound, Busy, Attached
    <2>3. c \in Conns
      BY DEF FencingInv, TypeOK, ExchangeSound, Attached
    <2>4. up[c]
      BY <2>3 DEF FencingInv, WireSound, Attached
    <2>5. dialer[c] = d
      BY <2>3, <2>4 DEF FencingInv, StreamSound
    <2> QED BY <2>1, <2>2, <2>3, <2>4, <2>5
  <1>1. cl \in Calls /\ cl.token = TokenOf[d]
    BY <1>0 DEF Calls, Phases
  <1>2. call' = [call EXCEPT ![d][t] = cl]
    BY DEF Attached
  <1> HIDE DEF cl
  <1>3. /\ call' \in [Drivers -> [Threads -> Calls]]
        /\ call'[d][t] = cl
        /\ \A e \in Drivers, u \in Threads :
              e # d \/ u # t => call'[e][u] = call[e][u]
    BY <1>1, <1>2, CallUpdate DEF FencingInv, TypeOK
  <1>4. /\ MessageOf(d, call[d][t]) \in Messages
        /\ MessageOf(d, call[d][t]).owner = TokenOf[d]
    BY <1>0, MessageSound
  <1>5. TypeOK'
    <2>1. wire' \in [Conns -> Messages]
      BY <1>0, <1>4 DEF FencingInv, TypeOK, Attached
    <2> QED BY <1>3, <2>1 DEF FencingInv, TypeOK, Attached, AttachedOwner
  <1>6. FencingSound' /\ StreamSound'
    BY DEF FencingInv, FencingSound, StreamSound, Attached
  <1>7. WireSound'
    BY <1>0, <1>4 DEF FencingInv, TypeOK, WireSound, Attached
  <1>8. TokenSound'
    BY <1>1, <1>3 DEF FencingInv, TypeOK, TokenSound, Attached, AttachedOwner, Busy
  <1>9. ExchangeSound'
    BY <1>3 DEF FencingInv, TypeOK, ExchangeSound, Attached
  <1> QED BY <1>5, <1>6, <1>7, <1>8, <1>9 DEF FencingInv

\* An answer leaves the exchange and changes no token yet.
LEMMA ReceiveFencing ==
    ASSUME FencingInv, NEW d \in Drivers, NEW t \in Threads, Receive(d, t)
    PROVE  FencingInv'
  <1> DEFINE c == stream[d]
             heard == [call[d][t] EXCEPT !.verdict = wire[c].verdict]
             cl == Answered(heard)
  <1> USE DriverAssumption, TokenAssumption
  <1>0. /\ call[d][t] \in Calls /\ call[d][t].token = TokenOf[d]
        /\ c \in Conns /\ wire[c] \in Messages
    <2>1. call[d][t] \in Calls
      BY DEF FencingInv, TypeOK
    <2>2. call[d][t].token = TokenOf[d]
      BY DEF FencingInv, TokenSound, Busy, Receive
    <2>3. c \in Conns
      BY DEF FencingInv, TypeOK, ExchangeSound, Receive
    <2> QED BY <2>1, <2>2, <2>3 DEF FencingInv, TypeOK
  <1>1. /\ cl \in Calls /\ cl.phase \in {"settle", "idle"}
        /\ cl.phase # "idle" => cl.token = TokenOf[d]
    <2>1. heard \in Calls /\ heard.token = TokenOf[d]
      BY <1>0 DEF Calls, Messages
    <2> HIDE DEF heard
    <2> QED BY <2>1, Vocabulary DEF Answered, Calls, Phases
  <1>2. call' = [call EXCEPT ![d][t] = cl]
    BY DEF Receive
  <1> HIDE DEF cl
  <1>3. /\ call' \in [Drivers -> [Threads -> Calls]]
        /\ call'[d][t] = cl
        /\ \A e \in Drivers, u \in Threads :
              e # d \/ u # t => call'[e][u] = call[e][u]
    BY <1>1, <1>2, CallUpdate DEF FencingInv, TypeOK
  <1>4. TypeOK'
    <2>1. wire' \in [Conns -> Messages]
      BY <1>0, Vocabulary DEF FencingInv, TypeOK, Receive
    <2> QED BY <1>3, <2>1 DEF FencingInv, TypeOK, Receive
  <1>5. FencingSound' /\ StreamSound'
    BY DEF FencingInv, FencingSound, StreamSound, Receive
  <1>6. WireSound'
    BY <1>0, Vocabulary DEF FencingInv, TypeOK, WireSound, Receive
  <1>7. TokenSound'
    BY <1>1, <1>3 DEF FencingInv, TypeOK, TokenSound, Receive, Busy
  <1>8. ExchangeSound'
    BY <1>1, <1>3 DEF FencingInv, TypeOK, ExchangeSound, Receive
  <1> QED BY <1>4, <1>5, <1>6, <1>7, <1>8 DEF FencingInv

\* A failed exchange drops the stream and leaves what was sent behind.
LEMMA FailFencing ==
    ASSUME FencingInv, NEW d \in Drivers, NEW t \in Threads, FailExchange(d, t)
    PROVE  FencingInv'
  <1> DEFINE cl == NoCall
  <1> USE DriverAssumption, TokenAssumption
  <1>1. cl \in Calls /\ cl.phase = "idle"
    BY Vocabulary
  <1>2. call' = [call EXCEPT ![d][t] = cl]
    BY DEF FailExchange
  <1> HIDE DEF cl
  <1>3. /\ call' \in [Drivers -> [Threads -> Calls]]
        /\ call'[d][t] = cl
        /\ \A e \in Drivers, u \in Threads :
              e # d \/ u # t => call'[e][u] = call[e][u]
    BY <1>1, <1>2, CallUpdate DEF FencingInv, TypeOK
  <1>4. TypeOK'
    BY <1>3 DEF FencingInv, TypeOK, FailExchange
  <1>5. FencingSound' /\ WireSound'
    BY DEF FencingInv, FencingSound, WireSound, FailExchange
  <1>6. StreamSound'
    BY DEF FencingInv, TypeOK, StreamSound, FailExchange
  <1>7. TokenSound'
    BY <1>1, <1>3 DEF FencingInv, TypeOK, TokenSound, FailExchange, Busy
  <1>8. ExchangeSound'
    BY <1>1, <1>3 DEF FencingInv, TypeOK, ExchangeSound, FailExchange
  <1> QED BY <1>4, <1>5, <1>6, <1>7, <1>8 DEF FencingInv

\* A call's answer records or forgets its own process's token, nobody else's.
LEMMA SettleFencing ==
    ASSUME FencingInv, NEW d \in Drivers, NEW t \in Threads, Settle(d, t)
    PROVE  FencingInv'
  <1> DEFINE cl == NextCall(d, call[d][t])
  <1> USE DriverAssumption, TokenAssumption
  <1>0. /\ call[d][t] \in Calls /\ call[d][t].token = TokenOf[d]
        /\ owner[d] \in {NoToken, TokenOf[d]} /\ TokenOf[d] \in Tokens
    <2>1. call[d][t] \in Calls /\ TokenOf[d] \in Tokens
      BY DEF FencingInv, TypeOK
    <2>2. Busy(d, t)
      BY DEF Busy, Settle
    <2> QED BY <2>1, <2>2 DEF FencingInv, TokenSound
  <1>1. /\ cl \in Calls /\ cl.phase \in {"ready", "idle"}
        /\ cl.phase # "idle" => cl.token = TokenOf[d]
    BY <1>0, Vocabulary, ZenonT(40)
    DEF NextCall, Rearms, Unclaimed, Calls, Stages, Phases, Verdicts
  <1>2. call' = [call EXCEPT ![d][t] = cl]
    BY DEF Settle
  <1>9. SettledOwner(d, call[d][t]) \in {NoToken, TokenOf[d]}
    BY <1>0 DEF SettledOwner
  <1> HIDE DEF cl
  <1>3. /\ call' \in [Drivers -> [Threads -> Calls]]
        /\ call'[d][t] = cl
        /\ \A e \in Drivers, u \in Threads :
              e # d \/ u # t => call'[e][u] = call[e][u]
    BY <1>1, <1>2, CallUpdate DEF FencingInv, TypeOK
  <1>4. TypeOK'
    BY <1>0, <1>3, <1>9 DEF FencingInv, TypeOK, Settle
  <1>5. FencingSound' /\ WireSound' /\ StreamSound'
    BY DEF FencingInv, FencingSound, WireSound, StreamSound, Settle
  <1>6. TokenSound'
    BY <1>1, <1>3, <1>9 DEF FencingInv, TypeOK, TokenSound, Settle, Busy
  <1>7. ExchangeSound'
    BY <1>1, <1>3 DEF FencingInv, TypeOK, ExchangeSound, Settle
  <1> QED BY <1>4, <1>5, <1>6, <1>7 DEF FencingInv

\* A process that dies leaves its connections to the server.
LEMMA CrashFencing ==
    ASSUME FencingInv, NEW d \in Drivers, Crash(d)
    PROVE  FencingInv'
  <1> USE DriverAssumption, TokenAssumption
  <1>1. /\ call' \in [Drivers -> [Threads -> Calls]]
        /\ \A u \in Threads : call'[d][u].phase = "idle"
        /\ \A e \in Drivers \ {d} : call'[e] = call[e]
    BY Vocabulary DEF FencingInv, TypeOK, Crash
  <1>2. TypeOK'
    BY <1>1 DEF FencingInv, TypeOK, Crash
  <1>3. FencingSound' /\ WireSound'
    BY DEF FencingInv, FencingSound, WireSound, Crash
  <1>4. StreamSound'
    BY DEF FencingInv, TypeOK, StreamSound, Crash
  <1>5. TokenSound'
    BY <1>1 DEF FencingInv, TypeOK, TokenSound, Crash, Busy
  <1>6. ExchangeSound'
    BY <1>1 DEF FencingInv, TypeOK, ExchangeSound, Crash
  <1> QED BY <1>2, <1>3, <1>4, <1>5, <1>6 DEF FencingInv

\* The server executes a request, however late: the holders it leaves are
\* live connections of the owner it leaves.
LEMMA DispatchFencing ==
    ASSUME FencingInv, NEW c \in Conns, Dispatch(c)
    PROVE  FencingInv'
  <1> DEFINE r == Arbitrate(c, wire[c])
  <1> USE DriverAssumption, TokenAssumption
  <1>0. /\ claim \in Claims /\ wire[c] \in Messages
        /\ up[c] /\ wire[c].owner = TokenOf[dialer[c]] /\ dialer[c] \in Drivers
    BY DEF FencingInv, TypeOK, WireSound, StreamSound, Dispatch
  <1>1. /\ r.claim \in Claims /\ r.verdict \in Verdicts
        /\ HoldersFollow(claim, r.claim, c, wire[c].owner)
    BY <1>0, ArbitrateSound
  <1>2. claim' = r.claim /\ wire' = [wire EXCEPT ![c] = Response(r.verdict)]
    BY DEF Dispatch
  <1> HIDE DEF r
  <1>3. Response(r.verdict) \in Messages /\ Response(r.verdict).kind = "reply"
    BY <1>1 DEF Response, Silence, Messages, Ops
  <1>4. TypeOK'
    <2>1. writer' \in Tokens \cup {NoToken}
      BY <1>0 DEF FencingInv, TypeOK, Dispatch
    <2>2. wire' \in [Conns -> Messages]
      BY <1>2, <1>3 DEF FencingInv, TypeOK
    <2> QED BY <1>1, <1>2, <2>1, <2>2 DEF FencingInv, TypeOK, Dispatch
  <1>5. FencingSound'
    <2> SUFFICES ASSUME NEW h \in r.claim.holders
                 PROVE  up[h] /\ TokenOf[dialer[h]] = r.claim.owner
      BY <1>2 DEF FencingSound, Dispatch
    <2>1. CASE h \in claim.holders /\ r.claim.owner = claim.owner
      BY <2>1 DEF FencingInv, FencingSound
    <2>2. CASE h = c /\ r.claim.owner = wire[c].owner
      BY <1>0, <2>2
    <2> QED BY <1>1, <2>1, <2>2 DEF HoldersFollow
  <1>6. WireSound'
    BY <1>0, <1>2, <1>3 DEF FencingInv, TypeOK, WireSound, Dispatch
  <1>7. StreamSound' /\ TokenSound' /\ ExchangeSound'
    BY DEF FencingInv, StreamSound, TokenSound, ExchangeSound, Dispatch, Busy
  <1> QED BY <1>4, <1>5, <1>6, <1>7 DEF FencingInv

\* A connection's end takes its hold with it.
LEMMA CloseFencing ==
    ASSUME FencingInv, NEW c \in Conns, CloseConn(c)
    PROVE  FencingInv'
  <1> USE DriverAssumption, TokenAssumption
  <1>1. claim' \in Claims /\ claim'.holders = claim.holders \ {c}
        /\ claim'.owner = claim.owner
    BY DEF FencingInv, TypeOK, CloseConn, ReleaseHold, Claims
  <1>2. TypeOK'
    <2>1. wire' \in [Conns -> Messages]
      BY Vocabulary DEF FencingInv, TypeOK, CloseConn
    <2>2. faults' \in 0..MaxFaults
      BY DEF FencingInv, TypeOK, CloseConn
    <2> QED BY <1>1, <2>1, <2>2 DEF FencingInv, TypeOK, CloseConn
  <1>3. FencingSound'
    BY <1>1 DEF FencingInv, TypeOK, Claims, FencingSound, CloseConn
  <1>4. WireSound'
    BY Vocabulary DEF FencingInv, TypeOK, WireSound, CloseConn
  <1>5. StreamSound'
    BY DEF FencingInv, TypeOK, StreamSound, CloseConn
  <1>6. TokenSound' /\ ExchangeSound'
    BY DEF FencingInv, TokenSound, ExchangeSound, CloseConn, Busy
  <1> QED BY <1>2, <1>3, <1>4, <1>5, <1>6 DEF FencingInv

\* A restarted plant server has no claim, no holder and no connection.
LEMMA RestartFencing ==
    ASSUME FencingInv, Restart
    PROVE  FencingInv'
  <1> USE DriverAssumption, TokenAssumption
  <1>1. TypeOK'
    BY Vocabulary DEF FencingInv, TypeOK, Restart
  <1>2. FencingSound'
    BY Vocabulary DEF FencingSound, Restart
  <1>3. WireSound'
    BY Vocabulary DEF WireSound, Restart
  <1>4. StreamSound'
    BY DEF FencingInv, TypeOK, StreamSound, Restart
  <1>5. TokenSound' /\ ExchangeSound'
    BY DEF FencingInv, TokenSound, ExchangeSound, Restart, Busy
  <1> QED BY <1>1, <1>2, <1>3, <1>4, <1>5 DEF FencingInv

\* Every step of every process, link and server preserves the invariant.
LEMMA NextFencing == FencingInv /\ [Next]_vars => FencingInv'
  <1> SUFFICES ASSUME FencingInv, [Next]_vars PROVE FencingInv'
    OBVIOUS
  <1>1. ASSUME NEW d \in Drivers, Client(d) PROVE FencingInv'
    BY <1>1, StartFencing, SendFencing, NoLinkFencing, DialFencing, AttachedFencing,
       ReceiveFencing, FailFencing, SettleFencing, CrashFencing DEF Client
  <1>2. ASSUME NEW c \in Conns, Dispatch(c) \/ CloseConn(c) PROVE FencingInv'
    BY <1>2, DispatchFencing, CloseFencing
  <1>3. CASE Restart
    BY <1>3, RestartFencing
  <1>4. CASE UNCHANGED vars
    BY <1>4 DEF vars, FencingInv, TypeOK, FencingSound, WireSound, StreamSound,
                TokenSound, ExchangeSound, Busy
  <1> QED BY <1>1, <1>2, <1>3, <1>4 DEF Next

\* For every set of processes, tokens and connections and every number of
\* faults: only live connections of the claim's own token hold the field.
THEOREM FencingIsSound == Spec => []FencingInv
  <1> QED BY InitFencing, NextFencing, PTL DEF Spec

\* The part of it the plant relies on.
COROLLARY FieldIsFenced == Spec => []FencingSound
  <1>1. FencingInv => FencingSound
    BY DEF FencingInv
  <1> QED BY <1>1, FencingIsSound, PTL

-----------------------------------------------------------------------------
(* The refinement                                                          *)

\* An unclaimed plant is the abstract initial state.
LEMMA SingleInit == Init => Single!Init
  BY Vocabulary DEF Init, Single!Init

\* A dispatched request is the abstract mutation by the claimant, a change of
\* claimant, or nothing.
LEMMA DispatchSingle ==
    ASSUME FencingInv, NEW c \in Conns, Dispatch(c)
    PROVE  [Single!Next]_(Single!vars)
  <1>0. claim \in Claims /\ wire[c] \in Messages
    BY DEF FencingInv, TypeOK
  <1>1. CASE Accepted(c, wire[c])
    <2>1. claim' = claim
      BY <1>1 DEF Dispatch, Accepted, Arbitrate, Reply
    <2>2. claim.owner # NoToken /\ c \in claim.holders
      BY <1>1 DEF Accepted, MutationVerdict, Standing
    <2>3. writer' = claim.owner
      BY <1>1, <2>2 DEF FencingInv, FencingSound, Dispatch
    <2> QED BY <2>1, <2>2, <2>3 DEF Single!Next, Single!Mutate
  <1>2. CASE ~Accepted(c, wire[c])
    <2>1. claim'.owner \in Tokens \cup {NoToken}
      BY <1>0, ArbitrateSound DEF Dispatch, Claims
    <2>2. writer' = writer
      BY <1>2 DEF Dispatch
    <2> QED BY <2>1, <2>2 DEF Single!Next, Single!Seize, Single!Open
  <1> QED BY <1>1, <1>2

\* Every step maps to a step of SingleWriter or to a stutter.
LEMMA SingleStep == FencingInv /\ [Next]_vars => [Single!Next]_(Single!vars)
  <1> SUFFICES ASSUME FencingInv, [Next]_vars PROVE [Single!Next]_(Single!vars)
    OBVIOUS
  <1>1. ASSUME NEW d \in Drivers, Client(d) PROVE [Single!Next]_(Single!vars)
    BY <1>1 DEF Client, Start, Send, NoLink, Dial, Attached, Receive, FailExchange,
                Settle, Crash, Single!vars
  <1>2. ASSUME NEW c \in Conns, CloseConn(c) PROVE [Single!Next]_(Single!vars)
    BY <1>2 DEF CloseConn, ReleaseHold, Single!vars, FencingInv, TypeOK, Claims
  <1>3. CASE Restart
    BY <1>3, Vocabulary DEF Restart, Single!Next, Single!Open
  <1>4. CASE UNCHANGED vars
    BY <1>4 DEF vars, Single!vars
  <1> QED BY <1>1, <1>2, <1>3, <1>4, DispatchSingle DEF Next

\* The protocol, with all its links, retries and restarts, implements the
\* single-writer field.
THEOREM FieldImplementsSingleWriter == Spec => ImplementsSingleWriter
  <1> QED BY SingleInit, SingleStep, FencingIsSound, PTL
          DEF Spec, ImplementsSingleWriter, Single!Spec

-----------------------------------------------------------------------------
(* The inductive invariants, each resting on the ones before it            *)

\* The Monitor mutex: two threads of a process are inside the driver together
\* only as the scan thread's plant step beside an HTTP demotion.
ThreadSound ==
    \A d \in Drivers :
        /\ \A t \in Threads : Busy(d, t) =>
              /\ call[d][t].op \in OpsOf(d)
              /\ call[d][t].stage # "first" => call[d][t].op = "mutate"
        /\ Busy(d, "http") => call[d]["http"].op \in HttpOps
        /\ Busy(d, "http") /\ Busy(d, "scan") =>
              call[d]["scan"].op = "mutate" /\ call[d]["http"].op = "yield"

\* A request in flight is one its dialer's process makes, or a re-arm.
OriginSound ==
    \A c \in Conns : wire[c].kind = "request" =>
        /\ wire[c].req \in OpsOf(dialer[c]) \cup {"ensure"}
        /\ wire[c].controller <=> dialer[c] \in Controllers

\* The controller marker stands for a controller's token.
ControllerSound ==
    claim.controller => \E d \in Controllers : TokenOf[d] = claim.owner

\* The stream carries the exchange of the thread inside `request`, nothing
\* when there is none; a re-attach waits only with a token recorded.
LinkSound ==
    \A d \in Drivers :
        /\ \A t \in Threads : lock[d] = t => call[d][t].phase \in {"attach", "sent"}
        /\ lock[d] = "free" /\ stream[d] # NoConn => wire[stream[d]].kind = "none"
        /\ \A t \in Threads :
              /\ call[d][t].phase = "attach" => owner[d] # NoToken
              /\ call[d][t].phase = "sent" /\ wire[stream[d]].kind = "request"
                    => wire[stream[d]].req = RequestOf(call[d][t])

\* A connection that is answered `fenced` does not hold the claim.
AnswerSound ==
    \A c \in Conns : wire[c].kind = "reply" /\ wire[c].verdict = "fenced"
                        => c \notin claim.holders

\* Nor does it when the answer is settled, in a later critical section: no
\* other thread has re-asserted the token in between.
ForgetSound ==
    \A d \in Drivers, t \in Threads :
        call[d][t].phase = "settle" /\ Forgets(call[d][t]) =>
            /\ stream[d] \notin claim.holders
            /\ \A u \in Threads \ {t} :
                  /\ call[d][u].phase # "attach"
                  /\ Busy(d, u) /\ stream[d] = NoConn => owner[d] = NoToken

\* A call that will give the hold up, and one that will record its token.
Releasing(d, t) ==
    /\ call[d][t].op \in Releases
    /\ \/ call[d][t].phase = "ready"
       \/ call[d][t].phase = "sent" /\ wire[stream[d]].kind = "request"

Granting(d, t) ==
    \/ /\ call[d][t].phase = "sent"
       /\ RequestOf(call[d][t]) \in Grants
       /\ wire[stream[d]].kind = "reply" /\ Granted(wire[stream[d]].verdict)
    \/ call[d][t].phase = "settle" /\ Records(call[d][t])

\* A driver with no token recorded holds the field only in passing.
HoldSound ==
    \A d \in Drivers : owner[d] = NoToken /\ stream[d] \in claim.holders =>
        \E t \in Threads : Releasing(d, t) \/ Granting(d, t)

-----------------------------------------------------------------------------
(* What each step does to the calls                                        *)

\* Every thread but t of process d is where it was.
OthersStay(d, t) ==
    \A e \in Drivers, u \in Threads : e # d \/ u # t => call'[e][u] = call[e][u]

\* A call moves on along its own method.
Advances(d, t, phase) ==
    /\ call'[d][t].phase = phase
    /\ call'[d][t].op = call[d][t].op
    /\ call'[d][t].stage = call[d][t].stage

\* A method starts at its first stage; the process's other thread stays put.
LEMMA StartCall ==
    ASSUME FencingInv, NEW d \in Drivers, NEW t \in Threads, NEW op \in Ops,
           Start(d, t, op)
    PROVE  /\ OthersStay(d, t)
           /\ call'[d][t].phase = "ready"
           /\ call'[d][t].op = op
           /\ call'[d][t].stage = "first"
  <1> DEFINE cl == [NoCall EXCEPT !.op = op, !.phase = "ready", !.token = TokenOf[d]]
  <1>1. cl \in Calls /\ cl.phase = "ready" /\ cl.op = op /\ cl.stage = "first"
    BY DriverAssumption DEF NoCall, Calls, Stages, Phases, Verdicts
  <1>2. call' = [call EXCEPT ![d][t] = cl]
    BY DEF Start
  <1> HIDE DEF cl
  <1> QED BY <1>1, <1>2, CallUpdate DEF FencingInv, TypeOK, OthersStay

\* A call that only changes phase keeps its method and stage.
LEMMA PhaseCall ==
    ASSUME FencingInv, NEW d \in Drivers, NEW t \in Threads, NEW phase \in Phases,
           call' = [call EXCEPT ![d][t].phase = phase]
    PROVE  OthersStay(d, t) /\ Advances(d, t, phase)
  <1> DEFINE cl == [call[d][t] EXCEPT !.phase = phase]
  <1>1. call[d][t] \in Calls
    BY DEF FencingInv, TypeOK
  <1>2. /\ cl \in Calls /\ cl.phase = phase /\ cl.op = call[d][t].op
        /\ cl.stage = call[d][t].stage
    BY <1>1 DEF Calls
  <1>3. call' = [call EXCEPT ![d][t] = cl]
    OBVIOUS
  <1> HIDE DEF cl
  <1> QED BY <1>2, <1>3, CallUpdate DEF FencingInv, TypeOK, OthersStay, Advances

\* A call that ends leaves its thread idle.
LEMMA EndCall ==
    ASSUME FencingInv, NEW d \in Drivers, NEW t \in Threads,
           call' = [call EXCEPT ![d][t] = NoCall]
    PROVE  OthersStay(d, t) /\ call'[d][t].phase = "idle"
  BY Vocabulary, CallUpdate DEF FencingInv, TypeOK, OthersStay

\* An answer ends the call, or leaves it to be settled with its verdict.
LEMMA ReceiveCall ==
    ASSUME FencingInv, NEW d \in Drivers, NEW t \in Threads, Receive(d, t)
    PROVE  /\ OthersStay(d, t)
           /\ stream[d] \in Conns
           /\ \/ call'[d][t].phase = "idle"
              \/ /\ Advances(d, t, "settle")
                 /\ call'[d][t].verdict = wire[stream[d]].verdict
           /\ Granted(wire[stream[d]].verdict) /\ RequestOf(call[d][t]) \in Grants
                 => call'[d][t].phase = "settle" /\ Records(call'[d][t])
  <1> DEFINE v == wire[stream[d]].verdict
             heard == [call[d][t] EXCEPT !.verdict = v]
             cl == Answered(heard)
  <1>1. call[d][t] \in Calls /\ stream[d] \in Conns /\ v \in Verdicts
    <2>1. stream[d] \in Conns
      BY DEF FencingInv, TypeOK, ExchangeSound, Receive
    <2> QED BY <2>1 DEF FencingInv, TypeOK, Messages
  <1>2. /\ heard \in Calls /\ heard.verdict = v /\ heard.op = call[d][t].op
        /\ heard.stage = call[d][t].stage
    BY <1>1 DEF Calls
  <1>3. call' = [call EXCEPT ![d][t] = cl]
    BY DEF Receive
  <1>4. Granted(v) /\ RequestOf(call[d][t]) \in Grants => Records(heard)
    BY <1>1, <1>2 DEF RequestOf, Records
  <1> HIDE DEF heard
  <1>5. /\ cl \in Calls
        /\ \/ cl.phase = "idle"
           \/ cl.phase = "settle" /\ cl.op = heard.op /\ cl.stage = heard.stage
                /\ cl.verdict = v
        /\ Records(heard) => cl.phase = "settle" /\ Records(cl)
    BY <1>2, Vocabulary DEF Answered, Calls, Phases, Records
  <1> HIDE DEF cl, v
  <1>6. OthersStay(d, t) /\ call'[d][t] = cl
    BY <1>3, <1>5, CallUpdate DEF FencingInv, TypeOK, OthersStay
  <1> QED BY <1>1, <1>2, <1>4, <1>5, <1>6 DEF Advances, v

\* A settled call ends, or goes on as the re-arm or the retry of a mutation.
LEMMA SettleCall ==
    ASSUME FencingInv, NEW d \in Drivers, NEW t \in Threads, Settle(d, t)
    PROVE  /\ OthersStay(d, t)
           /\ \/ call'[d][t].phase = "idle"
              \/ /\ call'[d][t].phase = "ready"
                 /\ call'[d][t].op = call[d][t].op
                 /\ call[d][t].op = "mutate" \/ call[d][t].stage = "rearm"
  <1> DEFINE cl == NextCall(d, call[d][t])
  <1>1. call[d][t] \in Calls /\ owner[d] \in Tokens \cup {NoToken}
    BY DEF FencingInv, TypeOK
  <1>2. /\ cl \in Calls
        /\ \/ cl.phase = "idle"
           \/ /\ cl.phase = "ready" /\ cl.op = call[d][t].op
              /\ call[d][t].op = "mutate" \/ call[d][t].stage = "rearm"
    BY <1>1, Vocabulary, ZenonT(40)
    DEF NextCall, Rearms, Unclaimed, Calls, Stages, Phases, Verdicts
  <1>3. call' = [call EXCEPT ![d][t] = cl]
    BY DEF Settle
  <1> HIDE DEF cl
  <1> QED BY <1>2, <1>3, CallUpdate DEF FencingInv, TypeOK, OthersStay

\* A process that dies is idle in every thread.
LEMMA CrashCall ==
    ASSUME FencingInv, NEW d \in Drivers, Crash(d)
    PROVE  /\ \A u \in Threads : call'[d][u].phase = "idle"
           /\ \A e \in Drivers \ {d} : call'[e] = call[e]
  BY Vocabulary DEF FencingInv, TypeOK, Crash

-----------------------------------------------------------------------------
(* Threads                                                                 *)

\* The Monitor mutex and switchover's preconditions keep the two threads of a
\* process apart.
LEMMA ThreadStep ==
    ASSUME FencingInv, ThreadSound, [Next]_vars
    PROVE  ThreadSound'
  <1>1. ASSUME NEW d \in Drivers, NEW t \in Threads, NEW op \in Ops, Start(d, t, op)
        PROVE  ThreadSound'
    <2>1. /\ OthersStay(d, t) /\ call'[d][t].phase = "ready"
          /\ call'[d][t].op = op /\ call'[d][t].stage = "first"
      BY <1>1, StartCall
    <2>2. op \in OpsOf(d) /\ (t = "http" => op \in HttpOps)
      BY <1>1 DEF Start, MayStart
    <2>3. /\ t = "http" /\ Busy(d, "scan") => op = "yield" /\ call[d]["scan"].op = "mutate"
          /\ t = "scan" /\ Busy(d, "http")
                => op = "mutate" /\ call[d]["http"].op = "yield"
      <3>1. \A u \in Threads : Busy(d, u) /\ op # "mutate" => call[d][u].op = "mutate"
        BY <1>1 DEF Start, MayStart, MonitorFree
      <3>2. op = "mutate" /\ Busy(d, "http") => call[d]["http"].op = "yield"
        BY <1>1 DEF Start, MayStart
      <3>3. t = "http" => op \in {"claim", "unlessHeld", "yield"}
                           /\ (op = "yield" \/ ~Busy(d, "scan"))
        BY <1>1 DEF Start, MayStart, HttpOps
      <3>4. Busy(d, "http") => call[d]["http"].op # "mutate"
        BY DEF ThreadSound, HttpOps
      <3> QED BY <3>1, <3>2, <3>3, <3>4 DEF Threads
    <2> QED BY <2>1, <2>2, <2>3 DEF ThreadSound, OthersStay, Busy, Threads
  <1>2. ASSUME NEW d \in Drivers, NEW t \in Threads, NEW phase \in Phases \ {"idle"},
               call[d][t].phase # "idle", OthersStay(d, t), Advances(d, t, phase)
        PROVE  ThreadSound'
    BY <1>2 DEF ThreadSound, OthersStay, Advances, Busy, Threads
  <1>3. ASSUME NEW d \in Drivers, NEW t \in Threads, OthersStay(d, t),
               call'[d][t].phase = "idle"
        PROVE  ThreadSound'
    BY <1>3 DEF ThreadSound, OthersStay, Busy, Threads
  <1>4. ASSUME NEW d \in Drivers, NEW t \in Threads, Send(d, t) \/ Attached(d, t)
        PROVE  ThreadSound'
    BY <1>2, <1>4, PhaseCall DEF Send, Attached, Phases
  <1>5. ASSUME NEW d \in Drivers, NEW t \in Threads, NEW c \in Conns, Dial(d, t, c)
        PROVE  ThreadSound'
    <2> DEFINE phase == IF owner[d] # NoToken THEN "attach" ELSE "sent"
    <2>1. phase \in Phases \ {"idle"} /\ call[d][t].phase # "idle"
          /\ call' = [call EXCEPT ![d][t].phase = phase]
      BY <1>5 DEF Dial, Phases
    <2> HIDE DEF phase
    <2> QED BY <1>2, <2>1, PhaseCall
  <1>6. ASSUME NEW d \in Drivers, NEW t \in Threads, NoLink(d, t) \/ FailExchange(d, t)
        PROVE  ThreadSound'
    BY <1>3, <1>6, EndCall DEF NoLink, FailExchange
  <1>7. ASSUME NEW d \in Drivers, NEW t \in Threads, Receive(d, t)
        PROVE  ThreadSound'
    BY <1>2, <1>3, <1>7, ReceiveCall DEF Receive, Phases
  <1>8. ASSUME NEW d \in Drivers, NEW t \in Threads, Settle(d, t)
        PROVE  ThreadSound'
    <2>1. CASE call'[d][t].phase = "idle"
      BY <1>3, <1>8, <2>1, SettleCall
    <2>2. CASE call'[d][t].phase # "idle"
      <3>1. Busy(d, t)
        BY <1>8 DEF Settle, Busy
      <3>2. call[d][t].op = "mutate"
        BY <1>8, <2>2, <3>1, SettleCall DEF ThreadSound
      <3>3. OthersStay(d, t) /\ call'[d][t].op = "mutate"
        BY <1>8, <2>2, <3>2, SettleCall
      <3> QED BY <3>1, <3>2, <3>3 DEF ThreadSound, OthersStay, Busy, Threads
    <2> QED BY <2>1, <2>2
  <1>9. ASSUME NEW d \in Drivers, Crash(d) PROVE ThreadSound'
    BY <1>9, CrashCall DEF ThreadSound, Busy, Threads
  <1>10. CASE UNCHANGED call
    BY <1>10 DEF ThreadSound, Busy
  <1> QED BY <1>1, <1>4, <1>5, <1>6, <1>7, <1>8, <1>9, <1>10
          DEF Next, Client, Dispatch, CloseConn, Restart, vars

\* Nothing runs at the start.
LEMMA ThreadInit == Init => ThreadSound
  BY DEF Init, ThreadSound, NoCall, Busy, Threads

-----------------------------------------------------------------------------
(* The controller marker                                                   *)

\* The request of a busy call is one of its process, or a re-arm.
LEMMA RequestOrigin ==
    ASSUME ThreadSound, NEW d \in Drivers, NEW t \in Threads, Busy(d, t)
    PROVE  /\ MessageOf(d, call[d][t]).req \in OpsOf(d) \cup {"ensure"}
           /\ MessageOf(d, call[d][t]).controller <=> d \in Controllers
  BY DEF ThreadSound, MessageOf, Message, RequestOf

\* A message put on a connection its sender dialled.
LEMMA OriginPut ==
    ASSUME FencingInv, OriginSound, NEW d \in Drivers, NEW c \in Conns, NEW m,
           dialer'[c] = d, \A e \in Conns \ {c} : dialer'[e] = dialer[e],
           wire' = [wire EXCEPT ![c] = m],
           m.kind = "request" => /\ m.req \in OpsOf(d) \cup {"ensure"}
                                 /\ m.controller <=> d \in Controllers
    PROVE  OriginSound'
  BY DEF OriginSound, FencingInv, TypeOK

\* What a request says of its sender holds for every one that is sent.
LEMMA OriginStep ==
    ASSUME FencingInv, ThreadSound, OriginSound, [Next]_vars
    PROVE  OriginSound'
  <1>1. CASE UNCHANGED <<wire, dialer>>
    BY <1>1 DEF OriginSound
  <1>2. ASSUME NEW d \in Drivers, NEW t \in Threads, Send(d, t)
        PROVE  OriginSound'
    <2>1. CASE up[stream[d]]
      <3>1. stream[d] \in Conns /\ dialer[stream[d]] = d /\ UNCHANGED dialer
        BY <1>2, <2>1 DEF FencingInv, TypeOK, StreamSound, Send
      <3>2. Busy(d, t)
        BY <1>2 DEF Send, Busy
      <3>3. wire' = [wire EXCEPT ![stream[d]] = MessageOf(d, call[d][t])]
        BY <1>2, <2>1 DEF Send
      <3> QED BY <3>1, <3>2, <3>3, RequestOrigin, OriginPut, ZenonT(40)
    <2>2. CASE ~up[stream[d]]
      BY <1>1, <1>2, <2>2 DEF Send
    <2> QED BY <2>1, <2>2
  <1>3. ASSUME NEW d \in Drivers, NEW t \in Threads, NEW c \in Conns, Dial(d, t, c)
        PROVE  OriginSound'
    <2> DEFINE m == IF owner[d] # NoToken THEN Message("ensure", owner[d], d)
                    ELSE MessageOf(d, call[d][t])
    <2>1. Busy(d, t)
      BY <1>3 DEF Dial, Busy
    <2>2. m.req \in OpsOf(d) \cup {"ensure"} /\ (m.controller <=> d \in Controllers)
      BY <2>1, RequestOrigin DEF Message
    <2>3. /\ wire' = [wire EXCEPT ![c] = m] /\ dialer' = [dialer EXCEPT ![c] = d]
          /\ dialer \in [Conns -> Drivers \cup {NoDriver}]
      BY <1>3 DEF Dial, FencingInv, TypeOK
    <2> HIDE DEF m
    <2> QED BY <2>2, <2>3, OriginPut
  <1>4. ASSUME NEW d \in Drivers, NEW t \in Threads, Attached(d, t)
        PROVE  OriginSound'
    <2>1. stream[d] \in Conns
      BY <1>4 DEF FencingInv, TypeOK, ExchangeSound, Attached
    <2>2. up[stream[d]]
      BY <1>4, <2>1 DEF FencingInv, WireSound, Attached
    <2>3. dialer[stream[d]] = d /\ UNCHANGED dialer
      BY <1>4, <2>1, <2>2, DriverAssumption DEF FencingInv, StreamSound, Attached
    <2>4. Busy(d, t)
      BY <1>4 DEF Attached, Busy
    <2>5. wire' = [wire EXCEPT ![stream[d]] = MessageOf(d, call[d][t])]
      BY <1>4 DEF Attached
    <2> QED BY <2>1, <2>3, <2>4, <2>5, RequestOrigin, OriginPut, ZenonT(40)
  <1>5. ASSUME NEW d \in Drivers, NEW t \in Threads, Receive(d, t)
        PROVE  OriginSound'
    <2>1. stream[d] \in Conns
      BY <1>5 DEF FencingInv, TypeOK, ExchangeSound, Receive
    <2> QED BY <1>5, <2>1, Vocabulary DEF OriginSound, Receive, FencingInv, TypeOK
  <1>6. ASSUME NEW c \in Conns, Dispatch(c) PROVE OriginSound'
    <2>1. \A v : Response(v).kind = "reply"
      BY DEF Response, Silence
    <2> QED BY <1>6, <2>1 DEF OriginSound, Dispatch, FencingInv, TypeOK
  <1>7. ASSUME NEW c \in Conns, CloseConn(c) PROVE OriginSound'
    BY <1>7, Vocabulary DEF OriginSound, CloseConn, FencingInv, TypeOK
  <1>8. CASE Restart
    BY <1>8, Vocabulary DEF OriginSound, Restart
  <1>9. ASSUME NEW d \in Drivers, NEW t \in Threads,
               (\E op \in Ops : Start(d, t, op)) \/ NoLink(d, t) \/ FailExchange(d, t)
                   \/ Settle(d, t) \/ Crash(d)
        PROVE  OriginSound'
    BY <1>1, <1>9 DEF Start, NoLink, FailExchange, Settle, Crash
  <1>10. CASE UNCHANGED vars
    BY <1>1, <1>10 DEF vars
  <1> QED BY <1>2, <1>3, <1>4, <1>5, <1>6, <1>7, <1>8, <1>9, <1>10
          DEF Next, Client, Threads

\* A claim's marker after a request is the standing owner's, or the one the
\* requester declares of itself.
MarkerFollows(old, new, token, k) ==
    new.controller => \/ old.controller /\ new.owner = old.owner
                      \/ k /\ new.owner = token

\* Only grants and re-arms raise the marker: for the requester's own token, and
\* to what the requester is (the conditional grants are controllers' only).
LEMMA ArbitrateMarker ==
    ASSUME claim \in Claims, NEW c \in Conns, NEW m \in Messages
    PROVE  MarkerFollows(claim, Arbitrate(c, m).claim, m.owner,
                         m.controller \/ m.req \in {"unlessHeld", "reclaim"})
  <1> USE DEF MarkerFollows, Claims
  <1>1. CASE m.req = "claim"
    BY <1>1 DEF Arbitrate, ClaimWriter, GrantReply, Reply, Grant, FreshClaim
  <1>2. CASE m.req = "unlessHeld"
    BY <1>2 DEF Arbitrate, ClaimWriterUnlessHeld, GrantReply, Refuse, Reply, Grant,
                FreshClaim
  <1>3. CASE m.req = "reclaim"
    BY <1>3 DEF Arbitrate, ReclaimWriter, GrantReply, Refuse, Reply, Grant, FreshClaim
  <1>4. CASE m.req \in {"ensure", "unbound"}
    BY <1>4 DEF Arbitrate, EnsureWriter, Refuse, Reply, FreshClaim, OwnedByOther,
                Standing
  <1>5. CASE m.req \in {"yield", "release"}
    BY <1>5 DEF Arbitrate, ReleaseWriter, Reply, NoClaim
  <1>6. CASE m.req \in {"probe", "mutate"}
    BY <1>6 DEF Arbitrate, Reply
  <1> QED BY <1>1, <1>2, <1>3, <1>4, <1>5, <1>6 DEF Messages, Ops, Releases, Grants

\* No process touches the claim but through the server.
LEMMA ClientKeepsClaim ==
    ASSUME NEW d \in Drivers, Client(d)
    PROVE  UNCHANGED claim
  BY DEF Client, Start, Send, NoLink, Dial, Attached, Receive, FailExchange, Settle,
         Crash

\* The marker stands for a controller's token, whatever is executed late.
LEMMA ControllerStep ==
    ASSUME FencingInv, OriginSound, ControllerSound, [Next]_vars
    PROVE  ControllerSound'
  <1>1. CASE UNCHANGED claim
    BY <1>1 DEF ControllerSound
  <1>2. ASSUME NEW c \in Conns, Dispatch(c) PROVE ControllerSound'
    <2> DEFINE m == wire[c]
    <2>1. /\ claim \in Claims /\ m \in Messages /\ m.owner = TokenOf[dialer[c]]
          /\ dialer[c] \in Drivers /\ claim' = Arbitrate(c, m).claim
      BY <1>2 DEF FencingInv, TypeOK, WireSound, StreamSound, Dispatch
    <2>2. m.controller \/ m.req \in {"unlessHeld", "reclaim"} => dialer[c] \in Controllers
      BY <1>2, <2>1 DEF OriginSound, OpsOf, Dispatch
    <2>3. MarkerFollows(claim, claim', m.owner,
                        m.controller \/ m.req \in {"unlessHeld", "reclaim"})
      BY <2>1, ArbitrateMarker
    <2> QED BY <2>1, <2>2, <2>3 DEF MarkerFollows, ControllerSound
  <1>3. ASSUME NEW c \in Conns, CloseConn(c) PROVE ControllerSound'
    BY <1>3 DEF ControllerSound, CloseConn, ReleaseHold, FencingInv, TypeOK, Claims
  <1>4. CASE Restart
    BY <1>4 DEF ControllerSound, Restart, NoClaim
  <1> QED BY <1>1, <1>2, <1>3, <1>4, ClientKeepsClaim DEF Next, vars

-----------------------------------------------------------------------------
(* A live controller keeps the field                                       *)

\* Under a live controller that did not yield, a request that is no outright
\* claim leaves the owner: a conditional grant is refused or is the owner's,
\* a yield keeps the claim, and a controller's claim is never dissolved.
LEMMA DispatchKeeps ==
    ASSUME FencingInv, OriginSound, ControllerSound, LiveController,
           NEW c \in Conns, Dispatch(c), wire[c].req # "claim"
    PROVE  claim'.owner = claim.owner
  <1> DEFINE m == wire[c]
  <1>1. /\ claim \in Claims /\ m \in Messages /\ m.owner = TokenOf[dialer[c]]
        /\ dialer[c] \in Drivers /\ claim' = Arbitrate(c, m).claim
    BY DEF FencingInv, TypeOK, WireSound, StreamSound, Dispatch
  <1>2. claim.owner \in Tokens /\ NoToken \notin Tokens
    <2>1. PICK h \in claim.holders : TRUE
      BY DEF LiveController
    <2>2. h \in Conns /\ up[h] /\ TokenOf[dialer[h]] = claim.owner
      BY <1>1, <2>1 DEF FencingInv, FencingSound, Claims
    <2>3. dialer[h] \in Drivers
      BY <2>2 DEF FencingInv, StreamSound
    <2> QED BY <2>2, <2>3, DriverAssumption, TokenAssumption
  <1>3. CASE m.req \in {"unlessHeld", "reclaim"}
    BY <1>1, <1>2, <1>3
    DEF Arbitrate, ClaimWriterUnlessHeld, ReclaimWriter, LiveIncumbent, HeldByOther,
        GrantReply, Grant, Refuse, Reply, LiveController, Claims
  <1>4. CASE m.req \in {"ensure", "unbound"}
    BY <1>1, <1>2, <1>4
    DEF Arbitrate, EnsureWriter, OwnedByOther, Standing, Refuse, Reply, Claims
  <1>5. CASE m.req = "yield"
    BY <1>1, <1>5 DEF Arbitrate, ReleaseWriter, Reply, Claims
  <1>6. CASE m.req = "release"
    <2>1. dialer[c] \notin Controllers
      BY <1>6 DEF OriginSound, OpsOf, Dispatch
    <2>2. c \notin claim.holders
      BY <1>1, <2>1, ToolAssumption
      DEF FencingInv, FencingSound, ControllerSound, LiveController
    <2> QED BY <1>1, <1>6, <2>2 DEF Arbitrate, ReleaseWriter, Reply
  <1>7. CASE m.req \in {"probe", "mutate"}
    BY <1>1, <1>7 DEF Arbitrate, Reply
  <1> QED BY <1>1, <1>3, <1>4, <1>5, <1>6, <1>7 DEF Messages, Ops, Releases, Grants

\* No step but a dispatched outright claim or the server's restart changes the
\* owner of a live controller's claim.
LEMMA IncumbentStep ==
    ASSUME FencingInv, OriginSound, ControllerSound, [Next]_vars, LiveController,
           claim'.owner # claim.owner
    PROVE  PromoteDispatched \/ ServerRestarted
  <1>1. ASSUME NEW c \in Conns, Dispatch(c) PROVE PromoteDispatched
    <2>1. wire[c].req = "claim"
      BY <1>1, DispatchKeeps
    <2>2. \A v : Response(v).kind = "reply"
      BY DEF Response, Silence
    <2>3. wire'[c] # wire[c]
      BY <1>1, <2>2 DEF Dispatch, FencingInv, TypeOK
    <2> QED BY <2>1, <2>3 DEF PromoteDispatched
  <1>2. ASSUME NEW c \in Conns, CloseConn(c) PROVE FALSE
    BY <1>2 DEF CloseConn, ReleaseHold, FencingInv, TypeOK, Claims
  <1>3. CASE Restart
    BY <1>3 DEF Restart, ServerRestarted
  <1> QED BY <1>1, <1>2, <1>3, ClientKeepsClaim DEF Next, vars

\* The invariants of the marker, together.
OwnerInv == FencingInv /\ ThreadSound /\ OriginSound /\ ControllerSound

\* They hold in every state of every behaviour.
LEMMA OwnerIsSound == Spec => []OwnerInv
  <1>1. Init => OwnerInv
    <2>1. Init => OriginSound /\ ControllerSound
      BY DEF Init, OriginSound, ControllerSound, NoClaim, Silence
    <2> QED BY <2>1, InitFencing, ThreadInit DEF OwnerInv
  <1>2. OwnerInv /\ [Next]_vars => OwnerInv'
    BY NextFencing, ThreadStep, OriginStep, ControllerStep DEF OwnerInv
  <1> QED BY <1>1, <1>2, PTL DEF Spec

\* A controller that holds the field and did not yield it loses it to nothing
\* but claim_writer (a promotion) or the plant server's restart: no startup
\* claim, reclaim, re-arm, orphan probe or tool, however late it is executed.
THEOREM IncumbentIsKept == Spec => IncumbentKeepsField
  <1>1. OwnerInv /\ [Next]_vars =>
            [LiveController /\ claim'.owner # claim.owner
                => PromoteDispatched \/ ServerRestarted]_vars
    BY IncumbentStep DEF OwnerInv
  <1> QED BY <1>1, OwnerIsSound, PTL DEF Spec, IncumbentKeepsField

-----------------------------------------------------------------------------
(* The stream and the exchange on it                                       *)

\* A live stream is one process's only.
LEMMA OwnStream ==
    ASSUME FencingInv, NEW d \in Drivers, stream[d] \in Conns, up[stream[d]]
    PROVE  \A e \in Drivers \ {d} : stream[e] # stream[d]
  BY DriverAssumption DEF FencingInv, StreamSound

\* A request that waits for its answer, or has it, is on a stream.
LEMMA WaitingStream ==
    ASSUME FencingInv, NEW d \in Drivers, NEW t \in Threads,
           call[d][t].phase \in {"attach", "sent"}
    PROVE  /\ stream[d] \in Conns /\ lock[d] = t
           /\ wire[stream[d]].kind # "none" => up[stream[d]]
  BY DEF FencingInv, TypeOK, ExchangeSound, WireSound

\* A request under way is the one its call's stage sends.
LEMMA SentRequest ==
    ASSUME NEW d \in Drivers, NEW t \in Threads
    PROVE  /\ MessageOf(d, call[d][t]).req = RequestOf(call[d][t])
           /\ \A u \in Threads, p \in Phases :
                 Advances(d, u, p) => RequestOf(call'[d][u]) = RequestOf(call[d][u])
  BY DEF MessageOf, Message, RequestOf, Advances

\* Another process's stream and exchange are untouched by what d does on its
\* own stream.
LinkFrame(d) ==
    \A e \in Drivers \ {d} :
        /\ \A u \in Threads : call'[e][u] = call[e][u]
        /\ lock'[e] = lock[e] /\ owner'[e] = owner[e]
        /\ stream'[e] = stream[e]
        /\ stream[e] \in Conns => wire'[stream[e]] = wire[stream[e]]

\* Whatever a process does, it does on its own stream, to its own calls.
LEMMA ClientFrame ==
    ASSUME FencingInv, NEW d \in Drivers, Client(d)
    PROVE  LinkFrame(d)
  <1> USE DEF OthersStay
  <1>1. ASSUME NEW t \in Threads, NEW op \in Ops, Start(d, t, op) PROVE LinkFrame(d)
    BY <1>1, StartCall DEF Start, LinkFrame, FencingInv, TypeOK
  <1>2. ASSUME NEW t \in Threads, Settle(d, t) PROVE LinkFrame(d)
    BY <1>2, SettleCall DEF Settle, LinkFrame, FencingInv, TypeOK
  <1>3. ASSUME NEW t \in Threads, NoLink(d, t) \/ FailExchange(d, t) PROVE LinkFrame(d)
    BY <1>3, EndCall DEF NoLink, FailExchange, LinkFrame, FencingInv, TypeOK
  <1>4. ASSUME NEW t \in Threads, Send(d, t) PROVE LinkFrame(d)
    <2>1. OthersStay(d, t) /\ stream[d] \in Conns
      BY <1>4, PhaseCall DEF Send, Phases, FencingInv, TypeOK
    <2> QED BY <1>4, <2>1, OwnStream DEF Send, LinkFrame, FencingInv, TypeOK
  <1>5. ASSUME NEW t \in Threads, NEW c \in Conns, Dial(d, t, c) PROVE LinkFrame(d)
    <2>1. OthersStay(d, t)
      BY <1>5, PhaseCall DEF Dial, Phases
    <2> QED BY <1>5, <2>1 DEF Dial, FreshConn, LinkFrame, FencingInv, TypeOK
  <1>6. ASSUME NEW t \in Threads, Attached(d, t) PROVE LinkFrame(d)
    <2>1. OthersStay(d, t)
      BY <1>6, PhaseCall DEF Attached, Phases
    <2>2. stream[d] \in Conns /\ up[stream[d]]
      BY <1>6, WaitingStream DEF Attached
    <2> QED BY <1>6, <2>1, <2>2, OwnStream DEF Attached, LinkFrame, FencingInv, TypeOK
  <1>7. ASSUME NEW t \in Threads, Receive(d, t) PROVE LinkFrame(d)
    <2>1. OthersStay(d, t)
      BY <1>7, ReceiveCall
    <2>2. stream[d] \in Conns /\ up[stream[d]]
      BY <1>7, WaitingStream DEF Receive
    <2> QED BY <1>7, <2>1, <2>2, OwnStream DEF Receive, LinkFrame, FencingInv, TypeOK
  <1>8. CASE Crash(d)
    BY <1>8, CrashCall DEF Crash, LinkFrame, FencingInv, TypeOK
  <1> QED BY <1>1, <1>2, <1>3, <1>4, <1>5, <1>6, <1>7, <1>8 DEF Client

\* What LinkSound says of one process.
LinkOf(d) ==
    /\ \A t \in Threads : lock[d] = t => call[d][t].phase \in {"attach", "sent"}
    /\ lock[d] = "free" /\ stream[d] # NoConn => wire[stream[d]].kind = "none"
    /\ \A t \in Threads :
          /\ call[d][t].phase = "attach" => owner[d] # NoToken
          /\ call[d][t].phase = "sent" /\ wire[stream[d]].kind = "request"
                => wire[stream[d]].req = RequestOf(call[d][t])

\* A step of one process concerns its own link only.
LEMMA LinkOwn ==
    ASSUME FencingInv, LinkSound, NEW d \in Drivers, LinkFrame(d), LinkOf(d)'
    PROVE  LinkSound'
  <1> SUFFICES ASSUME NEW e \in Drivers \ {d} PROVE LinkOf(e)'
    BY DEF LinkSound, LinkOf
  <1>1. LinkOf(e)
    BY DEF LinkSound, LinkOf
  <1>2. stream[e] \in Conns \cup {NoConn}
    BY DEF FencingInv, TypeOK
  <1>3. \A t \in Threads : call[e][t].phase \in {"attach", "sent"} => stream[e] \in Conns
    BY WaitingStream
  <1> QED BY <1>1, <1>2, <1>3 DEF LinkFrame, LinkOf

\* The exchange on the stream is the thread's that is inside `request`, at every
\* step of every process and of the server.
LEMMA LinkStep ==
    ASSUME FencingInv, LinkSound, [Next]_vars
    PROVE  LinkSound'
  <1> USE DEF OthersStay
  <1>1. ASSUME NEW d \in Drivers, NEW t \in Threads, lock[d] = "free", OthersStay(d, t),
               call'[d][t].phase \in {"idle", "ready"},
               UNCHANGED <<stream, lock, wire>>, LinkFrame(d)
        PROVE  LinkSound'
    <2>2. \A u \in Threads : u # "free" /\ call[d][u].phase \notin {"attach", "sent"}
      BY <1>1, WaitingStream DEF Threads
    <2>3. LinkOf(d)'
      BY <1>1, <2>2 DEF LinkSound, LinkOf
    <2> QED BY <1>1, <2>3, LinkOwn
  <1>2. ASSUME NEW d \in Drivers, NEW t \in Threads, NEW op \in Ops, Start(d, t, op)
        PROVE  LinkSound'
    <2>1. lock[d] = "free" /\ UNCHANGED <<stream, lock, wire>>
      BY <1>2 DEF Start
    <2>2. OthersStay(d, t) /\ call'[d][t].phase = "ready"
      BY <1>2, StartCall
    <2>3. LinkFrame(d)
      BY <1>2, ClientFrame DEF Client
    <2> QED BY <1>1, <2>1, <2>2, <2>3
  <1>3. ASSUME NEW d \in Drivers, NEW t \in Threads, Settle(d, t)
        PROVE  LinkSound'
    <2>1. lock[d] = "free" /\ UNCHANGED <<stream, lock, wire>>
      BY <1>3 DEF Settle
    <2>2. OthersStay(d, t) /\ call'[d][t].phase \in {"idle", "ready"}
      BY <1>3, SettleCall
    <2>3. LinkFrame(d)
      BY <1>3, ClientFrame DEF Client
    <2> QED BY <1>1, <2>1, <2>2, <2>3
  <1>4. ASSUME NEW d \in Drivers, NEW t \in Threads, NoLink(d, t)
        PROVE  LinkSound'
    <2>1. LinkFrame(d)
      BY <1>4, ClientFrame DEF Client
    <2> QED BY <1>1, <1>4, <2>1, EndCall DEF NoLink
  <1>5. ASSUME NEW d \in Drivers, NEW t \in Threads, Send(d, t)
        PROVE  LinkSound'
    <2>1. OthersStay(d, t) /\ Advances(d, t, "sent")
      BY <1>5, PhaseCall DEF Send, Phases
    <2>2. stream[d] \in Conns /\ lock[d] = "free"
      BY <1>5 DEF Send, FencingInv, TypeOK
    <2>3. LinkFrame(d)
      BY <1>5, ClientFrame DEF Client
    <2>4. \A u \in Threads : call[d][u].phase \notin {"attach", "sent"}
      BY <2>2, WaitingStream DEF Threads
    <2>5. wire'[stream[d]].kind = "request" =>
              wire'[stream[d]].req = RequestOf(call'[d][t])
      <3>1. CASE up[stream[d]]
        BY <1>5, <2>1, <2>2, <3>1, SentRequest DEF Send, FencingInv, TypeOK, Phases
      <3>2. CASE ~up[stream[d]]
        BY <1>5, <2>2, <3>2 DEF Send, FencingInv, WireSound
      <3> QED BY <3>1, <3>2
    <2>6. lock'[d] = t /\ stream'[d] = stream[d]
      BY <1>5 DEF Send, FencingInv, TypeOK
    <2>7. LinkOf(d)'
      BY <2>1, <2>4, <2>5, <2>6 DEF LinkOf, Advances, Threads
    <2> QED BY <2>3, <2>7, LinkOwn
  <1>6. ASSUME NEW d \in Drivers, NEW t \in Threads, NEW c \in Conns, Dial(d, t, c)
        PROVE  LinkSound'
    <2> DEFINE phase == IF owner[d] # NoToken THEN "attach" ELSE "sent"
    <2>1. OthersStay(d, t) /\ Advances(d, t, phase)
      BY <1>6, PhaseCall DEF Dial, Phases
    <2>2. /\ lock'[d] = t /\ stream'[d] = c /\ lock[d] = "free" /\ UNCHANGED owner
          /\ owner[d] = NoToken => wire'[c] = MessageOf(d, call[d][t])
      BY <1>6 DEF Dial, FencingInv, TypeOK
    <2>3. LinkFrame(d)
      BY <1>6, ClientFrame DEF Client
    <2>4. \A u \in Threads : call[d][u].phase \notin {"attach", "sent"}
      BY <2>2, WaitingStream DEF Threads
    <2>5. LinkOf(d)'
      <3>1. call'[d][t].phase = "attach" => owner[d] # NoToken
        BY <2>1 DEF Advances
      <3>2. call'[d][t].phase = "sent" => wire'[c].req = RequestOf(call'[d][t])
        BY <2>1, <2>2, SentRequest DEF Advances, Phases
      <3>3. \A u \in Threads \ {t} : call'[d][u].phase \notin {"attach", "sent"}
        BY <2>1, <2>4
      <3>4. call'[d][t].phase \in {"attach", "sent"}
        BY <2>1 DEF Advances
      <3> QED BY <2>2, <3>1, <3>2, <3>3, <3>4 DEF LinkOf, Threads
    <2> QED BY <2>3, <2>5, LinkOwn
  <1>7. ASSUME NEW d \in Drivers, NEW t \in Threads, Attached(d, t)
        PROVE  LinkSound'
    <2>1. OthersStay(d, t) /\ Advances(d, t, "sent")
      BY <1>7, PhaseCall DEF Attached, Phases
    <2>2. stream[d] \in Conns /\ lock[d] = t /\ up[stream[d]]
      BY <1>7, WaitingStream DEF Attached
    <2>3. LinkFrame(d)
      BY <1>7, ClientFrame DEF Client
    <2>4. \A u \in Threads \ {t} : call[d][u].phase \notin {"attach", "sent"}
      BY <2>2, WaitingStream
    <2>5. wire'[stream[d]].req = RequestOf(call'[d][t])
      <3>1. wire'[stream[d]] = MessageOf(d, call[d][t])
        BY <1>7, <2>2 DEF Attached, FencingInv, TypeOK
      <3>2. RequestOf(call'[d][t]) = RequestOf(call[d][t])
        BY <2>1, SentRequest DEF Phases
      <3> QED BY <3>1, <3>2, SentRequest
    <2>6. lock'[d] = t /\ stream'[d] = stream[d]
      BY <1>7, <2>2 DEF Attached
    <2>7. LinkOf(d)'
      BY <2>1, <2>4, <2>5, <2>6 DEF LinkOf, Advances, Threads
    <2> QED BY <2>3, <2>7, LinkOwn
  <1>8. ASSUME NEW d \in Drivers, NEW t \in Threads, Receive(d, t)
        PROVE  LinkSound'
    <2>1. OthersStay(d, t) /\ call'[d][t].phase \in {"idle", "settle"}
      BY <1>8, ReceiveCall DEF Advances
    <2>2. stream[d] \in Conns /\ lock[d] = t /\ up[stream[d]]
      BY <1>8, WaitingStream DEF Receive
    <2>3. LinkFrame(d)
      BY <1>8, ClientFrame DEF Client
    <2>4. \A u \in Threads \ {t} : call[d][u].phase \notin {"attach", "sent"}
      BY <2>2, WaitingStream
    <2>5. lock'[d] = "free" /\ stream'[d] = stream[d] /\ wire'[stream[d]].kind = "none"
      BY <1>8, <2>2, Vocabulary DEF Receive, FencingInv, TypeOK
    <2>6. LinkOf(d)'
      BY <2>1, <2>4, <2>5 DEF LinkOf, Threads
    <2> QED BY <2>3, <2>6, LinkOwn
  <1>9. ASSUME NEW d \in Drivers, NEW t \in Threads, FailExchange(d, t)
        PROVE  LinkSound'
    <2>1. OthersStay(d, t) /\ call'[d][t].phase = "idle"
      BY <1>9, EndCall DEF FailExchange
    <2>2. lock[d] = t
      BY <1>9, WaitingStream DEF FailExchange
    <2>3. LinkFrame(d)
      BY <1>9, ClientFrame DEF Client
    <2>4. \A u \in Threads \ {t} : call[d][u].phase \notin {"attach", "sent"}
      BY <2>2, WaitingStream
    <2>5. lock'[d] = "free" /\ stream'[d] = NoConn
      BY <1>9 DEF FailExchange, FencingInv, TypeOK
    <2>6. LinkOf(d)'
      BY <2>1, <2>4, <2>5 DEF LinkOf, Threads
    <2> QED BY <2>3, <2>6, LinkOwn
  <1>10. ASSUME NEW d \in Drivers, Crash(d) PROVE LinkSound'
    <2>1. LinkFrame(d)
      BY <1>10, ClientFrame DEF Client
    <2>2. lock'[d] = "free" /\ stream'[d] = NoConn
      BY <1>10 DEF Crash, FencingInv, TypeOK
    <2>3. LinkOf(d)'
      BY <1>10, <2>2, CrashCall DEF LinkOf, Threads
    <2> QED BY <2>1, <2>3, LinkOwn
  <1>11. ASSUME NEW c \in Conns, Dispatch(c) PROVE LinkSound'
    <2>1. \A v : Response(v).kind = "reply"
      BY DEF Response, Silence
    <2>2. /\ wire[c].kind = "request" /\ wire'[c].kind = "reply"
          /\ \A e \in Conns \ {c} : wire'[e] = wire[e]
          /\ UNCHANGED <<stream, lock, call, owner>>
      BY <1>11, <2>1 DEF Dispatch, FencingInv, TypeOK
    <2>3. \A d \in Drivers : stream[d] \in Conns \cup {NoConn}
      BY DEF FencingInv, TypeOK
    <2>4. \A d \in Drivers, t \in Threads :
              call[d][t].phase = "sent" => stream[d] \in Conns
      BY WaitingStream
    <2> QED BY <2>2, <2>3, <2>4 DEF LinkSound
  <1>12. ASSUME \A c \in Conns : wire'[c] = wire[c] \/ wire'[c].kind = "none",
                UNCHANGED <<stream, lock, call, owner>>
         PROVE  LinkSound'
    <2>1. \A d \in Drivers : stream[d] \in Conns \cup {NoConn}
      BY DEF FencingInv, TypeOK
    <2>2. \A d \in Drivers, t \in Threads :
              call[d][t].phase = "sent" => stream[d] \in Conns
      BY WaitingStream
    <2> QED BY <1>12, <2>1, <2>2 DEF LinkSound
  <1>13. ASSUME NEW c \in Conns, CloseConn(c) PROVE LinkSound'
    BY <1>12, <1>13, Vocabulary DEF CloseConn, FencingInv, TypeOK
  <1>14. CASE Restart
    BY <1>12, <1>14, Vocabulary DEF Restart
  <1>15. CASE UNCHANGED vars
    BY <1>12, <1>15 DEF vars
  <1> QED BY <1>2, <1>3, <1>4, <1>5, <1>6, <1>7, <1>8, <1>9, <1>10, <1>11, <1>13,
             <1>14, <1>15 DEF Next, Client

-----------------------------------------------------------------------------
(* What the server answers and what it leaves                              *)

\* The requester is refused only when it holds nothing, and the refusal leaves
\* the claim; a release leaves it without a hold; a grant answers so.
LEMMA ArbitrateAnswer ==
    ASSUME FencingInv, NEW c \in Conns, wire[c].kind = "request"
    PROVE  LET m == wire[c]
               r == Arbitrate(c, m)
           IN  /\ r.verdict = "fenced" => r.claim = claim /\ c \notin claim.holders
               /\ m.req \in Releases => c \notin r.claim.holders
               /\ m.req \in Grants => r.verdict = "fenced" \/ Granted(r.verdict)
               /\ m.req \notin Grants => r.claim.holders \subseteq claim.holders
  <1> DEFINE m == wire[c]
             r == Arbitrate(c, m)
  <1>1. /\ claim \in Claims /\ m \in Messages
        /\ c \in claim.holders => claim.owner = m.owner
    BY DEF FencingInv, TypeOK, FencingSound, WireSound
  <1> USE DEF Grants, Releases, Granted
  <1>2. CASE m.req = "claim"
    BY <1>2 DEF Arbitrate, ClaimWriter, GrantReply, GrantVerdict, Reply
  <1>3. CASE m.req = "unlessHeld"
    BY <1>1, <1>3 DEF Arbitrate, ClaimWriterUnlessHeld, LiveIncumbent, GrantReply,
                      GrantVerdict, Refuse, Reply
  <1>4. CASE m.req = "reclaim"
    BY <1>1, <1>4 DEF Arbitrate, ReclaimWriter, HeldByOther, GrantReply,
                      GrantVerdict, Refuse, Reply
  <1>5. CASE m.req = "ensure"
    BY <1>1, <1>5 DEF Arbitrate, EnsureWriter, OwnedByOther, GrantVerdict, Refuse, Reply
  <1>6. CASE m.req = "unbound"
    BY <1>1, <1>6 DEF Arbitrate, EnsureWriter, OwnedByOther, Refuse, Reply, FreshClaim,
                      Claims
  <1>7. CASE m.req \in {"yield", "release"}
    BY <1>1, <1>7 DEF Arbitrate, ReleaseWriter, Reply, NoClaim, Claims
  <1>8. CASE m.req \in {"probe", "mutate"}
    BY <1>1, <1>8 DEF Arbitrate, MutationVerdict, Reply
  <1> QED BY <1>1, <1>2, <1>3, <1>4, <1>5, <1>6, <1>7, <1>8 DEF Messages, Ops

\* A dispatched request adds no hold but its own connection's.
LEMMA DispatchHolders ==
    ASSUME FencingInv, NEW c \in Conns, Dispatch(c)
    PROVE  claim'.holders \subseteq claim.holders \cup {c}
  <1>1. claim \in Claims /\ wire[c] \in Messages
    BY DEF FencingInv, TypeOK
  <1> QED BY <1>1, ArbitrateSound DEF Dispatch, HoldersFollow

\* No other step adds one.
LEMMA HoldersShrink ==
    ASSUME FencingInv, [Next]_vars, \A c \in Conns : ~Dispatch(c)
    PROVE  claim'.holders \subseteq claim.holders
  <1>1. ASSUME NEW c \in Conns, CloseConn(c) PROVE claim'.holders \subseteq claim.holders
    BY <1>1 DEF CloseConn, ReleaseHold, FencingInv, TypeOK, Claims
  <1> QED BY <1>1, ClientKeepsClaim, Vocabulary DEF Next, Restart, vars

\* Where an answer stands on the wire after a step that is not the server's, it
\* stood before it.
LEMMA AnswersAreOld ==
    ASSUME FencingInv, [Next]_vars, \A c \in Conns : ~Dispatch(c), NEW c \in Conns
    PROVE  wire'[c].kind = "reply" => wire'[c] = wire[c]
  <1>1. ASSUME NEW d \in Drivers, NEW t \in Threads, Send(d, t) \/ Attached(d, t)
        PROVE  wire'[c].kind = "reply" => wire'[c] = wire[c]
    <2>1. call[d][t] \in Calls
      BY DEF FencingInv, TypeOK
    <2>2. MessageOf(d, call[d][t]).kind = "request"
      BY <2>1, MessageSound
    <2> QED BY <1>1, <2>2 DEF Send, Attached, FencingInv, TypeOK
  <1>2. ASSUME NEW d \in Drivers, NEW t \in Threads, NEW e \in Conns, Dial(d, t, e)
        PROVE  wire'[c].kind = "reply" => wire'[c] = wire[c]
    <2>1. call[d][t] \in Calls /\ owner[d] \in Tokens \cup {NoToken}
      BY DEF FencingInv, TypeOK
    <2>2. /\ MessageOf(d, call[d][t]).kind = "request"
          /\ Message("ensure", owner[d], d).kind = "request"
      BY <2>1, MessageSound, RearmMessageSound
    <2> QED BY <1>2, <2>2 DEF Dial, FencingInv, TypeOK
  <1>3. ASSUME NEW d \in Drivers, NEW t \in Threads, Receive(d, t)
        PROVE  wire'[c].kind = "reply" => wire'[c] = wire[c]
    BY <1>3, Vocabulary DEF Receive, FencingInv, TypeOK
  <1>4. ASSUME NEW e \in Conns, CloseConn(e)
        PROVE  wire'[c].kind = "reply" => wire'[c] = wire[c]
    BY <1>4, Vocabulary DEF CloseConn, FencingInv, TypeOK
  <1>5. CASE Restart
    BY <1>5, Vocabulary DEF Restart
  <1>6. ASSUME NEW d \in Drivers, NEW t \in Threads,
               (\E op \in Ops : Start(d, t, op)) \/ NoLink(d, t) \/ FailExchange(d, t)
                   \/ Settle(d, t) \/ Crash(d)
        PROVE  wire' = wire
    BY <1>6 DEF Start, NoLink, FailExchange, Settle, Crash
  <1> QED BY <1>1, <1>2, <1>3, <1>4, <1>5, <1>6 DEF Next, Client, Threads, vars

\* A fenced answer is true of its connection for as long as it is on the wire.
LEMMA AnswerStep ==
    ASSUME FencingInv, AnswerSound, [Next]_vars
    PROVE  AnswerSound'
  <1>1. ASSUME NEW c \in Conns, Dispatch(c) PROVE AnswerSound'
    <2>1. /\ wire[c].kind = "request" /\ claim' = Arbitrate(c, wire[c]).claim
          /\ wire'[c].verdict = Arbitrate(c, wire[c]).verdict
          /\ \A e \in Conns \ {c} : wire'[e] = wire[e]
      BY <1>1 DEF Dispatch, Response, Silence, FencingInv, TypeOK
    <2> QED BY <1>1, <2>1, ArbitrateAnswer, DispatchHolders DEF AnswerSound
  <1>2. CASE \A c \in Conns : ~Dispatch(c)
    BY <1>2, AnswersAreOld, HoldersShrink DEF AnswerSound
  <1> QED BY <1>1, <1>2

-----------------------------------------------------------------------------
(* A fenced answer is still true when it is settled                        *)

\* A call that forgets while another thread is busy is the plant step beside a
\* demotion.
LEMMA ForgettingBesideYield ==
    ASSUME ThreadSound, NEW d \in Drivers, NEW t \in Threads, NEW u \in Threads \ {t},
           Busy(d, t), Busy(d, u), Forgets(call[d][t])
    PROVE  /\ call[d][u].op = "yield" /\ call[d][u].stage = "first"
           /\ RequestOf(call[d][u]) = "yield"
           /\ ~Forgets(call[d][u]) /\ ~Records(call[d][u])
  <1>1. call[d][u].op = "yield"
    BY DEF ThreadSound, Forgets, Threads
  <1>2. call[d][u].stage = "first"
    BY <1>1 DEF ThreadSound
  <1> QED BY <1>1, <1>2 DEF RequestOf, Forgets, Records, Grants

\* What ForgetSound says of one process.
ForgetOf(d) ==
    \A t \in Threads :
        call[d][t].phase = "settle" /\ Forgets(call[d][t]) =>
            /\ stream[d] \notin claim.holders
            /\ \A u \in Threads \ {t} :
                  /\ call[d][u].phase # "attach"
                  /\ Busy(d, u) /\ stream[d] = NoConn => owner[d] = NoToken

\* Another process's answers are unaffected by a step of d.
LEMMA ForgetOwn ==
    ASSUME FencingInv, ForgetSound, NEW d \in Drivers, Client(d), ForgetOf(d)'
    PROVE  ForgetSound'
  <1> SUFFICES ASSUME NEW e \in Drivers \ {d} PROVE ForgetOf(e)'
    BY DEF ForgetSound, ForgetOf
  <1>1. ForgetOf(e)
    BY DEF ForgetSound, ForgetOf
  <1>2. /\ \A u \in Threads : call'[e][u] = call[e][u]
        /\ owner'[e] = owner[e] /\ stream'[e] = stream[e] /\ claim' = claim
    BY ClientFrame, ClientKeepsClaim DEF LinkFrame
  <1> QED BY <1>1, <1>2 DEF ForgetOf, Busy, Forgets

\* Nothing re-asserts a token between a fenced answer and its settling: the
\* only call that may run in between is a demotion, which forgot the token.
LEMMA ForgetStep ==
    ASSUME FencingInv, ThreadSound, ThreadSound', LinkSound, AnswerSound, ForgetSound,
           [Next]_vars
    PROVE  ForgetSound'
  <1> USE DEF OthersStay
  <1>1. ASSUME NEW d \in Drivers, NEW t \in Threads, NEW op \in Ops, Start(d, t, op)
        PROVE  ForgetOf(d)'
    <2>1. OthersStay(d, t) /\ call'[d][t].phase = "ready" /\ call'[d][t].op = op
      BY <1>1, StartCall
    <2>2. UNCHANGED <<claim, stream>> /\ (op = "yield" => owner'[d] = NoToken)
      BY <1>1 DEF Start, StartOwner, Releases, FencingInv, TypeOK
    <2> SUFFICES ASSUME NEW u \in Threads, call'[d][u].phase = "settle",
                        Forgets(call'[d][u])
                 PROVE  /\ stream[d] \notin claim.holders
                        /\ \A w \in Threads \ {u} :
                              /\ call'[d][w].phase # "attach"
                              /\ Busy(d, w)' /\ stream[d] = NoConn => owner'[d] = NoToken
      BY <2>2 DEF ForgetOf, Forgets
    <2>3. u # t /\ call'[d][u] = call[d][u]
      BY <2>1
    <2>4. call'[d][t].op = "yield"
      <3>1. call'[d]["scan"].phase # "idle" /\ call'[d]["http"].phase # "idle"
        BY <2>1, <2>3 DEF Threads
      <3>2. call'[d]["scan"].op = "mutate" /\ call'[d]["http"].op = "yield"
        BY <3>1 DEF ThreadSound, Busy
      <3> QED BY <2>3, <3>2 DEF Forgets, Threads
    <2>5. \A w \in Threads \ {u} : w = t
      BY <2>3 DEF Threads
    <2> QED BY <2>1, <2>2, <2>3, <2>4, <2>5 DEF ForgetSound, Forgets
  <1>2. ASSUME NEW d \in Drivers, NEW t \in Threads, Send(d, t) PROVE ForgetOf(d)'
    <2>1. OthersStay(d, t) /\ Advances(d, t, "sent")
      BY <1>2, PhaseCall DEF Send, Phases
    <2>2. UNCHANGED <<claim, stream, owner>> /\ Busy(d, t)
      BY <1>2 DEF Send, Busy
    <2> QED BY <2>1, <2>2 DEF ForgetSound, ForgetOf, Advances, Forgets, Busy, Threads
  <1>3. ASSUME NEW d \in Drivers, NEW t \in Threads, NoLink(d, t) PROVE ForgetOf(d)'
    <2>1. OthersStay(d, t) /\ call'[d][t].phase = "idle" /\ UNCHANGED <<claim, stream, owner>>
      BY <1>3, EndCall DEF NoLink
    <2> QED BY <2>1 DEF ForgetSound, ForgetOf, Forgets, Busy, Threads
  <1>4. ASSUME NEW d \in Drivers, NEW t \in Threads, NEW c \in Conns, Dial(d, t, c)
        PROVE  ForgetOf(d)'
    <2> DEFINE phase == IF owner[d] # NoToken THEN "attach" ELSE "sent"
    <2>1. OthersStay(d, t) /\ Advances(d, t, phase)
      BY <1>4, PhaseCall DEF Dial, Phases
    <2>2. /\ stream[d] = NoConn /\ stream'[d] = c /\ c # NoConn /\ Busy(d, t)
          /\ UNCHANGED <<claim, owner>>
      BY <1>4, DriverAssumption DEF Dial, Busy, FencingInv, TypeOK
    <2>3. c \notin claim.holders
      BY <1>4 DEF Dial, FreshConn, FencingInv, FencingSound
    <2> SUFFICES ASSUME NEW u \in Threads, call'[d][u].phase = "settle",
                        Forgets(call'[d][u]), NEW w \in Threads \ {u}
                 PROVE  call'[d][w].phase # "attach"
      BY <2>2, <2>3 DEF ForgetOf, Forgets
    <2>4. u # t /\ w = t
      BY <2>1 DEF Advances, Threads
    <2>5. owner[d] = NoToken
      BY <2>1, <2>2, <2>4 DEF ForgetSound
    <2> QED BY <2>1, <2>4, <2>5 DEF Advances
  <1>5. ASSUME NEW d \in Drivers, NEW t \in Threads, Attached(d, t) PROVE ForgetOf(d)'
    <2>1. OthersStay(d, t) /\ Advances(d, t, "sent") /\ call[d][t].phase = "attach"
      BY <1>5, PhaseCall DEF Attached, Phases
    <2> QED BY <2>1 DEF ForgetSound, ForgetOf, Forgets, Advances, Threads
  <1>6. ASSUME NEW d \in Drivers, NEW t \in Threads, Receive(d, t) PROVE ForgetOf(d)'
    <2>1. stream[d] \in Conns /\ stream[d] # NoConn /\ lock[d] = t
      BY <1>6, WaitingStream, DriverAssumption DEF Receive
    <2>2. OthersStay(d, t) /\ UNCHANGED <<claim, stream, owner>>
      BY <1>6, ReceiveCall DEF Receive
    <2>3. \A u \in Threads \ {t} : call[d][u].phase # "attach"
      BY <2>1, WaitingStream
    <2>4. call'[d][t].phase # "attach"
      BY <1>6, ReceiveCall DEF Advances
    <2>5. call'[d][t].phase = "settle" /\ Forgets(call'[d][t]) => stream[d] \notin claim.holders
      <3>1. wire[stream[d]].kind = "reply"
        BY <1>6 DEF Receive
      <3>2. call'[d][t].phase = "settle" => call'[d][t].verdict = wire[stream[d]].verdict
        BY <1>6, ReceiveCall
      <3> QED BY <2>1, <3>1, <3>2 DEF Forgets, AnswerSound
    <2> QED BY <2>1, <2>2, <2>3, <2>4, <2>5 DEF ForgetSound, ForgetOf, Forgets, Threads
  <1>7. ASSUME NEW d \in Drivers, NEW t \in Threads, FailExchange(d, t)
        PROVE  ForgetOf(d)'
    <2>1. OthersStay(d, t) /\ call'[d][t].phase = "idle" /\ lock[d] = t
      BY <1>7, EndCall, WaitingStream DEF FailExchange
    <2>2. stream'[d] = NoConn /\ stream'[d] \notin claim'.holders
      BY <1>7, DriverAssumption DEF FailExchange, FencingInv, TypeOK, Claims
    <2> QED BY <2>1, <2>2 DEF ForgetOf, Forgets, Busy, Threads
  <1>8. ASSUME NEW d \in Drivers, NEW t \in Threads, Settle(d, t) PROVE ForgetOf(d)'
    <2>1. /\ OthersStay(d, t) /\ call'[d][t].phase \in {"idle", "ready"}
          /\ UNCHANGED <<claim, stream>> /\ Busy(d, t)
          /\ owner'[d] = SettledOwner(d, call[d][t])
      BY <1>8, SettleCall DEF Settle, Busy, FencingInv, TypeOK
    <2> SUFFICES ASSUME NEW u \in Threads, call'[d][u].phase = "settle",
                        Forgets(call'[d][u])
                 PROVE  /\ stream[d] \notin claim.holders
                        /\ \A w \in Threads \ {u} :
                              /\ call'[d][w].phase # "attach"
                              /\ Busy(d, w)' /\ stream[d] = NoConn => owner'[d] = NoToken
      BY <2>1 DEF ForgetOf, Forgets
    <2>2. u # t /\ call'[d][u] = call[d][u] /\ Busy(d, u)
      BY <2>1 DEF Busy
    <2>3. owner'[d] = owner[d]
      BY <2>1, <2>2, ForgettingBesideYield DEF SettledOwner
    <2>4. \A w \in Threads \ {u} : w = t
      BY <2>2 DEF Threads
    <2> QED BY <2>1, <2>2, <2>3, <2>4 DEF ForgetSound
  <1>9. ASSUME NEW d \in Drivers, Crash(d) PROVE ForgetOf(d)'
    BY <1>9, CrashCall DEF ForgetOf, Forgets
  <1>10. ASSUME NEW c \in Conns, Dispatch(c) PROVE ForgetSound'
    <2>1. UNCHANGED <<call, stream, owner, lock>> /\ wire[c].kind = "request"
          /\ claim' = Arbitrate(c, wire[c]).claim
      BY <1>10 DEF Dispatch
    <2> SUFFICES ASSUME NEW d \in Drivers, NEW t \in Threads, call[d][t].phase = "settle",
                        Forgets(call[d][t]), stream[d] = c
                 PROVE  c \notin claim'.holders
      BY <1>10, <2>1, DispatchHolders DEF ForgetSound, Forgets, Busy
    <2>2. lock[d] # "free" /\ lock[d] # t
      BY <2>1, DriverAssumption DEF LinkSound
    <2>3. PICK u \in Threads \ {t} : lock[d] = u
      BY <2>2 DEF FencingInv, TypeOK
    <2>4. call[d][u].phase = "sent"
      BY <2>3 DEF LinkSound, ForgetSound
    <2>5. wire[c].req = "yield"
      BY <2>1, <2>3, <2>4, ForgettingBesideYield DEF LinkSound, Busy
    <2> QED BY <2>1, <2>5, ArbitrateAnswer DEF Releases
  <1>11. CASE UNCHANGED <<call, stream, owner>> /\ \A c \in Conns : ~Dispatch(c)
    BY <1>11, HoldersShrink DEF ForgetSound, Forgets, Busy
  <1>12. ASSUME NEW d \in Drivers, Client(d) PROVE ForgetSound'
    <2>1. ForgetOf(d)'
      BY <1>1, <1>2, <1>3, <1>4, <1>5, <1>6, <1>7, <1>8, <1>9, <1>12 DEF Client
    <2> QED BY <1>12, <2>1, ForgetOwn
  <1>13. ASSUME NEW c \in Conns, CloseConn(c) PROVE ForgetSound'
    BY <1>10, <1>11, <1>13 DEF CloseConn
  <1>14. CASE Restart \/ UNCHANGED vars
    BY <1>10, <1>11, <1>14 DEF Restart, vars
  <1> QED BY <1>10, <1>12, <1>13, <1>14 DEF Next

-----------------------------------------------------------------------------
(* A forgotten token holds nothing                                         *)

\* What HoldSound says of one process.
HoldOf(d) ==
    owner[d] = NoToken /\ stream[d] \in claim.holders =>
        \E t \in Threads : Releasing(d, t) \/ Granting(d, t)

\* Another process's hold is unaffected by a step of d.
LEMMA HoldOwn ==
    ASSUME FencingInv, HoldSound, NEW d \in Drivers, Client(d), HoldOf(d)'
    PROVE  HoldSound'
  <1> SUFFICES ASSUME NEW e \in Drivers \ {d} PROVE HoldOf(e)'
    BY DEF HoldSound, HoldOf
  <1>1. HoldOf(e) /\ claim.holders \subseteq Conns
    BY DEF HoldSound, HoldOf, FencingInv, TypeOK, Claims
  <1>2. /\ \A u \in Threads : call'[e][u] = call[e][u]
        /\ owner'[e] = owner[e] /\ stream'[e] = stream[e] /\ claim' = claim
        /\ stream[e] \in Conns => wire'[stream[e]] = wire[stream[e]]
    BY ClientFrame, ClientKeepsClaim DEF LinkFrame
  <1> QED BY <1>1, <1>2 DEF HoldOf, Releasing, Granting, RequestOf, Records, Unclaimed

\* A process that starts to hold the field, or that forgets the token of a
\* field it holds, is inside the call that will record or release it.
LEMMA HoldStep ==
    ASSUME FencingInv, ThreadSound, LinkSound, AnswerSound, ForgetSound, HoldSound,
           [Next]_vars
    PROVE  HoldSound'
  <1> USE DEF OthersStay
  <1>1. ASSUME NEW d \in Drivers, NEW t \in Threads, NEW op \in Ops, Start(d, t, op)
        PROVE  HoldOf(d)'
    <2>1. OthersStay(d, t) /\ call'[d][t].phase = "ready" /\ call'[d][t].op = op
      BY <1>1, StartCall
    <2>2. /\ UNCHANGED <<claim, stream, wire>> /\ call[d][t].phase = "idle"
          /\ owner'[d] = IF op \in Releases THEN NoToken ELSE owner[d]
      BY <1>1 DEF Start, StartOwner, Busy, FencingInv, TypeOK
    <2>3. CASE op \in Releases
      BY <2>1, <2>3 DEF HoldOf, Releasing
    <2>4. CASE op \notin Releases
      <3>1. \A u \in Threads : Releasing(d, u) \/ Granting(d, u) => u # t
        BY <2>2 DEF Releasing, Granting
      <3>2. \A u \in Threads \ {t} : /\ Releasing(d, u) => Releasing(d, u)'
                                     /\ Granting(d, u) => Granting(d, u)'
        BY <2>1, <2>2 DEF Releasing, Granting, RequestOf, Records
      <3> QED BY <2>2, <2>4, <3>1, <3>2 DEF HoldSound, HoldOf
    <2> QED BY <2>3, <2>4
  <1>2. ASSUME NEW d \in Drivers, NEW t \in Threads, Send(d, t) PROVE HoldOf(d)'
    <2>1. OthersStay(d, t) /\ Advances(d, t, "sent")
      BY <1>2, PhaseCall DEF Send, Phases
    <2>2. /\ UNCHANGED <<claim, stream, owner>> /\ stream[d] \in Conns
          /\ call[d][t].phase = "ready" /\ lock[d] = "free"
      BY <1>2 DEF Send, FencingInv, TypeOK
    <2>3. \A u \in Threads : call[d][u].phase # "sent"
      BY <2>2, WaitingStream DEF Threads
    <2> SUFFICES ASSUME owner[d] = NoToken, stream[d] \in claim.holders
                 PROVE  \E u \in Threads : Releasing(d, u)' \/ Granting(d, u)'
      BY <2>2 DEF HoldOf
    <2>4. wire'[stream[d]].kind = "request"
      <3>1. up[stream[d]] /\ call[d][t] \in Calls
        BY DEF FencingInv, FencingSound, TypeOK
      <3>2. MessageOf(d, call[d][t]).kind = "request"
        BY <3>1, MessageSound
      <3> QED BY <1>2, <2>2, <3>1, <3>2 DEF Send, FencingInv, TypeOK
    <2>5. PICK u \in Threads : Releasing(d, u) \/ Granting(d, u)
      BY DEF HoldSound
    <2>6. CASE u = t
      <3>1. Releasing(d, t)
        BY <2>2, <2>5, <2>6 DEF Granting
      <3>2. Releasing(d, t)'
        BY <2>1, <2>2, <2>4, <3>1 DEF Releasing, Advances
      <3> QED BY <3>2
    <2>7. CASE u # t
      <3>1. call'[d][u] = call[d][u]
        BY <2>1, <2>7
      <3> QED BY <2>3, <2>5, <3>1 DEF Releasing, Granting, Records
    <2> QED BY <2>6, <2>7
  <1>3. ASSUME NEW d \in Drivers, NEW t \in Threads, NEW c \in Conns, Dial(d, t, c)
        PROVE  HoldOf(d)'
    <2>1. stream'[d] = c /\ UNCHANGED claim
      BY <1>3 DEF Dial, FencingInv, TypeOK
    <2>2. c \notin claim.holders
      BY <1>3 DEF Dial, FreshConn, FencingInv, FencingSound
    <2> QED BY <2>1, <2>2 DEF HoldOf
  <1>4. ASSUME NEW d \in Drivers, NEW t \in Threads,
               NoLink(d, t) \/ FailExchange(d, t) \/ Crash(d)
        PROVE  HoldOf(d)'
    <2>1. stream'[d] = NoConn /\ claim' = claim
      BY <1>4 DEF NoLink, FailExchange, Crash, FencingInv, TypeOK
    <2>2. NoConn \notin claim.holders
      BY DriverAssumption DEF FencingInv, TypeOK, Claims
    <2> QED BY <2>1, <2>2 DEF HoldOf
  <1>5. ASSUME NEW d \in Drivers, NEW t \in Threads, Attached(d, t) PROVE HoldOf(d)'
    <2>1. /\ owner[d] # NoToken /\ wire[stream[d]].kind = "reply"
          /\ stream[d] \in Conns /\ UNCHANGED <<claim, stream>>
          /\ owner'[d] = AttachedOwner(d, wire[stream[d]].verdict)
      BY <1>5, WaitingStream DEF Attached, LinkSound, FencingInv, TypeOK
    <2>2. owner'[d] = NoToken => stream[d] \notin claim.holders
      BY <2>1 DEF AttachedOwner, AnswerSound
    <2> QED BY <2>1, <2>2 DEF HoldOf
  <1>6. ASSUME NEW d \in Drivers, NEW t \in Threads, Receive(d, t) PROVE HoldOf(d)'
    <2>1. /\ UNCHANGED <<claim, stream, owner>> /\ wire[stream[d]].kind = "reply"
          /\ call[d][t].phase = "sent" /\ lock[d] = t
      BY <1>6, WaitingStream DEF Receive
    <2>2. OthersStay(d, t)
      BY <1>6, ReceiveCall
    <2> SUFFICES ASSUME owner[d] = NoToken, stream[d] \in claim.holders
                 PROVE  \E u \in Threads : Releasing(d, u)' \/ Granting(d, u)'
      BY <2>1 DEF HoldOf
    <2>3. PICK u \in Threads : Releasing(d, u) \/ Granting(d, u)
      BY DEF HoldSound
    <2>4. CASE u = t
      <3>1. Granted(wire[stream[d]].verdict) /\ RequestOf(call[d][t]) \in Grants
        BY <2>1, <2>3, <2>4 DEF Releasing, Granting
      <3>2. call'[d][t].phase = "settle" /\ Records(call'[d][t])
        BY <1>6, <3>1, ReceiveCall
      <3>3. Granting(d, t)'
        BY <3>2 DEF Granting, Records
      <3> QED BY <3>3
    <2>5. CASE u # t
      <3>1. call'[d][u] = call[d][u] /\ call[d][u].phase # "sent"
        BY <2>1, <2>2, <2>5, WaitingStream
      <3> QED BY <2>3, <3>1 DEF Releasing, Granting, Records
    <2> QED BY <2>4, <2>5
  <1>7. ASSUME NEW d \in Drivers, NEW t \in Threads, Settle(d, t) PROVE HoldOf(d)'
    <2>1. /\ UNCHANGED <<claim, stream, wire>> /\ call[d][t].phase = "settle"
          /\ owner'[d] = SettledOwner(d, call[d][t])
          /\ call[d][t].token \in Tokens /\ NoToken \notin Tokens
      BY <1>7, DriverAssumption, TokenAssumption
      DEF Settle, FencingInv, TypeOK, TokenSound, Busy
    <2>2. OthersStay(d, t)
      BY <1>7, SettleCall
    <2>3. CASE Forgets(call[d][t])
      BY <2>1, <2>3 DEF ForgetSound, HoldOf
    <2>4. CASE Records(call[d][t])
      BY <2>1, <2>4 DEF SettledOwner, Forgets, Records, Granted, HoldOf
    <2>5. CASE ~Forgets(call[d][t]) /\ ~Records(call[d][t])
      <3>1. owner'[d] = owner[d]
        BY <2>1, <2>5 DEF SettledOwner
      <3>2. \A u \in Threads : Releasing(d, u) \/ Granting(d, u) => u # t
        BY <2>1, <2>5 DEF Releasing, Granting
      <3>3. \A u \in Threads \ {t} : /\ Releasing(d, u) => Releasing(d, u)'
                                     /\ Granting(d, u) => Granting(d, u)'
        BY <2>1, <2>2 DEF Releasing, Granting, RequestOf, Records
      <3> QED BY <2>1, <3>1, <3>2, <3>3 DEF HoldSound, HoldOf
    <2> QED BY <2>3, <2>4, <2>5
  <1>8. ASSUME NEW c \in Conns, Dispatch(c) PROVE HoldSound'
    <2>1. /\ UNCHANGED <<call, stream, owner, lock>> /\ wire[c].kind = "request"
          /\ claim' = Arbitrate(c, wire[c]).claim
          /\ wire'[c].kind = "reply" /\ wire'[c].verdict = Arbitrate(c, wire[c]).verdict
          /\ \A e \in Conns \ {c} : wire'[e] = wire[e]
      BY <1>8 DEF Dispatch, Response, Silence, FencingInv, TypeOK
    <2> SUFFICES ASSUME NEW d \in Drivers, owner[d] = NoToken,
                        stream[d] \in claim'.holders
                 PROVE  \E t \in Threads : Releasing(d, t)' \/ Granting(d, t)'
      BY <2>1 DEF HoldSound
    <2>2. CASE stream[d] # c
      <3>1. stream[d] \in claim.holders /\ stream[d] \in Conns
        BY <1>8, <2>2, DispatchHolders DEF FencingInv, TypeOK, Claims
      <3>2. wire'[stream[d]] = wire[stream[d]]
        BY <2>1, <2>2, <3>1
      <3> QED BY <2>1, <3>1, <3>2
              DEF HoldSound, Releasing, Granting, RequestOf, Records
    <2>3. CASE stream[d] = c
      <3>1. PICK t \in Threads : lock[d] = t
        BY <2>1, <2>3, DriverAssumption DEF LinkSound, FencingInv, TypeOK
      <3>2. call[d][t].phase = "sent" /\ wire[c].req = RequestOf(call[d][t])
        BY <2>1, <2>3, <3>1 DEF LinkSound
      <3>3. wire[c].req \notin Releases
        BY <2>1, <2>3, ArbitrateAnswer
      <3>4. CASE wire[c].req \in Grants
        <4>1. Granted(wire'[c].verdict)
          BY <2>1, <2>3, <3>4, ArbitrateAnswer
        <4>2. Granting(d, t)'
          BY <2>1, <2>3, <3>2, <3>4, <4>1 DEF Granting, RequestOf
        <4> QED BY <4>2
      <3>5. CASE wire[c].req \notin Grants
        <4>1. c \in claim.holders
          BY <2>1, <2>3, <3>5, ArbitrateAnswer
        <4>2. PICK u \in Threads : Releasing(d, u) \/ Granting(d, u)
          BY <2>3, <4>1 DEF HoldSound
        <4>3. u # t
          <5>1. call[d][t].op \notin Releases
            BY <3>2, <3>3 DEF ThreadSound, Busy, RequestOf, Releases
          <5> QED BY <2>1, <2>3, <3>2, <4>2, <5>1 DEF Releasing, Granting
        <4>4. call[d][u].phase # "sent"
          BY <3>1, <4>3, WaitingStream
        <4> QED BY <2>1, <4>2, <4>4 DEF Releasing, Granting, Records
      <3> QED BY <3>4, <3>5
    <2> QED BY <2>2, <2>3
  <1>9. ASSUME NEW c \in Conns, CloseConn(c) PROVE HoldSound'
    <2>1. /\ claim'.holders = claim.holders \ {c} /\ UNCHANGED <<call, stream, owner>>
          /\ \A e \in Conns \ {c} : wire'[e] = wire[e]
      BY <1>9 DEF CloseConn, ReleaseHold, FencingInv, TypeOK, Claims
    <2>2. claim.holders \subseteq Conns
      BY DEF FencingInv, TypeOK, Claims
    <2> QED BY <2>1, <2>2 DEF HoldSound, Releasing, Granting, RequestOf, Records
  <1>10. CASE Restart
    BY <1>10, Vocabulary DEF Restart, HoldSound
  <1>11. CASE UNCHANGED vars
    BY <1>11 DEF vars, HoldSound, Releasing, Granting, RequestOf, Records
  <1>12. ASSUME NEW d \in Drivers, Client(d) PROVE HoldSound'
    <2>1. HoldOf(d)'
      BY <1>1, <1>2, <1>3, <1>4, <1>5, <1>6, <1>7, <1>12 DEF Client, Threads
    <2> QED BY <1>12, <2>1, HoldOwn
  <1> QED BY <1>8, <1>9, <1>10, <1>11, <1>12 DEF Next

\* The invariants behind ForgottenNeverHolds, together.
ForgetInv == OwnerInv /\ LinkSound /\ AnswerSound /\ ForgetSound /\ HoldSound

\* They hold in every state of every behaviour.
LEMMA ForgetIsSound == Spec => []ForgetInv
  <1>1. Init => LinkSound /\ AnswerSound /\ ForgetSound /\ HoldSound
    BY DriverAssumption
    DEF Init, LinkSound, AnswerSound, ForgetSound, HoldSound, NoClaim, Silence, NoCall,
        Threads
  <1>2. ForgetInv /\ OwnerInv' /\ [Next]_vars => ForgetInv'
    BY LinkStep, AnswerStep, ForgetStep, HoldStep DEF ForgetInv, OwnerInv
  <1>3. Init /\ OwnerInv => ForgetInv
    BY <1>1 DEF ForgetInv
  <1> QED BY <1>2, <1>3, OwnerIsSound, PTL DEF Spec

\* A process that runs no call and has no token recorded holds no part of the
\* field: what a driver believes of itself never lags behind what the field
\* would accept of it, with two threads on one driver, lost answers, abandoned
\* connections that still execute, restarts and crashes.
THEOREM ForgottenIsUnheld == Spec => []ForgottenNeverHolds
  <1>1. ForgetInv => ForgottenNeverHolds
    BY DEF ForgetInv, HoldSound, ForgottenNeverHolds, Busy, Releasing, Granting
  <1> QED BY <1>1, ForgetIsSound, PTL

-----------------------------------------------------------------------------
(* The hand-back                                                           *)

\* Nothing a driver runs after a hand-back, and before it claims again, can
\* record a token; without HTTP demotions nothing runs beside it either.
HandbackSound ==
    \A d \in Drivers :
        /\ ~Busy(d, "http")
        /\ handedBack[d] =>
              /\ owner[d] = NoToken
              /\ Busy(d, "scan") => /\ call[d]["scan"].op \notin Grants
                                    /\ call[d]["scan"].stage = "first"

\* What Started says of a step of d's own and of everybody else's.
LEMMA HandbackFrame ==
    ASSUME FencingInv, HandbackSound, NEW d \in Drivers, HandbackNext,
           \A t \in Threads : call'[d][t] = call[d][t], owner'[d] = owner[d]
    PROVE  /\ ~Busy(d, "http")'
           /\ handedBack'[d] =>
                 /\ owner'[d] = NoToken
                 /\ Busy(d, "scan")' => /\ call'[d]["scan"].op \notin Grants
                                        /\ call'[d]["scan"].stage = "first"
  <1>1. \A ops : ~Started(d, ops)
    BY DEF Started, Busy
  <1>2. handedBack'[d] => handedBack[d]
    BY <1>1 DEF HandbackNext
  <1> QED BY <1>2 DEF HandbackSound, Busy, Threads

\* Every step preserves it when no process serves switchover calls.
LEMMA HandbackStep ==
    ASSUME Http = {}, FencingInv, HandbackSound, [HandbackNext]_<<vars, handedBack>>
    PROVE  HandbackSound'
  <1> DEFINE Kept(e) == /\ ~Busy(e, "http")'
                        /\ handedBack'[e] =>
                              /\ owner'[e] = NoToken
                              /\ Busy(e, "scan")' => /\ call'[e]["scan"].op \notin Grants
                                                     /\ call'[e]["scan"].stage = "first"
  <1>1. CASE UNCHANGED <<vars, handedBack>>
    BY <1>1 DEF vars, HandbackSound, Busy
  <1>2. ASSUME HandbackNext, NEW d \in Drivers, Client(d), Kept(d) PROVE HandbackSound'
    <2>1. \A e \in Drivers \ {d} : Kept(e)
      BY <1>2, ClientFrame, HandbackFrame DEF LinkFrame
    <2> QED BY <1>2, <2>1 DEF HandbackSound
  <1>3. ASSUME HandbackNext, UNCHANGED <<call, owner>> PROVE HandbackSound'
    <2>1. \A e \in Drivers : Kept(e)
      BY <1>3, HandbackFrame
    <2> QED BY <2>1 DEF HandbackSound
  <1>4. ASSUME HandbackNext, NEW d \in Drivers, Client(d) PROVE Kept(d)
    <2>0. /\ handedBack'[d] = (Started(d, {"yield"}) \/ (handedBack[d] /\ ~Started(d, Grants)))
          /\ "scan" \in Threads /\ "http" \in Threads
      BY <1>4 DEF HandbackNext, Threads
    <2>1. ASSUME NEW t \in Threads, NEW op \in Ops, Start(d, t, op) PROVE Kept(d)
      <3>1. OthersStay(d, t) /\ call'[d][t].phase = "ready" /\ call'[d][t].op = op
            /\ call'[d][t].stage = "first" /\ ~Busy(d, t)
        BY <2>1, StartCall DEF Start
      <3>2. t = "scan"
        BY <2>1 DEF Start, MayStart, Threads
      <3>3. \A ops : Started(d, ops) <=> op \in ops
        BY <2>0, <3>1, <3>2 DEF Started, OthersStay, Busy, Threads
      <3>4. owner'[d] = IF op \in Releases THEN NoToken ELSE owner[d]
        BY <2>1 DEF Start, StartOwner, FencingInv, TypeOK
      <3>5. ~Busy(d, "http")'
        BY <2>0, <3>1, <3>2 DEF HandbackSound, OthersStay, Busy
      <3>6. handedBack'[d] => op \notin Grants /\ owner'[d] = NoToken
        BY <2>0, <3>3, <3>4 DEF HandbackSound, Releases, Grants
      <3> QED BY <3>1, <3>2, <3>5, <3>6
    <2>2. ASSUME NEW t \in Threads, Busy(d, t), OthersStay(d, t),
                 call'[d][t].phase = "idle" \/ Advances(d, t, call'[d][t].phase),
                 owner'[d] = owner[d] \/ owner'[d] = NoToken
          PROVE  Kept(d)
      <3>1. t = "scan"
        BY <2>2 DEF HandbackSound, Threads
      <3>2. ~Started(d, {"yield"})
        BY <2>2 DEF Started, OthersStay, Busy
      <3>3. ~Busy(d, "http")'
        BY <2>0, <2>2, <3>1 DEF HandbackSound, OthersStay, Busy
      <3> QED BY <2>0, <2>2, <3>1, <3>2, <3>3 DEF HandbackSound, Advances, Busy
    <2>3. ASSUME NEW t \in Threads, Send(d, t) PROVE Kept(d)
      BY <2>2, <2>3, PhaseCall DEF Send, Phases, Busy, Advances
    <2>4. ASSUME NEW t \in Threads, NEW c \in Conns, Dial(d, t, c) PROVE Kept(d)
      <3> DEFINE phase == IF owner[d] # NoToken THEN "attach" ELSE "sent"
      <3>1. phase \in Phases /\ call' = [call EXCEPT ![d][t].phase = phase] /\ Busy(d, t)
            /\ UNCHANGED owner
        BY <2>4 DEF Dial, Phases, Busy
      <3> HIDE DEF phase
      <3> QED BY <2>2, <3>1, PhaseCall DEF Advances
    <2>5. ASSUME NEW t \in Threads, Attached(d, t) PROVE Kept(d)
      <3>1. OthersStay(d, t) /\ Advances(d, t, "sent") /\ Busy(d, t)
        BY <2>5, PhaseCall DEF Attached, Phases, Busy
      <3>2. owner'[d] \in {owner[d], NoToken}
        BY <2>5 DEF Attached, AttachedOwner, FencingInv, TypeOK
      <3> QED BY <2>2, <3>1, <3>2 DEF Advances
    <2>6. ASSUME NEW t \in Threads, NoLink(d, t) \/ FailExchange(d, t) PROVE Kept(d)
      BY <2>2, <2>6, EndCall DEF NoLink, FailExchange, Busy
    <2>7. ASSUME NEW t \in Threads, Receive(d, t) PROVE Kept(d)
      BY <2>2, <2>7, ReceiveCall DEF Receive, Busy, Advances
    <2>8. ASSUME NEW t \in Threads, Settle(d, t) PROVE Kept(d)
      <3>1. /\ Busy(d, t) /\ t = "scan"
            /\ owner'[d] = SettledOwner(d, call[d][t])
            /\ call'[d][t] = NextCall(d, call[d][t])
        BY <2>8 DEF Settle, HandbackSound, Busy, Threads, FencingInv, TypeOK
      <3>2. OthersStay(d, t)
        BY <2>8, SettleCall
      <3>3. ~Started(d, {"yield"}) /\ ~Busy(d, "http")'
        BY <2>0, <3>1, <3>2 DEF HandbackSound, Started, OthersStay, Busy
      <3>4. ASSUME handedBack[d]
            PROVE  owner'[d] = NoToken /\ call'[d][t].phase = "idle"
        <4>1. owner[d] = NoToken /\ call[d][t].op \notin Grants /\ call[d][t].stage = "first"
          BY <3>1, <3>4 DEF HandbackSound
        <4>2. owner'[d] = NoToken
          BY <3>1, <4>1 DEF SettledOwner, Records
        <4>3. call'[d][t] = NoCall
          BY <3>1, <4>1 DEF NextCall, Rearms
        <4> QED BY <4>2, <4>3, Vocabulary
      <3> QED BY <2>0, <3>1, <3>3, <3>4 DEF Busy
    <2>9. CASE Crash(d)
      <3>1. ~Started(d, {"yield"}) /\ owner'[d] = NoToken
        BY <2>9, CrashCall DEF Started, Crash, FencingInv, TypeOK
      <3> QED BY <2>0, <2>9, <3>1, CrashCall DEF Busy
    <2> QED BY <1>4, <2>1, <2>3, <2>4, <2>5, <2>6, <2>7, <2>8, <2>9 DEF Client
  <1>5. CASE HandbackNext
    <2>1. CASE \E d \in Drivers : Client(d)
      BY <1>2, <1>4, <1>5, <2>1
    <2>2. CASE Restart \/ \E c \in Conns : Dispatch(c) \/ CloseConn(c)
      BY <1>3, <1>5, <2>2 DEF Dispatch, CloseConn, Restart
    <2> QED BY <1>5, <2>1, <2>2 DEF HandbackNext, Next
  <1> QED BY <1>1, <1>5

\* With demotions on the scan thread only (no process serves switchover calls),
\* a driver that handed the field back remembers no token until it claims
\* again.  With an HTTP thread beside the plant step it does not hold.
THEOREM HandbackIsForgotten ==
    ASSUME Http = {}
    PROVE  HandbackSpec => []HandedBackStaysForgotten
  <1>1. HandbackInit => FencingInv /\ HandbackSound
    <2>1. Init => FencingInv
      BY InitFencing
    <2>2. HandbackInit => HandbackSound
      BY DEF HandbackInit, Init, HandbackSound, Busy, NoCall, Threads
    <2> QED BY <2>1, <2>2 DEF HandbackInit
  <1>2. FencingInv /\ HandbackSound /\ [HandbackNext]_<<vars, handedBack>>
            => FencingInv' /\ HandbackSound'
    <2>1. [HandbackNext]_<<vars, handedBack>> => [Next]_vars
      BY DEF HandbackNext
    <2> QED BY <2>1, NextFencing, HandbackStep
  <1>3. HandbackSound => HandedBackStaysForgotten
    BY DEF HandbackSound, HandedBackStaysForgotten
  <1> QED BY <1>1, <1>2, <1>3, PTL DEF HandbackSpec
=============================================================================
