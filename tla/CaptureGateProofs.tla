------------------------- MODULE CaptureGateProofs -------------------------
(***************************************************************************)
(* Proofs about CaptureGate, for any clients, leases, limits and plans: a   *)
(* client that is gone neither holds the capture nor shuts the microphone,  *)
(* the two copies of the gate agree when nothing is under way, and no text  *)
(* of a cancelled press passes the check.                                   *)
(***************************************************************************)
EXTENDS CaptureGate, SequenceTheorems, TLAPS

Gone     == Range(Clients)
Phrases  == Sources \X Nat
Commands == [mode : Modes, session : Sessions, gen : Int, active : BOOLEAN,
             cancelled : BOOLEAN, renew : BOOLEAN]
Contexts == [epoch : Int, mode : Modes, session : Sessions \union {None}, press : Int]
Texts    == [ctx : Contexts, heard : SUBSET Phrases]

\* A gate; how long it is blocked does not matter here.
GateOK(g) ==
    /\ DOMAIN g = {"mode", "enabled", "active", "session", "gen", "press", "epoch", "rev",
                   "blocked", "lease", "needs"}
    /\ g.mode \in Modes /\ g.enabled \in BOOLEAN /\ g.active \in BOOLEAN
    /\ g.session \in Sessions \union {None} /\ g.gen \in Int /\ g.press \in Int
    /\ g.epoch \in Nat /\ g.rev \in Nat /\ g.lease \in Nat /\ g.needs \in BOOLEAN

HandlerOK(h) ==
    /\ h.at = "sync" => /\ h.new.mode \in Modes /\ h.new.enabled \in BOOLEAN
                        /\ h.command = Nobody \/ h.command \in Commands
    /\ h.at = "command" => h.command \in Commands
    /\ h.at = "fence" => h.session \in Gone
    /\ h.at = "mute" => h.text \in Texts

QueuesOK ==
    /\ speechQ \in Seq([source : Sources, id : Nat, active : BOOLEAN])
    /\ commandQ \in Seq(Commands) /\ goneQ \in Seq(Gone) /\ textQ \in Seq(Texts)
    /\ DOMAIN handler = Lanes /\ \A l \in Lanes : HandlerOK(handler[l])

WindowOK ==
    /\ DOMAIN leases \subseteq Phrases /\ \A k \in DOMAIN leases : leases[k] \in Nat
    /\ tail \in Nat /\ closed \in Seq(Gone) /\ Len(closed) <= Memory
    /\ setting \in Settings /\ owner \in Gone \union {None}

GatesOK ==
    /\ GateOK(gate) /\ seen \in [Sessions -> Int] /\ retired \in Seq(Gone)
    /\ \A s \in wire : GateOK(s)
    /\ DOMAIN remote = {"gate", "applied"} /\ GateOK(remote.gate) /\ remote.applied \in Nat

WorkerOK ==
    /\ buffer \in [on : BOOLEAN, ctx : Contexts, heard : SUBSET Phrases,
                   done : Contexts \union {Nobody}]
    /\ jobs \in Seq(Texts) /\ Len(jobs) <= JobLimit
    /\ cancelled \subseteq Sessions \X Int /\ missed \in BOOLEAN
    /\ left \in [mode : Modes, changes : SUBSET Settings, sources : SUBSET Sources,
                 commands : Nat, desktop : Nat, phrases : Nat, replays : Nat, drops : Nat,
                 segments : Nat, stops : BOOLEAN, gen : Nat, talking : SUBSET Phrases]

Types == QueuesOK /\ WindowOK /\ GatesOK /\ WorkerOK

\* Two gates that are the same once both have let a capture lapse.
Same(g, h) == [Expire(g) EXCEPT !.rev = 0] = [Expire(h) EXCEPT !.rev = 0]

\* A revision names one gate: every change takes a new one, and the worker's copy is
\* the gate of the revision it has applied, but for a lapse it saw first.
Dated ==
    /\ gate.rev > 0 /\ remote.applied <= gate.rev
    /\ \A s \in wire : s.rev <= gate.rev /\ (s.rev = gate.rev => s = gate)
    /\ \A s, x \in wire : s.rev = x.rev => s = x
    /\ remote.applied = gate.rev => Same(remote.gate, gate)

Newest(s) == s.rev > remote.applied /\ \A x \in wire : x.rev <= s.rev

\* Unless a handler is about to publish, the newest snapshot, on its way or applied, is
\* the gate.
UpToDate ==
    (~missed /\ \A l \in Lanes : handler[l].at # "sync") =>
        \/ \E s \in wire : Newest(s) /\ Same(s, gate)
        \/ Same(remote.gate, gate) /\ \A x \in wire : x.rev <= remote.applied

Told(l) == handler[l].at \in {"sync", "command"} /\ handler[l].command # Nobody

\* A press that is still under way is nobody's yet.
Unused(c) == /\ c.gen \in 0 .. left.gen
             /\ c.active => c.gen # gate.press /\ \A p \in cancelled : p[2] # c.gen

PressesNew ==
    /\ gate.press <= left.gen /\ \A p \in cancelled : p[2] <= left.gen
    /\ \A i \in DOMAIN commandQ : Unused(commandQ[i])
    /\ \A l \in Lanes : Told(l) => Unused(handler[l].command) /\ l \in {"ptt", "gui"}
    /\ \A i, j \in DOMAIN commandQ :
           i # j /\ commandQ[i].active /\ commandQ[j].active => commandQ[i].gen # commandQ[j].gen
    /\ \A l \in Lanes, i \in DOMAIN commandQ :
           Told(l) /\ handler[l].command.active /\ commandQ[i].active
               => handler[l].command.gen # commandQ[i].gen
    /\ Told("ptt") /\ Told("gui") /\ handler["ptt"].command.active /\ handler["gui"].command.active
           => handler["ptt"].command.gen # handler["gui"].command.gen

\* What was captured under an epoch that still counts was not cancelled.
Uncancelled(x) ==
    /\ x.epoch <= gate.epoch
    /\ x.epoch = gate.epoch => <<x.session, x.press>> \notin cancelled
CopyFenced(g) == g.active => Uncancelled(g)
ContextFenced(x) == x.mode \in Manual => Uncancelled(x)

Fenced ==
    /\ CopyFenced(gate) /\ CopyFenced(remote.gate) /\ \A s \in wire : CopyFenced(s)
    /\ ContextFenced(buffer.ctx)
    /\ \A i \in DOMAIN jobs : ContextFenced(jobs[i].ctx)
    /\ \A i \in DOMAIN textQ : ContextFenced(textQ[i].ctx)

IInv == /\ Types /\ NoGhostPhrase /\ GoneStaysGone
        /\ Dated /\ UpToDate /\ PressesNew /\ Fenced

-----------------------------------------------------------------------------
(* The gate's operators.                                                    *)

\* A change that keeps the session and starts no capture.
Moves(g, h) ==
    /\ GateOK(h) /\ h.session = g.session /\ h.press = g.press
    /\ h = g \/ h.rev > g.rev
    /\ h.epoch >= g.epoch
    /\ h.active => g.active

LEMMA ResetFields ==
  ASSUME NEW g, GateOK(g)
  PROVE  \E n \in BOOLEAN : Reset(g) = [g EXCEPT !.needs = n, !.active = FALSE,
                                              !.epoch = g.epoch + 1, !.rev = g.rev + 1]
<1>1. Reset(g) = [g EXCEPT !.needs = g.needs \/ g.active, !.active = FALSE,
                           !.epoch = g.epoch + 1, !.rev = g.rev + 1]
  BY Zenon DEF Reset
<1>2. (g.needs \/ g.active) \in BOOLEAN
  OBVIOUS
<1> QED BY <1>1, <1>2, Zenon

LEMMA ResetMoves ==
  ASSUME NEW g, GateOK(g) PROVE Moves(g, Reset(g)) /\ Reset(g).rev > g.rev
<1>1. PICK n \in BOOLEAN : Reset(g) = [g EXCEPT !.needs = n, !.active = FALSE,
                                              !.epoch = g.epoch + 1, !.rev = g.rev + 1]
  BY ResetFields
<1> QED BY <1>1 DEF GateOK, Moves

LEMMA ExpireMoves == ASSUME NEW g, GateOK(g) PROVE Moves(g, Expire(g))
<1>1. CASE g.active /\ g.lease = 0
  <2>1. Expire(g) = [Reset(g) EXCEPT !.needs = TRUE]
    BY <1>1 DEF Expire
  <2> QED BY <2>1, ResetMoves DEF Moves, GateOK
<1>2. CASE ~(g.active /\ g.lease = 0)
  <2>1. Expire(g) = g
    BY <1>2 DEF Expire
  <2> QED BY <2>1 DEF Moves, GateOK
<1> QED BY <1>1, <1>2

\* What a lapse does.
LEMMA ExpireFields ==
  ASSUME NEW g, GateOK(g)
  PROVE  /\ g.active /\ g.lease = 0 =>
              Expire(g) = [g EXCEPT !.needs = TRUE, !.active = FALSE, !.epoch = g.epoch + 1,
                                    !.rev = g.rev + 1]
         /\ ~(g.active /\ g.lease = 0) => Expire(g) = g
<1>1. ASSUME g.active, g.lease = 0
      PROVE  Expire(g) = [g EXCEPT !.needs = TRUE, !.active = FALSE, !.epoch = g.epoch + 1,
                                   !.rev = g.rev + 1]
  <2>1. PICK n \in BOOLEAN : Reset(g) = [g EXCEPT !.needs = n, !.active = FALSE,
                                              !.epoch = g.epoch + 1, !.rev = g.rev + 1]
    BY ResetFields
  <2>2. Expire(g) = [Reset(g) EXCEPT !.needs = TRUE]
    BY <1>1 DEF Expire
  <2> QED BY <2>1, <2>2 DEF GateOK
<1>2. ASSUME ~(g.active /\ g.lease = 0) PROVE Expire(g) = g
  BY <1>2 DEF Expire
<1> QED BY <1>1, <1>2

LEMMA MovesCompose ==
  ASSUME NEW g, NEW h, NEW k, GateOK(g), Moves(g, h), Moves(h, k) PROVE Moves(g, k)
  BY DEF GateOK, Moves

\* A lapse that was seen is not seen again.
LEMMA ExpireSame == ASSUME NEW g, GateOK(g) PROVE Same(Expire(g), g)
<1>1. Expire(Expire(g)) = Expire(g)
  BY DEF GateOK, Expire, Reset
<1> QED BY <1>1 DEF Same

LEMMA SameIsEquivalence ==
  /\ \A g : Same(g, g)
  /\ \A g, h : Same(g, h) => Same(h, g)
  /\ \A g, h, k : Same(g, h) /\ Same(h, k) => Same(g, k)
BY DEF Same

LEMMA RevIsNoContent ==
  ASSUME NEW g, GateOK(g), NEW n \in Nat
  PROVE  GateOK([g EXCEPT !.rev = n]) /\ Same([g EXCEPT !.rev = n], g)
<1>1. GateOK([g EXCEPT !.rev = n])
  BY DEF GateOK
<1>2. CASE g.active /\ g.lease = 0
  BY <1>2 DEF GateOK, Same, Expire, Reset
<1>3. CASE ~(g.active /\ g.lease = 0)
  BY <1>3 DEF GateOK, Same, Expire, Reset
<1> QED BY <1>1, <1>2, <1>3

LEMMA LaterKeeps ==
  ASSUME NEW g, GateOK(g)
  PROVE  /\ GateOK(Later(g)) /\ Later(g).rev = g.rev /\ Later(g).epoch = g.epoch
         /\ Later(g).session = g.session /\ Later(g).press = g.press
         /\ Later(g).active = g.active /\ Later(g).mode = g.mode
BY DEF GateOK, Later, Sooner

LEMMA LapseCommutes ==
  ASSUME NEW g, GateOK(g), NEW b, NEW e, NEW r
  PROVE  [[g EXCEPT !.blocked = b, !.lease = 0]
              EXCEPT !.needs = TRUE, !.active = FALSE, !.epoch = e, !.rev = r]
         = [[g EXCEPT !.needs = TRUE, !.active = FALSE, !.epoch = e, !.rev = r]
              EXCEPT !.blocked = b, !.lease = 0]
BY DEF GateOK

\* Time passes in both copies alike: whether a capture has lapsed already makes no
\* difference to when it lapses.
LEMMA LaterOfExpired ==
  ASSUME NEW g, GateOK(g) PROVE Same(Later(g), Later(Expire(g)))
<1>1. CASE g.active /\ g.lease = 0
  <2>1. Expire(g) = [g EXCEPT !.needs = TRUE, !.active = FALSE, !.epoch = g.epoch + 1,
                              !.rev = g.rev + 1]
    BY <1>1, ExpireFields
  <2> DEFINE b == Sooner(g.blocked)
  <2>6. Later(g) = [g EXCEPT !.blocked = b, !.lease = 0]
    BY <1>1 DEF Later, Sooner
  <2>7. Later(Expire(g)) = [Expire(g) EXCEPT !.blocked = b, !.lease = 0]
    <3>1. Expire(g).blocked = g.blocked /\ Expire(g).lease = 0
      BY <1>1, <2>1 DEF GateOK
    <3>2. Sooner(0) = 0
      BY DEF Sooner
    <3> QED BY <3>1, <3>2 DEF Later
  <2> HIDE DEF b
  <2>2. GateOK(Later(g)) /\ Later(g).active /\ Later(g).lease = 0
    BY <1>1, <2>6 DEF GateOK
  <2>3. Expire(Later(g)) = [Later(g) EXCEPT !.needs = TRUE, !.active = FALSE,
                                 !.epoch = Later(g).epoch + 1, !.rev = Later(g).rev + 1]
    BY <2>2, ExpireFields
  <2>4. Expire(Later(g)) = Later(Expire(g))
    <3>1. Later(g).epoch = g.epoch /\ Later(g).rev = g.rev
      BY LaterKeeps
    <3>2. Expire(Later(g)) = [[g EXCEPT !.blocked = b, !.lease = 0]
                EXCEPT !.needs = TRUE, !.active = FALSE, !.epoch = g.epoch + 1, !.rev = g.rev + 1]
      BY <2>3, <2>6, <3>1, Zenon
    <3>3. Later(Expire(g)) = [[g EXCEPT !.needs = TRUE, !.active = FALSE, !.epoch = g.epoch + 1,
                                        !.rev = g.rev + 1] EXCEPT !.blocked = b, !.lease = 0]
      BY <2>1, <2>7, Zenon
    <3> QED BY <3>2, <3>3, LapseCommutes
  <2>5. Same(Later(g), Expire(Later(g)))
    BY <2>2, ExpireSame, SameIsEquivalence
  <2> QED BY <2>4, <2>5
<1>2. CASE ~(g.active /\ g.lease = 0)
  BY <1>2, ExpireFields, SameIsEquivalence
<1> QED BY <1>1, <1>2

LEMMA LaterSame ==
  ASSUME NEW g, NEW h, GateOK(g), GateOK(h), Same(g, h)
  PROVE  Same(Later(g), Later(h))
<1>1. [Expire(g) EXCEPT !.rev = 0] = [Expire(h) EXCEPT !.rev = 0]
  BY DEF Same
<1>2. ASSUME NEW k, GateOK(k)
      PROVE  Same(Later(k), Later([Expire(k) EXCEPT !.rev = 0]))
  <2>1. GateOK(Expire(k)) /\ GateOK(Later(Expire(k)))
    BY <1>2, ExpireMoves, LaterKeeps DEF Moves
  <2>2. Later([Expire(k) EXCEPT !.rev = 0]) = [Later(Expire(k)) EXCEPT !.rev = 0]
    BY <2>1 DEF GateOK, Later
  <2>3. Same([Later(Expire(k)) EXCEPT !.rev = 0], Later(Expire(k)))
    BY <2>1, RevIsNoContent
  <2> QED BY <1>2, <2>2, <2>3, LaterOfExpired, SameIsEquivalence
<1> QED BY <1>1, <1>2, SameIsEquivalence

LEMMA ConfigureMoves ==
  ASSUME NEW g, GateOK(g), NEW new, new.mode \in Modes, new.enabled \in BOOLEAN
  PROVE  Moves(g, Configure(g, new))
<1> DEFINE set == [g EXCEPT !.mode = new.mode, !.enabled = new.enabled, !.blocked = new.blocked]
<1>1. GateOK(set) /\ set.rev = g.rev /\ set.epoch = g.epoch /\ set.session = g.session
      /\ set.press = g.press /\ set.active = g.active
  BY DEF GateOK
<1>2. \/ Configure(g, new) = g
      \/ Configure(g, new) = [set EXCEPT !.needs = @ \/ g.active, !.active = FALSE,
                                         !.epoch = @ + 1, !.rev = @ + 1]
      \/ Configure(g, new) = [set EXCEPT !.rev = @ + 1]
  BY DEF Configure
<1> HIDE DEF set
<1>3. CASE Configure(g, new) = g
  BY <1>3 DEF Moves, GateOK
<1>4. CASE Configure(g, new) = [set EXCEPT !.needs = @ \/ g.active, !.active = FALSE,
                                           !.epoch = @ + 1, !.rev = @ + 1]
  BY <1>1, <1>4 DEF Moves, GateOK
<1>5. CASE Configure(g, new) = [set EXCEPT !.rev = @ + 1]
  BY <1>1, <1>5 DEF Moves, GateOK
<1> QED BY <1>2, <1>3, <1>4, <1>5

\* A command that is taken: its session has the gate, a cancelled one takes the
\* epoch on, and a capture that it starts is its own press.
LEMMA OwnedEffect ==
  ASSUME NEW g, GateOK(g), NEW s \in Sessions
  PROVE  \E o : /\ o = Owned(g, s)
                /\ GateOK(o) /\ o.rev = g.rev /\ o.epoch >= g.epoch /\ o.press = g.press
                /\ o.session = s
                /\ o.active => g.active /\ g.session = s
<1>1. CASE s = g.session
  BY <1>1 DEF Owned, GateOK
<1>2. CASE s # g.session
  <2>3. PICK n \in {0, 1} :
          Owned(g, s) = [g EXCEPT !.session = s, !.gen = -1, !.active = FALSE, !.needs = FALSE,
                                  !.epoch = g.epoch + n]
    BY <1>2 DEF Owned
  <2>1. PICK o : /\ o = Owned(g, s)
                 /\ o = [g EXCEPT !.session = s, !.gen = -1, !.active = FALSE,
                                  !.needs = FALSE, !.epoch = g.epoch + n]
    BY <2>3
  <2>2. /\ GateOK(o) /\ o.rev = g.rev /\ o.epoch >= g.epoch /\ o.press = g.press
        /\ o.session = s /\ o.active = FALSE
    BY <2>1 DEF GateOK
  <2> QED BY <2>1, <2>2
<1> QED BY <1>1, <1>2

\* What a command the gate takes does: h is the gate after it.
CommandTakes(g, c, h) ==
    /\ GateOK(h) /\ h.session = c.session /\ h.rev > g.rev /\ h.epoch >= g.epoch
    /\ c.cancelled => h.epoch > g.epoch /\ h.active = FALSE
    /\ h.press = g.press \/ (h.press = c.gen /\ c.active)
    /\ h.active => \/ h.press = c.gen /\ c.active
                   \/ h.press = g.press /\ h.session = g.session /\ g.active

LEMMA CommandedEffect ==
  ASSUME NEW g, GateOK(g), NEW c, c \in Commands, CaptureGateAssumption
  PROVE  CommandTakes(g, c, Commanded(g, c))
<1>1. PICK o : /\ o = Owned(g, c.session)
               /\ GateOK(o) /\ o.rev = g.rev /\ o.epoch >= g.epoch /\ o.press = g.press
               /\ o.session = c.session
               /\ o.active => g.active /\ g.session = c.session
  <2>1. c.session \in Sessions
    BY DEF Commands
  <2> QED BY <2>1, OwnedEffect
<1>2. PICK gen \in Int, n \in {0, 1} :
        gen = c.gen /\ n = Fences(c) /\ (c.cancelled => n = 1)
  BY DEF Fences, Commands
<1>3. PICK on \in BOOLEAN, needs \in BOOLEAN :
        /\ Commanded(g, c) = [o EXCEPT !.gen = c.gen, !.active = on, !.needs = needs,
                  !.lease = IF on THEN PressLease ELSE @,
                  !.press = IF on /\ ~o.active THEN c.gen ELSE @,
                  !.epoch = @ + Fences(c), !.rev = @ + 1]
        /\ on => c.active /\ ~c.cancelled
  <2> DEFINE fresh == c.session = Desktop /\ ~c.renew /\ Permitted(o)
             needs == /\ c.active /\ ~c.cancelled
                      /\ ~Permitted(o) \/ (o.needs /\ ~fresh)
             on == c.active /\ ~c.cancelled /\ Permitted(o) /\ ~needs
  <2>1. on \in BOOLEAN /\ needs \in BOOLEAN
    BY DEF Commands
  <2>2. on => c.active /\ ~c.cancelled
    OBVIOUS
  <2>3. Commanded(g, c) = [o EXCEPT !.gen = c.gen, !.active = on, !.needs = needs,
                  !.lease = IF on THEN PressLease ELSE @,
                  !.press = IF on /\ ~o.active THEN c.gen ELSE @,
                  !.epoch = @ + Fences(c), !.rev = @ + 1]
    BY <1>1, Zenon DEF Commanded
  <2> QED BY <2>1, <2>2, <2>3
<1>4. PICK lease \in Nat, press \in Int :
        /\ lease = (IF on THEN PressLease ELSE o.lease)
        /\ press = (IF on /\ ~o.active THEN gen ELSE o.press)
  BY <1>1, <1>2 DEF GateOK, CaptureGateAssumption
<1>5. PICK h : /\ h = Commanded(g, c)
               /\ h = [o EXCEPT !.gen = gen, !.active = on, !.needs = needs, !.lease = lease,
                                !.press = press, !.epoch = o.epoch + n, !.rev = o.rev + 1]
  BY <1>2, <1>3, <1>4
<1>6. /\ GateOK(h) /\ h.session = o.session /\ h.rev = o.rev + 1 /\ h.epoch = o.epoch + n
      /\ h.press = press /\ h.active = on
  <2>1. GateOK(o)
    BY <1>1
  <2>2. /\ h.session = o.session /\ h.press = press /\ h.active = on
        /\ h.epoch = o.epoch + n /\ h.rev = o.rev + 1
        /\ DOMAIN h = DOMAIN o /\ h.mode = o.mode /\ h.enabled = o.enabled
        /\ h.gen = gen /\ h.needs = needs /\ h.lease = lease
    BY <1>5, <2>1 DEF GateOK
  <2>3. o.epoch + n \in Nat /\ o.rev + 1 \in Nat
    <3>1. o.epoch \in Nat /\ o.rev \in Nat
      BY <2>1 DEF GateOK
    <3> QED BY <3>1
  <2>4. on \in BOOLEAN /\ needs \in BOOLEAN /\ gen \in Int /\ lease \in Nat /\ press \in Int
    OBVIOUS
  <2>5. GateOK(h)
    BY <2>1, <2>2, <2>3, <2>4 DEF GateOK
  <2> QED BY <2>2, <2>5
<1>7. o.rev \in Nat /\ o.epoch \in Nat /\ g.epoch \in Nat /\ g.rev \in Nat
  BY <1>1 DEF GateOK
<1>8. h.rev > g.rev /\ h.epoch >= g.epoch /\ (c.cancelled => h.epoch > g.epoch)
  <2>1. h.rev = o.rev + 1 /\ h.epoch = o.epoch + n /\ o.rev = g.rev /\ o.epoch >= g.epoch
    BY <1>1, <1>6
  <2>2. h.rev > g.rev /\ h.epoch >= g.epoch
    BY <1>7, <2>1
  <2>3. ASSUME c.cancelled PROVE h.epoch > g.epoch
    <3>1. n = 1
      BY <1>2, <2>3
    <3> QED BY <1>7, <2>1, <3>1
  <2> QED BY <2>2, <2>3
<1>9. /\ c.cancelled => h.active = FALSE
      /\ h.press = g.press \/ (h.press = c.gen /\ c.active)
      /\ h.active => \/ h.press = c.gen /\ c.active
                     \/ h.press = g.press /\ h.session = g.session /\ g.active
  BY <1>1, <1>2, <1>3, <1>4, <1>6
<1>10. CommandTakes(g, c, h)
  BY <1>1, <1>6, <1>8, <1>9 DEF CommandTakes
<1> QED BY <1>5, <1>10

LEMMA DisconnectedEffect ==
  ASSUME NEW g, GateOK(g), NEW s \in Gone, CaptureGateAssumption
  PROVE  LET h == Disconnected(g, s) IN
         /\ GateOK(h) /\ h.session # s
         /\ h = g \/ (h.rev > g.rev /\ h.session = None)
         /\ h.epoch >= g.epoch /\ h.press \in {g.press, -1} /\ (h.active => h = g)
<1>1. CASE s # g.session
  BY <1>1 DEF Disconnected, GateOK
<1>2. CASE s = g.session
  <2>1. GateOK(Reset(g)) /\ Reset(g).rev > g.rev /\ Reset(g).epoch >= g.epoch
        /\ Reset(g).active = FALSE
    <3>1. PICK n \in BOOLEAN : Reset(g) = [g EXCEPT !.needs = n, !.active = FALSE,
                                              !.epoch = g.epoch + 1, !.rev = g.rev + 1]
      BY ResetFields
    <3> QED BY <3>1, ResetMoves DEF Moves, GateOK
  <2>2. Disconnected(g, s) = [Reset(g) EXCEPT !.session = None, !.gen = -1, !.press = -1,
                                              !.needs = FALSE]
    BY <1>2 DEF Disconnected
  <2>3. None # s
    BY DEF CaptureGateAssumption, Sessions, Gone
  <2> QED BY <2>1, <2>2, <2>3 DEF GateOK
<1> QED BY <1>1, <1>2

-----------------------------------------------------------------------------
(* Sequences and handlers.                                                  *)

LEMMA TailElements ==
  ASSUME NEW S, NEW s \in Seq(S), s # <<>>
  PROVE  /\ Head(s) \in S /\ Head(s) = s[1] /\ 1 \in DOMAIN s
         /\ Tail(s) \in Seq(S) /\ Len(Tail(s)) <= Len(s)
         /\ \A i \in DOMAIN Tail(s) : i + 1 \in DOMAIN s /\ Tail(s)[i] = s[i + 1]
BY HeadTailProperties

LEMMA AppendElements ==
  ASSUME NEW S, NEW s \in Seq(S), NEW e \in S
  PROVE  /\ Append(s, e) \in Seq(S) /\ Len(Append(s, e)) = Len(s) + 1
         /\ \A i \in DOMAIN Append(s, e) :
              \/ i \in DOMAIN s /\ Append(s, e)[i] = s[i]
              \/ i = Len(s) + 1 /\ Append(s, e)[i] = e
         /\ Range(Append(s, e)) = Range(s) \union {e}
<1>1. /\ Append(s, e) \in Seq(S) /\ Len(Append(s, e)) = Len(s) + 1
      /\ \A i \in 1 .. Len(s) : Append(s, e)[i] = s[i]
      /\ Append(s, e)[Len(s) + 1] = e
      /\ DOMAIN s = 1 .. Len(s) /\ Len(s) \in Nat
      /\ DOMAIN Append(s, e) = 1 .. Len(s) + 1
  BY AppendProperties
<1>2. Range(Append(s, e)) = Range(s) \union {e}
  BY <1>1 DEF Range
<1> QED BY <1>1, <1>2

LEMMA HandlerSet ==
  ASSUME QueuesOK, NEW lane \in Lanes, NEW h, HandlerOK(h),
         handler' = [handler EXCEPT ![lane] = h]
  PROVE  /\ DOMAIN handler' = Lanes
         /\ \A l \in Lanes : HandlerOK(handler'[l])
         /\ handler'[lane] = h
         /\ \A l \in Lanes : l # lane => handler'[l] = handler[l]
BY DEF QueuesOK

LEMMA SyncingSets ==
  ASSUME NEW lane, NEW ls, NEW t, NEW c, c = Nobody \/ c \in Commands, setting' \in Settings,
         Syncing(lane, ls, t, c)
  PROVE  \E h : /\ handler' = [handler EXCEPT ![lane] = h]
                /\ HandlerOK(h) /\ h.at = "sync" /\ h.command = c
<1> DEFINE h == [at |-> "sync", command |-> c,
                 new |-> [mode |-> setting'.mode, enabled |-> setting'.enabled,
                          blocked |-> IF setting'.mute THEN Blocked(ls, t) ELSE 0]]
<1>1. handler' = [handler EXCEPT ![lane] = h]
  BY DEF Syncing
<1>2. h.at = "sync" /\ h.command = c /\ h.new.mode = setting'.mode
      /\ h.new.enabled = setting'.enabled
  OBVIOUS
<1>3. setting'.mode \in Modes /\ setting'.enabled \in BOOLEAN
  BY DEF Settings
<1>4. HandlerOK(h)
  BY <1>2, <1>3 DEF HandlerOK
<1> QED BY <1>1, <1>2, <1>4

LEMMA IdleOK == HandlerOK(Idle) /\ Idle.at = "idle"
  BY DEF HandlerOK, Idle

-----------------------------------------------------------------------------
(* What a step of a handler leaves as it is.                                *)

LEMMA DatedKept ==
  ASSUME GatesOK, Dated, GateOK(gate'), gate' = gate \/ gate'.rev > gate.rev,
         UNCHANGED remote, wire' \subseteq wire \union {gate'}
  PROVE  Dated'
<1>1. gate'.rev >= gate.rev /\ gate.rev \in Nat /\ gate'.rev \in Nat /\ remote.applied \in Nat
  BY DEF GatesOK, GateOK
<1>2. \A s \in wire : s.rev \in Nat
  BY DEF GatesOK, GateOK
<1>3. \A s \in wire' : s.rev <= gate'.rev /\ (s.rev = gate'.rev => s = gate')
  BY <1>1, <1>2 DEF Dated
<1>4. \A s, x \in wire' : s.rev = x.rev => s = x
  BY <1>1, <1>2, <1>3 DEF Dated
<1>5. remote.applied = gate'.rev => Same(remote.gate, gate')
  BY <1>1 DEF Dated
<1>6. gate'.rev > 0 /\ remote.applied <= gate'.rev
  BY <1>1 DEF Dated
<1> QED BY <1>3, <1>4, <1>5, <1>6 DEF Dated

LEMMA PublishedUpToDate ==
  ASSUME GatesOK, GateOK(gate'), Dated', UNCHANGED remote, wire' = wire \union {gate'}
  PROVE  UpToDate'
<1>1. gate'.rev \in Nat /\ remote.applied \in Nat /\ \A s \in wire' : s.rev \in Nat
  BY DEF GatesOK, GateOK
<1>2. CASE gate'.rev > remote.applied
  <2>1. Same(gate', gate')
    BY SameIsEquivalence
  <2>2. \A x \in wire' : x.rev <= gate'.rev
    BY DEF Dated
  <2> QED BY <1>2, <2>1, <2>2 DEF UpToDate, Newest
<1>3. CASE ~(gate'.rev > remote.applied)
  <2>1. remote.applied = gate'.rev
    BY <1>1, <1>3 DEF Dated
  <2> QED BY <2>1 DEF UpToDate, Dated
<1> QED BY <1>2, <1>3

\* What Publish does to the snapshots.
Published == \/ wire' = wire \union {gate'} /\ missed' = FALSE
             \/ wire' = wire /\ missed' = TRUE

LEMMA PublishSets == ASSUME Publish PROVE Published
  BY DEF Publish, Published

LEMMA UpToDateKept ==
  ASSUME GatesOK, UpToDate, Same(gate', gate), UNCHANGED <<wire, remote, missed>>,
         \A l \in Lanes : handler[l].at = "sync" => handler'[l].at = "sync"
  PROVE  UpToDate'
<1>1. \A s : Same(s, gate) => Same(s, gate')
  BY SameIsEquivalence
<1> QED BY <1>1 DEF UpToDate, Newest

LEMMA UncancelledKept ==
  ASSUME GateOK(gate), GateOK(gate'), gate'.epoch >= gate.epoch,
         cancelled' = cancelled \/ gate'.epoch > gate.epoch,
         NEW x, x.epoch \in Int, Uncancelled(x)
  PROVE  Uncancelled(x)'
BY DEF GateOK, Uncancelled

LEMMA FencedKept ==
  ASSUME GatesOK, WorkerOK, QueuesOK, Fenced, GateOK(gate'), gate'.epoch >= gate.epoch,
         cancelled' = cancelled \/ gate'.epoch > gate.epoch,
         CopyFenced(gate)', UNCHANGED <<remote, buffer, jobs>>, wire' \subseteq wire \union {gate'},
         \A i \in DOMAIN textQ' : \E j \in DOMAIN textQ : textQ'[i] = textQ[j]
  PROVE  Fenced'
<1>1. \A x : x.epoch \in Int /\ CopyFenced(x) => CopyFenced(x)'
  BY UncancelledKept DEF GatesOK, CopyFenced
<1>2. \A x : x.epoch \in Int /\ ContextFenced(x) => ContextFenced(x)'
  BY UncancelledKept DEF GatesOK, ContextFenced
<1>3. CopyFenced(remote.gate)'
  <2>1. remote.gate.epoch \in Int /\ CopyFenced(remote.gate)
    BY DEF GatesOK, GateOK, Fenced
  <2>2. CopyFenced(remote.gate)' <=> \A x : x = remote.gate => CopyFenced(x)'
    BY DEF CopyFenced, Uncancelled
  <2> QED BY <1>1, <2>1, <2>2
<1>4. \A s \in wire' : CopyFenced(s)'
  <2> SUFFICES ASSUME NEW s \in wire' PROVE CopyFenced(s)'
    OBVIOUS
  <2>1. CASE s \in wire
    BY <1>1, <2>1 DEF GatesOK, GateOK, Fenced, CopyFenced, Uncancelled
  <2>2. CASE s = gate'
    BY <2>2 DEF CopyFenced, Uncancelled
  <2> QED BY <2>1, <2>2
<1>5. ContextFenced(buffer.ctx)'
  <2>1. buffer.ctx.epoch \in Int
    BY DEF WorkerOK, Contexts
  <2> QED BY <1>2, <2>1 DEF Fenced, ContextFenced, Uncancelled
<1>6. \A i \in DOMAIN jobs' : ContextFenced(jobs[i].ctx)'
  <2>1. \A i \in DOMAIN jobs : jobs[i].ctx.epoch \in Int
    <3>1. \A i \in DOMAIN jobs : jobs[i] \in Texts
      BY DEF WorkerOK
    <3> QED BY <3>1 DEF Contexts, Texts
  <2> QED BY <1>2, <2>1 DEF Fenced, ContextFenced, Uncancelled
<1>7. \A i \in DOMAIN textQ' : ContextFenced(textQ[i].ctx)'
  <2>1. \A i \in DOMAIN textQ : textQ[i].ctx.epoch \in Int
    <3>1. \A i \in DOMAIN textQ : textQ[i] \in Texts
      BY DEF QueuesOK
    <3> QED BY <3>1 DEF Contexts, Texts
  <2> QED BY <1>2, <2>1 DEF Fenced, ContextFenced, Uncancelled
<1> QED BY <1>3, <1>4, <1>5, <1>6, <1>7 DEF Fenced

LEMMA PressesKept ==
  ASSUME IInv, UNCHANGED <<commandQ, cancelled>>, left'.gen = left.gen,
         gate'.press \in {gate.press, -1},
         \A l \in Lanes : Told(l)' => Told(l) /\ handler'[l].command = handler[l].command
  PROVE  PressesNew'
<1>1. left.gen \in Nat
  BY DEF IInv, Types, WorkerOK
<1>2. \A c : Unused(c) => Unused(c)'
  BY <1>1 DEF Unused
<1>3. gate'.press <= left'.gen
  BY <1>1 DEF IInv, PressesNew
<1>4. "ptt" \in Lanes /\ "gui" \in Lanes
  BY DEF Lanes
<1> QED BY <1>2, <1>3, <1>4 DEF IInv, PressesNew

\* A handler that moves the gate, and publishes it, is about to, or changed nothing.
LEMMA GateHandled ==
  ASSUME IInv, NEW lane \in Lanes, NEW h, HandlerOK(h),
         handler' = [handler EXCEPT ![lane] = h], Moves(gate, gate'),
         UNCHANGED <<seen, retired, remote, buffer, jobs, cancelled>>,
         \/ UNCHANGED <<wire, missed>> /\ h.at = "sync"
         \/ UNCHANGED <<wire, missed>> /\ Same(gate', gate) /\ handler[lane].at # "sync"
         \/ Published,
         \A i \in DOMAIN textQ' : \E j \in DOMAIN textQ : textQ'[i] = textQ[j]
  PROVE  GatesOK' /\ GoneStaysGone' /\ Dated' /\ UpToDate' /\ Fenced'
<1>1. GatesOK /\ QueuesOK /\ WorkerOK /\ Dated /\ UpToDate /\ Fenced /\ GoneStaysGone
  BY DEF IInv, Types
<1>2. /\ GateOK(gate') /\ (gate' = gate \/ gate'.rev > gate.rev)
      /\ gate'.session = gate.session /\ gate'.press = gate.press /\ gate'.epoch >= gate.epoch
      /\ gate'.active => gate.active
  BY DEF Moves
<1>3. wire' \subseteq wire \union {gate'}
  BY DEF Published
<1>4. GatesOK'
  BY <1>1, <1>2, <1>3 DEF GatesOK
<1>5. GoneStaysGone'
  BY <1>1, <1>2 DEF GoneStaysGone
<1>6. Dated'
  BY <1>1, <1>2, <1>3, DatedKept
<1>7. UpToDate'
  <2>1. CASE UNCHANGED <<wire, missed>> /\ h.at = "sync"
    BY <1>1, <2>1, HandlerSet DEF UpToDate
  <2>2. CASE UNCHANGED <<wire, missed>> /\ Same(gate', gate) /\ handler[lane].at # "sync"
    BY <1>1, <2>2, HandlerSet, UpToDateKept
  <2>3. CASE wire' = wire \union {gate'}
    BY <1>1, <1>2, <1>6, <2>3, PublishedUpToDate
  <2>4. CASE missed' = TRUE
    BY <2>4 DEF UpToDate
  <2> QED BY <2>1, <2>2, <2>3, <2>4 DEF Published
<1>8. CopyFenced(gate)'
  <2>1. gate.epoch \in Nat /\ gate'.epoch \in Nat
    BY <1>1, <1>2 DEF GatesOK, GateOK
  <2> QED BY <1>1, <1>2, <2>1 DEF Fenced, CopyFenced, Uncancelled
<1>9. Fenced'
  BY <1>1, <1>2, <1>3, <1>8, FencedKept
<1> QED BY <1>4, <1>5, <1>6, <1>7, <1>9

-----------------------------------------------------------------------------
(* The actions, one by one: first the program's handlers.                   *)

LEMMA LanesAre == {"speech", "ptt", "gone", "gui", "text"} = Lanes
  BY DEF Lanes

LEMMA StateTypes ==
  ASSUME IInv
  PROVE  /\ QueuesOK /\ WindowOK /\ GatesOK /\ WorkerOK
         /\ GateOK(gate) /\ setting \in Settings
BY DEF IInv, Types, GatesOK, WindowOK

LEMMA PhraseToldStep ==
  ASSUME IInv, PhraseTold, CaptureGateAssumption PROVE IInv'
<1> DEFINE e == Head(speechQ)
<1>1. /\ e \in [source : Sources, id : Nat, active : BOOLEAN]
      /\ Tail(speechQ) \in Seq([source : Sources, id : Nat, active : BOOLEAN])
  BY StateTypes, TailElements DEF PhraseTold, QueuesOK
<1>2. PICK h : /\ handler' = [handler EXCEPT !["speech"] = h]
               /\ HandlerOK(h) /\ h.at = "sync" /\ h.command = Nobody
  BY StateTypes, SyncingSets DEF PhraseTold
<1>3. Moves(gate, gate')
  BY StateTypes, ExpireMoves DEF PhraseTold
<1>4. /\ UNCHANGED <<seen, retired, remote, buffer, jobs, cancelled, wire, missed, textQ,
                     setting, owner, closed, commandQ, goneQ, left>>
      /\ speechQ' = Tail(speechQ) /\ Tell(e)
  BY DEF PhraseTold, worker
<1>5. "speech" \in Lanes
  BY LanesAre
<1>6. GatesOK' /\ GoneStaysGone' /\ Dated' /\ UpToDate' /\ Fenced'
  <2>1. \A i \in DOMAIN textQ' : \E j \in DOMAIN textQ : textQ'[i] = textQ[j]
    BY <1>4
  <2> QED BY <1>2, <1>3, <1>4, <1>5, <2>1, GateHandled
<1>7. QueuesOK'
  BY <1>1, <1>2, <1>4, <1>5, StateTypes, HandlerSet DEF QueuesOK
<1>8. WorkerOK'
  BY <1>4, StateTypes DEF WorkerOK
<1>9. WindowOK' /\ NoGhostPhrase'
  <2> DEFINE k == <<e.source, e.id>>
  <2>1. k \in Phrases /\ k[1] = e.source
    BY <1>1 DEF Phrases
  <2>2. PhraseLease \in Nat /\ Fade \in Nat
    BY DEF CaptureGateAssumption
  <2>3. \/ UNCHANGED <<leases, tail>>
        \/ /\ e.source \notin Range(closed)
           /\ leases' = [x \in DOMAIN leases \union {k} |->
                              IF x = k THEN PhraseLease ELSE leases[x]]
           /\ tail' = tail
        \/ /\ leases' = Without(leases, {k})
           /\ tail' = IF k \in DOMAIN leases THEN Fade ELSE tail
    BY <1>4, Zenon DEF Tell, PhraseIgnored
  <2> HIDE DEF k, e
  <2>4. CASE UNCHANGED <<leases, tail>>
    BY <1>4, <2>4, StateTypes DEF IInv, WindowOK, NoGhostPhrase
  <2>5. CASE /\ e.source \notin Range(closed)
             /\ leases' = [x \in DOMAIN leases \union {k} |->
                                IF x = k THEN PhraseLease ELSE leases[x]]
             /\ tail' = tail
    BY <1>4, <2>1, <2>2, <2>5, StateTypes DEF IInv, WindowOK, NoGhostPhrase
  <2>6. CASE /\ leases' = Without(leases, {k})
             /\ tail' = IF k \in DOMAIN leases THEN Fade ELSE tail
    BY <1>4, <2>2, <2>6, StateTypes DEF IInv, WindowOK, NoGhostPhrase, Without
  <2> QED BY <2>3, <2>4, <2>5, <2>6
<1>10. PressesNew'
  <2>1. \A l \in Lanes : Told(l)' => Told(l) /\ handler'[l].command = handler[l].command
    BY <1>2, <1>5, StateTypes, HandlerSet DEF Told
  <2> QED BY <1>3, <1>4, <2>1, PressesKept DEF Moves
<1> QED BY <1>6, <1>7, <1>8, <1>9, <1>10 DEF IInv, Types

\* What leaves the phrases and their window as they are.
LEMMA WindowKept ==
  ASSUME IInv, UNCHANGED window, setting' \in Settings, owner' \in Gone \union {None}
  PROVE  WindowOK' /\ NoGhostPhrase'
BY StateTypes DEF IInv, WindowOK, NoGhostPhrase, window

LEMMA CommandToldStep ==
  ASSUME IInv, CommandTold, CaptureGateAssumption PROVE IInv'
<1> DEFINE c == Head(commandQ)
<1>1. /\ c \in Commands /\ c = commandQ[1] /\ 1 \in DOMAIN commandQ
      /\ Tail(commandQ) \in Seq(Commands)
      /\ \A i \in DOMAIN Tail(commandQ) :
            i + 1 \in DOMAIN commandQ /\ Tail(commandQ)[i] = commandQ[i + 1]
  BY StateTypes, TailElements DEF CommandTold, QueuesOK
<1>2. PICK h : /\ handler' = [handler EXCEPT !["ptt"] = h]
               /\ HandlerOK(h) /\ h.at = "sync" /\ h.command = c
  BY <1>1, StateTypes, SyncingSets DEF CommandTold
<1>3. Moves(gate, gate')
  BY StateTypes, ExpireMoves DEF CommandTold
<1>4. /\ UNCHANGED <<seen, retired, remote, buffer, jobs, cancelled, wire, missed, textQ,
                     setting, owner, speechQ, goneQ, left, window>>
      /\ commandQ' = Tail(commandQ) /\ handler["ptt"] = Idle
  BY DEF CommandTold, worker
<1>5. "ptt" \in Lanes
  BY LanesAre
<1>6. GatesOK' /\ GoneStaysGone' /\ Dated' /\ UpToDate' /\ Fenced'
  <2>1. \A i \in DOMAIN textQ' : \E j \in DOMAIN textQ : textQ'[i] = textQ[j]
    BY <1>4
  <2> QED BY <1>2, <1>3, <1>4, <1>5, <2>1, GateHandled
<1>7. QueuesOK'
  BY <1>1, <1>2, <1>4, <1>5, StateTypes, HandlerSet DEF QueuesOK
<1>8. WorkerOK' /\ WindowOK' /\ NoGhostPhrase'
  <2>1. owner' \in Gone \union {None} /\ setting' \in Settings
    BY <1>4, StateTypes DEF WindowOK
  <2> QED BY <1>4, <2>1, StateTypes, WindowKept DEF WorkerOK
<1>9. PressesNew'
  <2>1. /\ handler'["ptt"].command = c /\ handler'["ptt"].at = "sync"
        /\ \A l \in Lanes : l # "ptt" => handler'[l] = handler[l]
        /\ "gui" \in Lanes /\ gate'.press = gate.press
    BY <1>2, <1>3, <1>5, StateTypes, HandlerSet, LanesAre DEF Moves
  <2>2. \A x : Unused(x) => Unused(x)'
    BY <1>4, <2>1 DEF Unused
  <2>3. Unused(c)
    BY <1>1 DEF IInv, PressesNew
  <2>4. \A l \in Lanes : l # "ptt" => Told(l)' = Told(l)
    BY <2>1 DEF Told
  <2> HIDE DEF c
  <2>5. gate'.press <= left'.gen /\ \A p \in cancelled' : p[2] <= left'.gen
    BY <1>4, <2>1 DEF IInv, PressesNew
  <2>6. \A i \in DOMAIN commandQ' : Unused(commandQ[i])'
    BY <1>1, <1>4, <2>1 DEF IInv, PressesNew, Unused
  <2>7. \A l \in Lanes : Told(l)' => Unused(handler[l].command)' /\ l \in {"ptt", "gui"}
    BY <1>4, <2>1, <2>3, <2>4 DEF IInv, PressesNew, Unused
  <2>8. \A i \in DOMAIN Tail(commandQ) : i + 1 # 1
    BY StateTypes DEF QueuesOK
  <2>9. \A i, j \in DOMAIN Tail(commandQ) : i # j => i + 1 # j + 1
    BY <1>1 DEF QueuesOK
  <2>10. \A i, j \in DOMAIN commandQ' : i # j /\ commandQ'[i].active /\ commandQ'[j].active
                                           => commandQ'[i].gen # commandQ'[j].gen
    BY <1>1, <1>4, <2>9 DEF IInv, PressesNew
  <2>11. \A l \in Lanes, i \in DOMAIN commandQ' :
            Told(l)' /\ handler'[l].command.active /\ commandQ'[i].active
                => handler'[l].command.gen # commandQ'[i].gen
    <3> SUFFICES ASSUME NEW l \in Lanes, NEW i \in DOMAIN commandQ', Told(l)',
                        handler'[l].command.active, commandQ'[i].active
                 PROVE  handler'[l].command.gen # commandQ'[i].gen
      OBVIOUS
    <3>1. /\ commandQ'[i] = commandQ[i + 1] /\ i + 1 \in DOMAIN commandQ
          /\ i + 1 # 1 /\ 1 \in DOMAIN commandQ
      BY <1>1, <1>4, <2>8
    <3>2. CASE l = "ptt"
      <4>1. c = commandQ[1]
        BY <1>1 DEF c
      <4> QED BY <2>1, <3>1, <3>2, <4>1 DEF IInv, PressesNew
    <3>3. CASE l # "ptt"
      <4>1. Told(l) /\ handler'[l] = handler[l]
        BY <2>1, <2>4, <3>3
      <4> QED BY <3>1, <4>1 DEF IInv, PressesNew
    <3> QED BY <3>2, <3>3
  <2>12. Told("ptt")' /\ Told("gui")' /\ handler'["ptt"].command.active
           /\ handler'["gui"].command.active
           => handler'["ptt"].command.gen # handler'["gui"].command.gen
    <3>1. \A i \in DOMAIN commandQ : Told("gui") /\ handler["gui"].command.active
            /\ commandQ[i].active => handler["gui"].command.gen # commandQ[i].gen
      BY <2>1 DEF IInv, PressesNew
    <3> QED BY <1>1, <2>1, <2>4, <3>1
  <2> QED BY <2>5, <2>6, <2>7, <2>10, <2>11, <2>12 DEF PressesNew
<1> QED BY <1>6, <1>7, <1>8, <1>9 DEF IInv, Types

LEMMA AppendLastEffect ==
  ASSUME NEW list \in Seq(Gone), NEW s \in Gone, NEW n \in Nat \ {0}
  PROVE  /\ AppendLast(list, s, n) \in Seq(Gone)
         /\ Len(list) <= n => Len(AppendLast(list, s, n)) <= n
         /\ Range(AppendLast(list, s, n)) \subseteq Range(list) \union {s}
<1> DEFINE l == Append(list, s)
           first == 1 + IF Len(l) > n THEN 1 ELSE 0
           kept == SubSeq(l, first, Len(l))
<1>1. l \in Seq(Gone) /\ Len(l) = Len(list) + 1 /\ Range(l) = Range(list) \union {s}
  BY AppendElements
<1>2. /\ first \in {1, 2} /\ first <= Len(l) + 1 /\ Len(l) \in Nat
      /\ Len(list) <= n => Len(l) - first + 1 <= n
  BY <1>1
<1>3. AppendLast(list, s, n) = kept
  BY DEF AppendLast
<1> HIDE DEF l, first
<1>4. /\ kept \in Seq(Gone)
      /\ Len(list) <= n => Len(kept) <= n
      /\ \A i \in 1 .. Len(kept) : kept[i] = l[first + i - 1] /\ first + i - 1 \in 1 .. Len(l)
  BY <1>1, <1>2
<1> HIDE DEF kept
<1>5. Range(kept) \subseteq Range(l)
  <2>1. DOMAIN kept = 1 .. Len(kept) /\ DOMAIN l = 1 .. Len(l)
    BY <1>1, <1>4
  <2> QED BY <1>4, <2>1 DEF Range
<1> QED BY <1>1, <1>3, <1>4, <1>5

LEMMA RememberedEffect ==
  ASSUME closed \in Seq(Gone), Len(closed) <= Memory, NEW s \in Gone, CaptureGateAssumption
  PROVE  /\ Remembered(s) \in Seq(Gone) /\ Len(Remembered(s)) <= Memory
         /\ Range(Remembered(s)) \subseteq Range(closed) \union {s}
<1>1. Memory \in Nat \ {0}
  BY DEF CaptureGateAssumption
<1> QED BY <1>1, AppendLastEffect DEF Remembered

\* What leaves both gates, their snapshots, what was captured and the presses alone.
LEMMA GatesKept ==
  ASSUME IInv, UNCHANGED <<parent, wire, remote, buffer, jobs, textQ, cancelled, missed>>,
         \A l \in Lanes : handler[l].at = "sync" => handler'[l].at = "sync"
  PROVE  GatesOK' /\ GoneStaysGone' /\ Dated' /\ UpToDate' /\ Fenced'
<1>1. GatesOK' /\ GoneStaysGone' /\ Dated'
  BY DEF IInv, Types, parent, GatesOK, GoneStaysGone, Dated
<1>2. UpToDate'
  BY StateTypes, UpToDateKept, SameIsEquivalence DEF IInv, parent
<1>3. Fenced'
  BY DEF IInv, parent, Fenced, CopyFenced, ContextFenced, Uncancelled
<1> QED BY <1>1, <1>2, <1>3

LEMMA ClientGoneStep ==
  ASSUME IInv, ClientGone, CaptureGateAssumption PROVE IInv'
<1> DEFINE c == Head(goneQ)
           its == {k \in DOMAIN leases : k[1] = c}
           h == [at |-> "fence", session |-> c]
<1>1. c \in Gone /\ Tail(goneQ) \in Seq(Gone)
  BY StateTypes, TailElements DEF ClientGone, QueuesOK
<1>2. /\ leases' = Without(leases, its) /\ tail' = (IF its # {} THEN Fade ELSE tail)
      /\ closed' = Remembered(c) /\ handler' = [handler EXCEPT !["gone"] = h]
      /\ goneQ' = Tail(goneQ) /\ handler["gone"] = Idle
      /\ UNCHANGED <<parent, setting, owner, speechQ, commandQ, textQ, wire, remote, buffer, jobs,
                     cancelled, missed, left>>
  BY DEF ClientGone, worker
<1>3. HandlerOK(h) /\ h.at = "fence"
  BY <1>1 DEF HandlerOK
<1>4. "gone" \in Lanes
  BY LanesAre
<1> HIDE DEF h
<1>5. /\ \A l \in Lanes : HandlerOK(handler'[l])
      /\ DOMAIN handler' = Lanes
      /\ handler'["gone"] = h
      /\ \A l \in Lanes : l # "gone" => handler'[l] = handler[l]
  BY <1>2, <1>3, <1>4, StateTypes, HandlerSet
<1>6. QueuesOK'
  BY <1>1, <1>2, <1>5, StateTypes DEF QueuesOK
<1>7. WindowOK' /\ NoGhostPhrase'
  <2>1. Fade \in Nat /\ closed \in Seq(Gone) /\ Len(closed) <= Memory
    BY StateTypes DEF CaptureGateAssumption, WindowOK
  <2>2. closed' \in Seq(Gone) /\ Len(closed') <= Memory
        /\ Range(closed') \subseteq Range(closed) \union {c}
    BY <1>1, <1>2, <2>1, RememberedEffect
  <2> HIDE DEF c
  <2>3. DOMAIN leases' = DOMAIN leases \ its /\ \A k \in DOMAIN leases' : leases'[k] = leases[k]
    BY <1>2 DEF Without
  <2>4. \A k \in DOMAIN leases' : k[1] \notin Range(closed')
    BY <2>2, <2>3 DEF IInv, NoGhostPhrase
  <2>5. WindowOK'
    BY <1>2, <2>1, <2>2, <2>3, StateTypes DEF WindowOK
  <2> QED BY <2>4, <2>5 DEF NoGhostPhrase
<1>8. WorkerOK'
  BY <1>2, StateTypes DEF WorkerOK
<1>9. GatesOK' /\ GoneStaysGone' /\ Dated' /\ UpToDate' /\ Fenced'
  <2>1. \A l \in Lanes : handler[l].at = "sync" => handler'[l].at = "sync"
    BY <1>2, <1>5, IdleOK
  <2> QED BY <1>2, <2>1, GatesKept
<1>10. PressesNew'
  <2>1. \A l \in Lanes : Told(l)' => Told(l) /\ handler'[l].command = handler[l].command
    BY <1>3, <1>5 DEF Told
  <2> QED BY <1>2, <2>1, PressesKept DEF parent
<1> QED BY <1>6, <1>7, <1>8, <1>9, <1>10 DEF IInv, Types

LEMMA SessionFencedStep ==
  ASSUME IInv, SessionFenced, CaptureGateAssumption PROVE IInv'
<1> DEFINE s == handler["gone"].session
<1>1. "gone" \in Lanes /\ handler["gone"].at = "fence"
  BY LanesAre DEF SessionFenced
<1>2. s \in Gone /\ s \in Sessions
  BY <1>1, StateTypes DEF QueuesOK, HandlerOK, Sessions, Gone
<1>3. PICK h : /\ handler' = [handler EXCEPT !["gone"] = h]
               /\ HandlerOK(h) /\ h.at = "sync" /\ h.command = Nobody
  BY StateTypes, SyncingSets DEF SessionFenced
<1>4. /\ gate' = Disconnected(gate, s) /\ seen' = [seen EXCEPT ![s] = -1]
      /\ retired' = AppendLast(retired, s, Retained)
      /\ UNCHANGED <<window, setting, owner, speechQ, commandQ, goneQ, textQ, wire, remote, buffer,
                     jobs, cancelled, missed, left>>
  BY DEF SessionFenced, Fence, worker, queues
<1>5. /\ GateOK(gate') /\ gate'.session # s
      /\ gate' = gate \/ (gate'.rev > gate.rev /\ gate'.session = None)
      /\ gate'.epoch >= gate.epoch /\ gate'.press \in {gate.press, -1}
      /\ gate'.active => gate' = gate
  BY <1>2, <1>4, StateTypes, DisconnectedEffect
<1>6. /\ \A l \in Lanes : HandlerOK(handler'[l])
      /\ DOMAIN handler' = Lanes
      /\ handler'["gone"] = h
      /\ \A l \in Lanes : l # "gone" => handler'[l] = handler[l]
  BY <1>1, <1>3, StateTypes, HandlerSet
<1>7. QueuesOK'
  BY <1>4, <1>6, StateTypes DEF QueuesOK
<1>8. WindowOK' /\ NoGhostPhrase' /\ WorkerOK'
  <2>1. owner' \in Gone \union {None} /\ setting' \in Settings
    BY <1>4, StateTypes DEF WindowOK
  <2> QED BY <1>4, <2>1, StateTypes, WindowKept DEF WorkerOK
<1>9. /\ retired' \in Seq(Gone) /\ Range(retired') \subseteq Range(retired) \union {s}
  <2>1. Retained \in Nat \ {0}
    BY DEF CaptureGateAssumption
  <2> QED BY <1>2, <1>4, <2>1, StateTypes, AppendLastEffect DEF GatesOK
<1> HIDE DEF s
<1>10. GatesOK'
  <2>1. seen' \in [Sessions -> Int]
    <3>1. seen' = [seen EXCEPT ![s] = -1] /\ seen \in [Sessions -> Int] /\ -1 \in Int
      BY <1>4, StateTypes DEF GatesOK
    <3> QED BY <3>1
  <2>2. UNCHANGED <<wire, remote>> /\ GateOK(gate')
    BY <1>4, <1>5
  <2> QED BY <1>9, <2>1, <2>2, StateTypes DEF GatesOK
<1>11. GoneStaysGone'
  <2>1. \A x \in Range(retired') : x \in Gone
    BY <1>9 DEF Range
  <2>2. None \notin Gone
    BY DEF CaptureGateAssumption, Sessions, Gone
  <2> QED BY <1>5, <1>9, <2>1, <2>2 DEF IInv, GoneStaysGone
<1>12. Dated'
  <2>1. wire' \subseteq wire \union {gate'} /\ UNCHANGED remote
    BY <1>4
  <2> QED BY <1>5, <2>1, StateTypes, DatedKept DEF IInv
<1>13. UpToDate'
  BY <1>1, <1>3, <1>6 DEF UpToDate
<1>14. Fenced'
  <2>1. CopyFenced(gate)'
    BY <1>4, <1>5 DEF IInv, Fenced, CopyFenced, Uncancelled
  <2>2. wire' \subseteq wire \union {gate'}
        /\ \A i \in DOMAIN textQ' : \E j \in DOMAIN textQ : textQ'[i] = textQ[j]
    BY <1>4
  <2> QED BY <1>4, <1>5, <2>1, <2>2, StateTypes, FencedKept DEF IInv
<1>15. PressesNew'
  <2>1. \A l \in Lanes : Told(l)' => Told(l) /\ handler'[l].command = handler[l].command
    BY <1>3, <1>6 DEF Told
  <2> QED BY <1>4, <1>5, <2>1, PressesKept
<1> QED BY <1>7, <1>8, <1>10, <1>11, <1>12, <1>13, <1>14, <1>15 DEF IInv, Types

LEMMA ChangeSettingStep ==
  ASSUME IInv, ChangeSetting, CaptureGateAssumption PROVE IInv'
<1>1. PICK new \in left.changes :
        /\ setting' = new
        /\ gate' = IF setting.enabled /\ ~new.enabled THEN Reset(Expire(gate)) ELSE Expire(gate)
        /\ left' = [left EXCEPT !.changes = @ \ {new}]
  BY DEF ChangeSetting
<1>2. /\ UNCHANGED <<seen, retired, remote, buffer, jobs, cancelled, wire, missed, textQ,
                     owner, speechQ, commandQ, goneQ, window>>
  BY DEF ChangeSetting, worker, queues
<1>3. new \in Settings
  BY StateTypes DEF WorkerOK
<1>4. PICK h : /\ handler' = [handler EXCEPT !["gui"] = h]
               /\ HandlerOK(h) /\ h.at = "sync" /\ h.command = Nobody
  BY <1>1, <1>3, SyncingSets DEF ChangeSetting
<1>5. Moves(gate, gate')
  <2>1. Moves(gate, Expire(gate)) /\ GateOK(Expire(gate))
    BY StateTypes, ExpireMoves DEF Moves
  <2>2. Moves(gate, Reset(Expire(gate)))
    BY <2>1, StateTypes, ResetMoves, MovesCompose
  <2> QED BY <1>1, <2>1, <2>2
<1>6. "gui" \in Lanes
  BY LanesAre
<1>7. GatesOK' /\ GoneStaysGone' /\ Dated' /\ UpToDate' /\ Fenced'
  <2>1. \A i \in DOMAIN textQ' : \E j \in DOMAIN textQ : textQ'[i] = textQ[j]
    BY <1>2
  <2> QED BY <1>2, <1>4, <1>5, <1>6, <2>1, GateHandled
<1>8. QueuesOK'
  BY <1>2, <1>4, <1>6, StateTypes, HandlerSet DEF QueuesOK
<1>9. WorkerOK' /\ left'.gen = left.gen
  BY <1>1, <1>2, StateTypes DEF WorkerOK
<1>10. WindowOK' /\ NoGhostPhrase'
  <2>1. owner' \in Gone \union {None} /\ setting' \in Settings
    BY <1>1, <1>2, <1>3, StateTypes DEF WindowOK
  <2> QED BY <1>2, <2>1, WindowKept
<1>11. PressesNew'
  <2>1. \A l \in Lanes : Told(l)' => Told(l) /\ handler'[l].command = handler[l].command
    BY <1>4, <1>6, StateTypes, HandlerSet DEF Told
  <2> QED BY <1>2, <1>5, <1>9, <2>1, PressesKept DEF Moves
<1> QED BY <1>7, <1>8, <1>9, <1>10, <1>11 DEF IInv, Types

LEMMA PressesEffect ==
  ASSUME left.gen \in Nat, NEW mode \in Modes, NEW s \in Sessions, NEW c \in Presses(mode, s)
  PROVE  /\ c \in Commands /\ c.gen \in {left.gen, left.gen + 1} /\ c.session = s
         /\ c.active => c.gen = left.gen + 1
<1>1. PICK k \in {<<1, TRUE, FALSE, FALSE>>, <<0, FALSE, FALSE, FALSE>>,
                  <<1, FALSE, TRUE, FALSE>>, <<1, TRUE, FALSE, TRUE>>} :
        c = [mode |-> mode, session |-> s, gen |-> left.gen + k[1], active |-> k[2],
             cancelled |-> k[3], renew |-> k[4]]
  BY DEF Presses
<1>2. k[1] \in {0, 1} /\ k[2] \in BOOLEAN /\ k[3] \in BOOLEAN /\ k[4] \in BOOLEAN
      /\ (k[2] => k[1] = 1)
  <2>1. CASE k = <<1, TRUE, FALSE, FALSE>>
    BY <2>1
  <2>2. CASE k = <<0, FALSE, FALSE, FALSE>>
    BY <2>2
  <2>3. CASE k = <<1, FALSE, TRUE, FALSE>>
    BY <2>3
  <2>4. CASE k = <<1, TRUE, FALSE, TRUE>>
    BY <2>4
  <2> QED BY <1>1, <2>1, <2>2, <2>3, <2>4
<1> QED BY <1>1, <1>2 DEF Commands

\* A new command joins: its press is newer than all others.
LEMMA NewPress ==
  ASSUME IInv, UNCHANGED cancelled, gate'.press = gate.press,
         NEW c \in Commands, c.gen \in {left.gen, left.gen + 1}, left'.gen = c.gen,
         c.active => c.gen = left.gen + 1
  PROVE  /\ Unused(c)' /\ \A x : Unused(x) => Unused(x)' /\ (c.active => x.gen # c.gen)
         /\ gate'.press <= left'.gen /\ \A p \in cancelled' : p[2] <= left'.gen
<1>1. left.gen \in Nat /\ gate.press \in Int /\ cancelled \subseteq Sessions \X Int
  BY StateTypes DEF WorkerOK, GateOK
<1>2. /\ gate.press <= left.gen /\ \A p \in cancelled : p[2] <= left.gen
  BY DEF IInv, PressesNew
<1>3. \A p \in cancelled : p[2] \in Int
  BY <1>1
<1> QED BY <1>1, <1>2, <1>3 DEF Unused

LEMMA DesktopCommandStep ==
  ASSUME IInv, DesktopCommand, CaptureGateAssumption PROVE IInv'
<1>1. PICK c \in Presses("radio", Desktop) :
        /\ left' = [left EXCEPT !.desktop = @ - 1, !.gen = c.gen]
        /\ gate' = Expire(gate) /\ UNCHANGED setting
        /\ Syncing("gui", leases, tail, c)
  BY DEF DesktopCommand
<1>2. /\ UNCHANGED <<seen, retired, remote, buffer, jobs, cancelled, wire, missed, textQ,
                     owner, speechQ, commandQ, goneQ, window>>
      /\ handler["gui"] = Idle /\ left.desktop > 0
  BY DEF DesktopCommand, worker, queues
<1>3. left.gen \in Nat /\ "radio" \in Modes /\ Desktop \in Sessions
  BY StateTypes DEF WorkerOK, Modes, Sessions
<1>4. /\ c \in Commands /\ c.gen \in {left.gen, left.gen + 1}
      /\ c.active => c.gen = left.gen + 1
  BY <1>3, PressesEffect
<1>5. PICK h : /\ handler' = [handler EXCEPT !["gui"] = h]
               /\ HandlerOK(h) /\ h.at = "sync" /\ h.command = c
  <2>1. setting' \in Settings
    BY <1>1, StateTypes
  <2> QED BY <1>1, <1>4, <2>1, SyncingSets
<1>6. Moves(gate, gate')
  BY <1>1, StateTypes, ExpireMoves
<1>7. "gui" \in Lanes /\ "ptt" \in Lanes
  BY LanesAre
<1>8. GatesOK' /\ GoneStaysGone' /\ Dated' /\ UpToDate' /\ Fenced'
  <2>1. \A i \in DOMAIN textQ' : \E j \in DOMAIN textQ : textQ'[i] = textQ[j]
    BY <1>2
  <2> QED BY <1>2, <1>5, <1>6, <1>7, <2>1, GateHandled
<1>9. QueuesOK'
  BY <1>2, <1>5, <1>7, StateTypes, HandlerSet DEF QueuesOK
<1>10. WorkerOK' /\ left'.gen = c.gen
  <2>1. c.gen \in Nat
    BY <1>3, <1>4
  <2>2. left' \in [mode : Modes, changes : SUBSET Settings, sources : SUBSET Sources,
                 commands : Nat, desktop : Nat, phrases : Nat, replays : Nat, drops : Nat,
                 segments : Nat, stops : BOOLEAN, gen : Nat, talking : SUBSET Phrases] /\ left'.gen = c.gen
    <3>1. PICK n \in Nat : n = c.gen
      BY <2>1
    <3>2. PICK d \in Nat : d = left.desktop - 1
      BY <1>2, StateTypes DEF WorkerOK
    <3>3. left' = [left EXCEPT !.desktop = d, !.gen = n]
      BY <1>1, <3>1, <3>2
    <3> QED BY <3>1, <3>3, StateTypes DEF WorkerOK
  <2> QED BY <1>2, <2>2, StateTypes DEF WorkerOK
<1>11. WindowOK' /\ NoGhostPhrase'
  <2>1. owner' \in Gone \union {None} /\ setting' \in Settings
    BY <1>1, <1>2, StateTypes DEF WindowOK
  <2> QED BY <1>2, <2>1, WindowKept
<1>12. PressesNew'
  <2>1. /\ handler'["gui"].command = c /\ handler'["gui"].at = "sync"
        /\ \A l \in Lanes : l # "gui" => handler'[l] = handler[l]
        /\ gate'.press = gate.press
    BY <1>5, <1>6, <1>7, StateTypes, HandlerSet DEF Moves
  <2>2. /\ Unused(c)' /\ \A x : Unused(x) => Unused(x)' /\ (c.active => x.gen # c.gen)
        /\ gate'.press <= left'.gen /\ \A p \in cancelled' : p[2] <= left'.gen
    BY <1>2, <1>4, <1>10, <2>1, NewPress
  <2>3. \A l \in Lanes : l # "gui" => Told(l)' = Told(l)
    BY <2>1 DEF Told
  <2>4. \A i \in DOMAIN commandQ' : Unused(commandQ[i])'
    <3>1. \A i \in DOMAIN commandQ : Unused(commandQ[i])
      BY DEF IInv, PressesNew
    <3> QED BY <1>2, <2>2, <3>1 DEF Unused
  <2>5. \A l \in Lanes : Told(l)' => Unused(handler[l].command)' /\ l \in {"ptt", "gui"}
    <3>1. \A l \in Lanes : Told(l) => Unused(handler[l].command) /\ l \in {"ptt", "gui"}
      BY DEF IInv, PressesNew
    <3> TAKE l \in Lanes
    <3>2. CASE l = "gui"
      BY <1>7, <2>1, <2>2, <3>2 DEF Unused
    <3>3. CASE l # "gui"
      <4>1. PICK x : x = handler[l].command /\ x = handler'[l].command
        BY <2>1, <3>3
      <4> QED BY <2>2, <2>3, <3>1, <3>3, <4>1 DEF Unused
    <3> QED BY <3>2, <3>3
  <2>6. \A l \in Lanes, i \in DOMAIN commandQ' :
            Told(l)' /\ handler'[l].command.active /\ commandQ'[i].active
                => handler'[l].command.gen # commandQ'[i].gen
    BY <1>2, <2>1, <2>2, <2>3 DEF IInv, PressesNew
  <2>7. Told("ptt")' /\ Told("gui")' /\ handler'["ptt"].command.active
           /\ handler'["gui"].command.active
           => handler'["ptt"].command.gen # handler'["gui"].command.gen
    BY <1>7, <2>1, <2>2, <2>3 DEF IInv, PressesNew
  <2>8. \A i, j \in DOMAIN commandQ' : i # j /\ commandQ'[i].active /\ commandQ'[j].active
                                           => commandQ'[i].gen # commandQ'[j].gen
    BY <1>2 DEF IInv, PressesNew
  <2> QED BY <2>2, <2>4, <2>5, <2>6, <2>7, <2>8 DEF PressesNew
<1> QED BY <1>8, <1>9, <1>10, <1>11, <1>12 DEF IInv, Types

LEMMA SyncedStep ==
  ASSUME IInv, NEW lane \in {"speech", "ptt", "gone", "gui"}, Synced(lane),
         CaptureGateAssumption
  PROVE  IInv'
<1> DEFINE c == handler[lane].command
           new == handler[lane].new
<1>1. lane \in Lanes /\ handler[lane].at = "sync" /\ HandlerOK(handler[lane])
  BY StateTypes DEF Synced, Lanes, QueuesOK
<1>2. /\ new.mode \in Modes /\ new.enabled \in BOOLEAN /\ (c = Nobody \/ c \in Commands)
  BY <1>1 DEF HandlerOK
<1>3. /\ gate' = Configure(Expire(gate), new) /\ Published
      /\ UNCHANGED <<seen, retired, remote, buffer, jobs, cancelled, textQ, setting,
                     owner, speechQ, commandQ, goneQ, window, left>>
  BY PublishSets DEF Synced, worker, queues
<1>a. PICK ready \in Running : handler' = [handler EXCEPT ![lane] = SyncedWith(lane, c, ready)]
  BY DEF Synced
<1> DEFINE h == SyncedWith(lane, c, ready)
<1>4. Moves(gate, gate')
  <2>1. Moves(gate, Expire(gate)) /\ GateOK(Expire(gate))
    BY StateTypes, ExpireMoves DEF Moves
  <2>2. Moves(Expire(gate), Configure(Expire(gate), new))
    BY <1>2, <2>1, ConfigureMoves
  <2> QED BY <1>3, <2>1, <2>2, StateTypes, MovesCompose
<1>5. HandlerOK(h) /\ h.at # "sync" /\ (h.at = "command" => h.command = c /\ c # Nobody)
  <2>1. CASE h = Idle
    BY <2>1, IdleOK
  <2>2. CASE h = [at |-> "command", command |-> c] /\ c # Nobody
    BY <1>2, <2>2 DEF HandlerOK
  <2> QED BY <2>1, <2>2 DEF SyncedWith
<1> HIDE DEF h, c, new
<1>6. GatesOK' /\ GoneStaysGone' /\ Dated' /\ UpToDate' /\ Fenced'
  <2>1. \A i \in DOMAIN textQ' : \E j \in DOMAIN textQ : textQ'[i] = textQ[j]
    BY <1>3
  <2>2. handler' = [handler EXCEPT ![lane] = h]
    BY <1>a DEF h
  <2> QED BY <1>1, <1>3, <1>4, <1>5, <2>1, <2>2, GateHandled
<1>7. QueuesOK'
  BY <1>1, <1>3, <1>a, <1>5, StateTypes, HandlerSet DEF QueuesOK, h
<1>8. WorkerOK' /\ WindowOK' /\ NoGhostPhrase'
  <2>1. owner' \in Gone \union {None} /\ setting' \in Settings
    BY <1>3, StateTypes DEF WindowOK
  <2> QED BY <1>3, <2>1, StateTypes, WindowKept DEF WorkerOK, Published
<1>9. PressesNew'
  <2>1. /\ handler'[lane] = h /\ \A l \in Lanes : l # lane => handler'[l] = handler[l]
    BY <1>1, <1>a, <1>5, StateTypes, HandlerSet DEF h
  <2>2. \A l \in Lanes : Told(l)' => Told(l) /\ handler'[l].command = handler[l].command
    BY <1>1, <1>5, <2>1 DEF Told, c
  <2> QED BY <1>3, <1>4, <2>2, PressesKept DEF Moves
<1> QED BY <1>6, <1>7, <1>8, <1>9 DEF IInv, Types

\* The command as the gate takes it.
LEMMA CommandForIs ==
  ASSUME GateOK(gate), NEW o \in Commands
  PROVE  /\ CommandFor(o) \in Commands
         /\ CommandFor(o).session = o.session /\ CommandFor(o).gen = o.gen
         /\ CommandFor(o).active = o.active /\ CommandFor(o).cancelled = o.cancelled
<1>1. CASE CommandFor(o) = o
  BY <1>1
<1>2. CASE CommandFor(o) # o
  <2>1. PICK m \in Modes : CommandFor(o) = [o EXCEPT !.mode = m]
    <3>1. "radio" \in Modes /\ "ptt" \in Modes
      BY DEF Modes
    <3> QED BY <1>2, <3>1 DEF CommandFor
  <2> QED BY <2>1 DEF Commands
<1> QED BY <1>1, <1>2

LEMMA CommandRefusedStep ==
  ASSUME IInv, NEW lane \in {"ptt", "gui"}, handler[lane].at = "command",
         handler' = [handler EXCEPT ![lane] = Idle], gate' = Expire(gate),
         UNCHANGED <<seen, wire, cancelled, missed>>,
         UNCHANGED <<retired, window, setting, owner, queues, worker, left>>
  PROVE  IInv'
<1>1. lane \in Lanes /\ UNCHANGED <<remote, buffer, jobs, textQ, speechQ, commandQ, goneQ>>
  BY DEF Lanes, worker, queues
<1>2. Moves(gate, gate') /\ Same(gate', gate)
  BY StateTypes, ExpireMoves, ExpireSame
<1>3. GatesOK' /\ GoneStaysGone' /\ Dated' /\ UpToDate' /\ Fenced'
  <2>1. \A i \in DOMAIN textQ' : \E j \in DOMAIN textQ : textQ'[i] = textQ[j]
    BY <1>1
  <2> QED BY <1>1, <1>2, <2>1, IdleOK, GateHandled
<1>4. QueuesOK'
  BY <1>1, IdleOK, StateTypes, HandlerSet DEF QueuesOK
<1>5. WorkerOK' /\ WindowOK' /\ NoGhostPhrase'
  <2>1. owner' \in Gone \union {None} /\ setting' \in Settings
    BY StateTypes DEF WindowOK
  <2> QED BY <1>1, <2>1, StateTypes, WindowKept DEF WorkerOK
<1>6. PressesNew'
  <2>1. \A l \in Lanes : Told(l)' => Told(l) /\ handler'[l].command = handler[l].command
    BY <1>1, IdleOK, StateTypes, HandlerSet DEF Told
  <2> QED BY <1>1, <1>2, <2>1, PressesKept DEF Moves
<1> QED BY <1>3, <1>4, <1>5, <1>6 DEF IInv, Types

LEMMA TakenEffect ==
  ASSUME CaptureGateAssumption, GateOK(gate), NEW o \in Commands,
         NEW now, now = Expire(gate), NEW c, c = CommandFor(o), NEW g, g = Commanded(now, c)
  PROVE  /\ c \in Commands /\ c.session = o.session /\ c.gen = o.gen /\ c.active = o.active
         /\ GateOK(now) /\ now.session = gate.session /\ now.press = gate.press
         /\ now.epoch >= gate.epoch /\ now.rev >= gate.rev /\ (now.active => gate.active)
         /\ CommandTakes(now, c, g)
<1>1. /\ c \in Commands /\ c.session = o.session /\ c.gen = o.gen /\ c.active = o.active
  BY CommandForIs
<1>2. /\ GateOK(now) /\ now.session = gate.session /\ now.press = gate.press
      /\ now.epoch >= gate.epoch /\ (now = gate \/ now.rev > gate.rev)
      /\ (now.active => gate.active)
  BY ExpireMoves DEF Moves
<1>3. now.rev >= gate.rev
  BY <1>2 DEF GateOK
<1>4. CommandTakes(now, c, g)
  BY <1>1, <1>2, CommandedEffect, CaptureGateAssumption
<1> QED BY <1>1, <1>2, <1>3, <1>4

LEMMA CommandTakenStep ==
  ASSUME IInv, CaptureGateAssumption, NEW lane \in {"ptt", "gui"}, handler[lane].at = "command",
         handler' = [handler EXCEPT ![lane] = Idle],
         NEW now, now = Expire(gate), NEW c, c = CommandFor(handler[lane].command),
         c.session \notin Range(retired), gate' = Commanded(now, c),
         seen' \in [Sessions -> Int],
         cancelled' = IF c.cancelled THEN cancelled \union {<<c.session, now.press>>} ELSE cancelled,
         Published,
         UNCHANGED <<retired, window, setting, owner, queues, worker, left>>
  PROVE  IInv'
<1> DEFINE o == handler[lane].command
<1>1. /\ lane \in Lanes /\ "ptt" \in Lanes /\ "gui" \in Lanes
      /\ UNCHANGED <<remote, buffer, jobs, textQ, speechQ, commandQ, goneQ>>
  BY DEF Lanes, worker, queues
<1>2. o \in Commands /\ c = CommandFor(o)
  BY <1>1, StateTypes DEF QueuesOK, HandlerOK
<1>3. /\ c \in Commands /\ c.session = o.session /\ c.gen = o.gen /\ c.active = o.active
      /\ GateOK(now) /\ now.session = gate.session /\ now.press = gate.press
      /\ now.epoch >= gate.epoch /\ now.rev >= gate.rev /\ (now.active => gate.active)
      /\ CommandTakes(now, c, gate')
  <2> HIDE DEF o
  <2>1. PICK g : g = gate'
    OBVIOUS
  <2>2. g = Commanded(now, c)
    BY <2>1
  <2> QED BY <1>2, <2>1, <2>2, StateTypes, TakenEffect
<1>4. /\ GateOK(gate') /\ gate'.session = c.session /\ gate'.rev > now.rev
      /\ gate'.epoch >= now.epoch
      /\ c.cancelled => gate'.epoch > now.epoch /\ gate'.active = FALSE
      /\ gate'.press = now.press \/ (gate'.press = c.gen /\ c.active)
      /\ gate'.active => \/ gate'.press = c.gen /\ c.active
                         \/ gate'.press = now.press /\ gate'.session = now.session /\ now.active
  BY <1>3 DEF CommandTakes
<1>5. gate'.rev > gate.rev /\ gate'.epoch >= gate.epoch
      /\ (c.cancelled => gate'.epoch > gate.epoch)
  <2>1. /\ now.rev \in Nat /\ gate.rev \in Nat /\ gate'.rev \in Nat
        /\ now.epoch \in Nat /\ gate.epoch \in Nat /\ gate'.epoch \in Nat
    <3>1. GateOK(now) /\ GateOK(gate) /\ GateOK(gate')
      BY <1>3, <1>4, StateTypes
    <3>2. \A g : GateOK(g) => g.rev \in Nat /\ g.epoch \in Nat
      BY DEF GateOK
    <3> QED BY <3>1, <3>2
  <2>2. now.rev >= gate.rev /\ gate'.rev > now.rev
    BY <1>3, <1>4
  <2>3. gate'.rev > gate.rev
    BY <2>1, <2>2
  <2>4. now.epoch >= gate.epoch /\ gate'.epoch >= now.epoch
    BY <1>3, <1>4
  <2>5. gate'.epoch >= gate.epoch
    BY <2>1, <2>4
  <2>6. ASSUME c.cancelled PROVE gate'.epoch > gate.epoch
    <3>1. gate'.epoch > now.epoch
      BY <1>4, <2>6
    <3> QED BY <2>1, <2>4, <3>1
  <2> QED BY <2>3, <2>5, <2>6
<1>6. o # Nobody
  BY <1>2 DEF Nobody, Commands
<1>7. Told(lane) /\ Unused(o) /\ o = handler[lane].command
  BY <1>1, <1>6 DEF IInv, PressesNew, Told
<1>8. /\ DOMAIN handler' = Lanes /\ \A l \in Lanes : HandlerOK(handler'[l])
      /\ handler'[lane] = Idle /\ \A l \in Lanes : l # lane => handler'[l] = handler[l]
  BY <1>1, IdleOK, StateTypes, HandlerSet
<1> HIDE DEF o
<1>9. QueuesOK'
  BY <1>1, <1>8, StateTypes DEF QueuesOK
<1>10. WindowOK' /\ NoGhostPhrase'
  <2>1. owner' \in Gone \union {None} /\ setting' \in Settings
    BY StateTypes DEF WindowOK
  <2> QED BY <2>1, WindowKept
<1>11. WorkerOK'
  <2>1. c.session \in Sessions /\ now.press \in Int
    BY <1>2, <1>3 DEF Commands, GateOK
  <2>2. cancelled' \subseteq Sessions \X Int
    <3>1. cancelled \subseteq Sessions \X Int
      BY StateTypes DEF WorkerOK
    <3>2. <<c.session, now.press>> \in Sessions \X Int
      BY <2>1
    <3>3. cancelled' \subseteq cancelled \union {<<c.session, now.press>>}
      OBVIOUS
    <3> QED BY <3>1, <3>2, <3>3
  <2> QED BY <1>1, <2>2, StateTypes DEF WorkerOK, Published
<1>12. GatesOK'
  <2> QED BY <1>1, <1>4, StateTypes DEF GatesOK, Published
<1>13. GoneStaysGone'
  BY <1>4 DEF GoneStaysGone
<1>14. Dated'
  <2>1. wire' \subseteq wire \union {gate'} /\ UNCHANGED remote
    BY <1>1 DEF Published
  <2> QED BY <1>4, <1>5, <2>1, StateTypes, DatedKept DEF IInv
<1>15. UpToDate'
  <2>1. CASE wire' = wire \union {gate'}
    BY <1>1, <1>4, <1>14, <2>1, StateTypes, PublishedUpToDate
  <2>2. CASE missed' = TRUE
    BY <2>2 DEF UpToDate
  <2> QED BY <2>1, <2>2 DEF Published
<1>16. Fenced'
  <2>1. CopyFenced(gate)'
    <3> SUFFICES ASSUME gate'.active
                 PROVE  <<gate'.session, gate'.press>> \notin cancelled'
      BY <1>4 DEF CopyFenced, Uncancelled, GateOK
    <3>1. cancelled' = cancelled
      BY <1>4
    <3>2. CASE gate'.press = c.gen /\ c.active
      <4>1. \A p \in cancelled : p[2] # c.gen
        BY <1>2, <1>3, <1>7, <3>2 DEF Unused
      <4> QED BY <3>1, <3>2, <4>1
    <3>3. CASE gate'.press = now.press /\ gate'.session = now.session /\ now.active
      BY <1>3, <3>1, <3>3 DEF IInv, Fenced, CopyFenced, Uncancelled
    <3> QED BY <1>4, <3>2, <3>3
  <2>2. /\ wire' \subseteq wire \union {gate'}
        /\ cancelled' = cancelled \/ gate'.epoch > gate.epoch
        /\ \A i \in DOMAIN textQ' : \E j \in DOMAIN textQ : textQ'[i] = textQ[j]
    BY <1>1, <1>5 DEF Published
  <2> QED BY <1>1, <1>4, <1>5, <2>1, <2>2, StateTypes, FencedKept DEF IInv
<1>17. PressesNew'
  <2>1. /\ left' = left /\ left.gen \in Nat /\ gate.press \in Int
        /\ gate.press <= left.gen /\ \A p \in cancelled : p[2] <= left.gen
    BY StateTypes DEF IInv, PressesNew, WorkerOK, GateOK
  <2>2. c.gen \in 0 .. left.gen
    BY <1>2, <1>3, <1>7 DEF Unused
  <2>3. \A p \in cancelled' : p \in cancelled \/ p[2] = gate.press
    BY <1>3
  <2>4. gate'.press <= left'.gen /\ \A p \in cancelled' : p[2] <= left'.gen
    BY <1>3, <1>4, <2>1, <2>2, <2>3
  <2>5. ASSUME NEW x, Unused(x), x.active /\ c.active => x.gen # c.gen
        PROVE  Unused(x)'
    BY <1>3, <1>4, <2>1, <2>3, <2>5 DEF Unused
  <2>6. \A l \in Lanes : Told(l)' => /\ l # lane /\ Told(l) /\ handler'[l] = handler[l]
                                     /\ l \in {"ptt", "gui"}
    BY <1>8, IdleOK DEF Told, IInv, PressesNew
  <2>7. \A i \in DOMAIN commandQ : Unused(commandQ[i])'
    <3> TAKE i \in DOMAIN commandQ
    <3>1. Unused(commandQ[i])
      BY DEF IInv, PressesNew
    <3>2. commandQ[i].active /\ c.active => commandQ[i].gen # c.gen
      BY <1>1, <1>3, <1>7 DEF IInv, PressesNew
    <3>3. Unused(commandQ[i])' <=> /\ commandQ[i].gen \in 0 .. left'.gen
                                   /\ commandQ[i].active => commandQ[i].gen # gate'.press
                                          /\ \A p \in cancelled' : p[2] # commandQ[i].gen
      BY <1>1 DEF Unused
    <3> QED BY <1>3, <1>4, <2>1, <2>3, <3>1, <3>2, <3>3 DEF Unused
  <2>8. \A l \in Lanes : Told(l)' => Unused(handler[l].command)' /\ l \in {"ptt", "gui"}
    <3> SUFFICES ASSUME NEW l \in Lanes, Told(l)'
                 PROVE  Unused(handler[l].command)'
      BY <2>6
    <3>1. l # lane /\ Told(l) /\ handler'[l] = handler[l] /\ l \in {"ptt", "gui"}
      BY <2>6
    <3>2. Unused(handler[l].command)
      BY <3>1 DEF IInv, PressesNew
    <3>3. handler[l].command.active /\ c.active => handler[l].command.gen # c.gen
      <4>1. CASE lane = "ptt" /\ l = "gui"
        BY <1>2, <1>3, <1>7, <3>1, <4>1 DEF IInv, PressesNew
      <4>2. CASE lane = "gui" /\ l = "ptt"
        BY <1>2, <1>3, <1>7, <3>1, <4>2 DEF IInv, PressesNew
      <4> QED BY <3>1, <4>1, <4>2
    <3> QED BY <1>3, <1>4, <2>1, <2>3, <3>1, <3>2, <3>3 DEF Unused
  <2>9. /\ \A i, j \in DOMAIN commandQ' : i # j /\ commandQ'[i].active /\ commandQ'[j].active
                                            => commandQ'[i].gen # commandQ'[j].gen
        /\ \A l \in Lanes, i \in DOMAIN commandQ' :
             Told(l)' /\ handler'[l].command.active /\ commandQ'[i].active
                 => handler'[l].command.gen # commandQ'[i].gen
    BY <1>1, <2>6 DEF IInv, PressesNew
  <2>10. ~(Told("ptt")' /\ Told("gui")')
    BY <1>1, <2>6
  <2> QED BY <1>1, <2>4, <2>7, <2>8, <2>9, <2>10 DEF PressesNew
<1> QED BY <1>9, <1>10, <1>11, <1>12, <1>13, <1>14, <1>15, <1>16, <1>17 DEF IInv, Types

LEMMA CommandStep ==
  ASSUME IInv, NEW lane \in {"ptt", "gui"}, Command(lane), CaptureGateAssumption
  PROVE  IInv'
<1> DEFINE now == Expire(gate)
           c   == CommandFor(handler[lane].command)
<1>2. /\ handler[lane].at = "command" /\ handler' = [handler EXCEPT ![lane] = Idle]
      /\ UNCHANGED <<retired, window, setting, owner, queues, worker, left>>
  BY DEF Command
<1>3. CASE Refuses(now, c)
  <2>1. gate' = now /\ UNCHANGED <<seen, wire, cancelled, missed>>
    BY <1>3 DEF Command
  <2> QED BY <1>2, <2>1, CommandRefusedStep
<1>4. CASE ~Refuses(now, c)
  <2>1. /\ gate' = Commanded(now, c)
        /\ cancelled' = IF c.cancelled THEN cancelled \union {<<c.session, now.press>>} ELSE cancelled
        /\ Published
    BY <1>4, PublishSets DEF Command
  <2>2. c.session \notin Range(retired)
    BY <1>4 DEF Refuses
  <2>4. seen' \in [Sessions -> Int]
    <3> DEFINE told(s) == IF s = c.session THEN c.gen
                          ELSE IF s = now.session THEN now.gen ELSE seen[s]
    <3>1. seen' = [s \in Sessions |-> told(s)]
      BY <1>4, Zenon DEF Command
    <3>2. /\ GateOK(gate) /\ c \in Commands /\ GateOK(now)
      <4>1. lane \in Lanes
        BY DEF Lanes
      <4> QED BY <1>2, <4>1, StateTypes, CommandForIs, ExpireMoves DEF QueuesOK, HandlerOK, Moves
    <3>3. c.gen \in Int /\ now.gen \in Int /\ \A s \in Sessions : seen[s] \in Int
      BY <3>2, StateTypes DEF Commands, GateOK, GatesOK
    <3> HIDE DEF now, c
    <3>4. ASSUME NEW s \in Sessions PROVE told(s) \in Int
      <4>1. told(s) = c.gen \/ told(s) = now.gen \/ told(s) = seen[s]
        BY DEF told
      <4> QED BY <3>3, <4>1
    <3> HIDE DEF told
    <3> QED BY <3>1, <3>4
  <2> HIDE DEF now, c
  <2>3. now = Expire(gate) /\ c = CommandFor(handler[lane].command)
    BY DEF now, c
  <2> QED BY <1>2, <2>1, <2>2, <2>3, <2>4, CommandTakenStep
<1> QED BY <1>3, <1>4

-----------------------------------------------------------------------------
(* The recognizer's process.                                                *)

LEMMA ContextIs ==
  ASSUME NEW g, GateOK(g)
  PROVE  /\ Context(g) \in Contexts /\ Context(g).mode = g.mode
         /\ \A x : x = Context(g) => (Uncancelled(x) <=> Uncancelled(g))
BY DEF Context, Contexts, GateOK, Uncancelled

\* A gate that is still active after a lapse is the gate it was.
LEMMA LapsedIsOff ==
  ASSUME NEW g, GateOK(g) PROVE Expire(g).active => Expire(g) = g
<1>1. CASE g.active /\ g.lease = 0
  <2>1. Expire(g) = [g EXCEPT !.needs = TRUE, !.active = FALSE, !.epoch = g.epoch + 1,
                              !.rev = g.rev + 1]
    BY <1>1, ExpireFields
  <2>2. Expire(g).active = FALSE
    BY <2>1 DEF GateOK
  <2> QED BY <2>2
<1>2. CASE ~(g.active /\ g.lease = 0)
  BY <1>2, ExpireFields
<1> QED BY <1>1, <1>2

\* The worker's gate lets a capture lapse by itself; nothing else changes in the gates.
LEMMA RemoteLapses ==
  ASSUME IInv, remote' = [remote EXCEPT !.gate = Expire(remote.gate)],
         UNCHANGED <<parent, wire, cancelled, missed, handler>>
  PROVE  /\ GatesOK' /\ GoneStaysGone' /\ Dated' /\ UpToDate'
         /\ GateOK(Expire(remote.gate)) /\ CopyFenced(Expire(remote.gate))
         /\ CopyFenced(gate)' /\ CopyFenced(remote.gate)' /\ \A s \in wire' : CopyFenced(s)'
<1>1. /\ GateOK(remote.gate) /\ DOMAIN remote = {"gate", "applied"}
      /\ UNCHANGED <<gate, seen, retired>>
  BY StateTypes DEF GatesOK, parent
<1>2. PICK g : g = Expire(remote.gate)
  OBVIOUS
<1>3. /\ GateOK(g) /\ Same(g, remote.gate) /\ g.session = remote.gate.session
      /\ g.press = remote.gate.press /\ (g.active => g = remote.gate)
  BY <1>1, <1>2, ExpireMoves, ExpireSame, ExpireFields, LapsedIsOff DEF Moves
<1>4. remote'.gate = g /\ remote'.applied = remote.applied /\ DOMAIN remote' = {"gate", "applied"}
  BY <1>1, <1>2
<1>5. GatesOK'
  BY <1>1, <1>3, <1>4, StateTypes DEF GatesOK
<1>6. GoneStaysGone'
  BY <1>1 DEF IInv, GoneStaysGone
<1>7. \A x : Same(remote.gate, x) => Same(g, x)
  BY <1>3, SameIsEquivalence
<1>8. Dated'
  BY <1>1, <1>4, <1>7 DEF IInv, Dated
<1>9. UpToDate'
  BY <1>1, <1>4, <1>7 DEF IInv, UpToDate, Newest
<1>10. CopyFenced(remote.gate) /\ CopyFenced(gate) /\ \A s \in wire : CopyFenced(s)
  BY DEF IInv, Fenced
<1>11. CopyFenced(g)
  BY <1>3, <1>10 DEF CopyFenced
<1>12. \A x : CopyFenced(x) => CopyFenced(x)'
  BY <1>1 DEF CopyFenced, Uncancelled
<1>13. CopyFenced(gate)' /\ CopyFenced(remote.gate)' /\ \A s \in wire' : CopyFenced(s)'
  BY <1>1, <1>4, <1>10, <1>11, <1>12 DEF CopyFenced, Uncancelled
<1> QED BY <1>2, <1>3, <1>5, <1>6, <1>8, <1>9, <1>11, <1>13

\* What was captured stays fenced when gate and cancellations stay.
LEMMA ContextsFenced ==
  ASSUME UNCHANGED <<gate, cancelled>>, NEW x, ContextFenced(x)
  PROVE  ContextFenced(x)'
BY DEF ContextFenced, Uncancelled

\* What leaves the handlers, the window and the commands alone.
LEMMA HandlersKept ==
  ASSUME IInv, UNCHANGED <<gate, handler, commandQ, cancelled, left>>
  PROVE  PressesNew'
<1>1. left'.gen = left.gen /\ gate'.press \in {gate.press, -1}
      /\ \A l \in Lanes : Told(l)' => Told(l) /\ handler'[l].command = handler[l].command
  BY DEF Told
<1> QED BY <1>1, PressesKept

LEMMA SoundingIs == ASSUME IInv PROVE Sounding \subseteq Phrases
  BY StateTypes DEF Sounding, WindowOK

\* A segment that ends waits for the recognizer, unless too many do.
LEMMA QueuedEffect ==
  ASSUME IInv
  PROVE  /\ Queued(buffer) \in Seq(Texts) /\ Len(Queued(buffer)) <= JobLimit
         /\ \A i \in DOMAIN Queued(buffer) : ContextFenced(Queued(buffer)[i].ctx)
<1>1. /\ jobs \in Seq(Texts) /\ Len(jobs) <= JobLimit /\ ContextFenced(buffer.ctx)
      /\ \A i \in DOMAIN jobs : ContextFenced(jobs[i].ctx)
  BY StateTypes DEF IInv, Fenced, WorkerOK
<1>2. PICK t : t = [ctx |-> buffer.ctx, heard |-> buffer.heard \union Sounding]
  OBVIOUS
<1>3. t \in Texts /\ t.ctx = buffer.ctx
  BY <1>2, StateTypes, SoundingIs DEF WorkerOK, Texts
<1>4. CASE Queued(buffer) = jobs
  BY <1>1, <1>4
<1>5. CASE Queued(buffer) = Append(jobs, t) /\ ~(Len(jobs) >= JobLimit)
  <2>1. PICK q : q = Append(jobs, t)
    OBVIOUS
  <2>2. /\ q \in Seq(Texts) /\ Len(q) = Len(jobs) + 1
        /\ \A i \in DOMAIN q : (i \in DOMAIN jobs /\ q[i] = jobs[i]) \/ q[i] = t
    BY <1>1, <1>3, <2>1, AppendElements
  <2>3. Len(jobs) \in Nat /\ JobLimit \in Nat
    BY <1>1, CaptureGateAssumption
  <2>4. Len(q) <= JobLimit
    BY <1>5, <2>2, <2>3
  <2>5. \A i \in DOMAIN q : ContextFenced(q[i].ctx)
    BY <1>1, <1>3, <2>2
  <2> QED BY <1>5, <2>1, <2>2, <2>4, <2>5
<1> QED BY <1>2, <1>4, <1>5 DEF Queued

\* The whole of a step of the worker, from its parts.
LEMMA WorkerStep ==
  ASSUME IInv, remote' = [remote EXCEPT !.gate = Expire(remote.gate)],
         UNCHANGED <<parent, window, setting, owner, speechQ, commandQ, goneQ, handler, wire,
                     cancelled, missed>>,
         textQ' \in Seq(Texts), WorkerOK', left'.gen = left.gen, ContextFenced(buffer.ctx)',
         \A i \in DOMAIN jobs' : ContextFenced(jobs'[i].ctx),
         \A i \in DOMAIN textQ' : ContextFenced(textQ'[i].ctx)
  PROVE  IInv'
<1>1. /\ GatesOK' /\ GoneStaysGone' /\ Dated' /\ UpToDate'
      /\ CopyFenced(gate)' /\ CopyFenced(remote.gate)' /\ \A s \in wire' : CopyFenced(s)'
  BY RemoteLapses
<1>2. UNCHANGED <<gate, cancelled>>
  BY DEF parent
<1>3. Fenced'
  BY <1>1, <1>2, ContextsFenced DEF Fenced
<1>4. QueuesOK'
  BY StateTypes DEF QueuesOK
<1>5. WindowOK' /\ NoGhostPhrase'
  <2>1. owner' \in Gone \union {None} /\ setting' \in Settings
    BY StateTypes DEF WindowOK
  <2> QED BY <2>1, WindowKept
<1>6. PressesNew'
  <2>1. gate'.press \in {gate.press, -1}
        /\ \A l \in Lanes : Told(l)' => Told(l) /\ handler'[l].command = handler[l].command
    BY <1>2 DEF Told
  <2> QED BY <2>1, PressesKept
<1> QED BY <1>1, <1>3, <1>4, <1>5, <1>6 DEF IInv, Types

LEMMA HearStep ==
  ASSUME IInv, Hear, CaptureGateAssumption PROVE IInv'
<1> DEFINE g    == Expire(remote.gate)
           same == Kept(g) /\ (g.mode = "vad" \/ buffer.ctx = Context(g))
<1>1. /\ Listening(g) /\ (same \/ left.segments > 0)
      /\ left' = (IF same THEN left ELSE [left EXCEPT !.segments = @ - 1])
      /\ remote' = [remote EXCEPT !.gate = g]
      /\ jobs' = (IF Kept(g) /\ ~same THEN Queued(buffer) ELSE jobs)
      /\ buffer' = [on |-> TRUE, ctx |-> IF same THEN buffer.ctx ELSE Context(g),
                    heard |-> (IF same THEN buffer.heard ELSE {}) \union Sounding,
                    done |-> IF same THEN buffer.done ELSE Nobody]
      /\ UNCHANGED <<parent, window, setting, owner, speechQ, commandQ, goneQ, textQ, handler, wire,
                     cancelled, missed>>
  BY DEF Hear, queues
<1>2. GateOK(g) /\ CopyFenced(g) /\ UNCHANGED <<gate, cancelled>>
  BY <1>1, RemoteLapses DEF parent
<1>3. Context(g) \in Contexts /\ ContextFenced(Context(g))
  <2> HIDE DEF g
  <2>1. Context(g) \in Contexts /\ Context(g).mode = g.mode
        /\ (Uncancelled(Context(g)) <=> Uncancelled(g))
    BY <1>2, ContextIs
  <2>2. g.mode \in Manual => g.active
    BY <1>1 DEF Listening, Manual
  <2> QED BY <1>2, <2>1, <2>2 DEF CopyFenced, ContextFenced
<1> HIDE DEF g, same
<1>4. PICK x, heard, done :
        /\ buffer' = [on |-> TRUE, ctx |-> x, heard |-> heard, done |-> done]
        /\ x = buffer.ctx \/ x = Context(g)
        /\ heard \subseteq buffer.heard \union Sounding
        /\ done = buffer.done \/ done = Nobody
  BY <1>1
<1>5. buffer'.ctx = x
  BY <1>4
<1>6. /\ x \in Contexts /\ heard \subseteq Phrases /\ done \in Contexts \union {Nobody}
      /\ ContextFenced(x)
  BY <1>3, <1>4, StateTypes, SoundingIs DEF WorkerOK, IInv, Fenced
<1>7. /\ jobs' \in Seq(Texts) /\ Len(jobs') <= JobLimit
      /\ \A i \in DOMAIN jobs' : ContextFenced(jobs'[i].ctx)
  BY <1>1, StateTypes, QueuedEffect DEF IInv, Fenced, WorkerOK
<1>8. WorkerOK' /\ left'.gen = left.gen
  <2>1. left' \in [mode : Modes, changes : SUBSET Settings, sources : SUBSET Sources,
                   commands : Nat, desktop : Nat, phrases : Nat, replays : Nat, drops : Nat,
                   segments : Nat, stops : BOOLEAN, gen : Nat, talking : SUBSET Phrases] /\ left'.gen = left.gen
    <3>1. CASE left' = left
      BY <3>1, StateTypes DEF WorkerOK
    <3>2. CASE left' = [left EXCEPT !.segments = @ - 1] /\ left.segments > 0
      <4>1. PICK n \in Nat : n = left.segments - 1
        BY <3>2, StateTypes DEF WorkerOK
      <4>2. left' = [left EXCEPT !.segments = n]
        BY <3>2, <4>1
      <4> QED BY <4>1, <4>2, StateTypes DEF WorkerOK
    <3> QED BY <1>1, <3>1, <3>2
  <2>2. buffer' \in [on : BOOLEAN, ctx : Contexts, heard : SUBSET Phrases,
                     done : Contexts \union {Nobody}]
    BY <1>4, <1>6
  <2> QED BY <1>1, <1>7, <2>1, <2>2, StateTypes DEF WorkerOK
<1>9. ContextFenced(buffer.ctx)' /\ textQ' \in Seq(Texts)
      /\ \A i \in DOMAIN textQ' : ContextFenced(textQ'[i].ctx)
  <2>1. ContextFenced(buffer.ctx)'
    BY <1>2, <1>5, <1>6 DEF ContextFenced, Uncancelled
  <2> QED BY <1>1, <2>1, StateTypes DEF QueuesOK, IInv, Fenced
<1>10. remote' = [remote EXCEPT !.gate = Expire(remote.gate)]
  BY <1>1 DEF g
<1> QED BY <1>1, <1>7, <1>8, <1>9, <1>10, WorkerStep

\* A buffer nothing was captured in.
LEMMA EmptyIs ==
  /\ Empty \in [on : BOOLEAN, ctx : Contexts, heard : SUBSET Phrases, done : Contexts \union {Nobody}]
  /\ GateOK(gate) => ContextFenced(Empty.ctx)
<1>1. "radio" \in Modes /\ -1 \in Int
  BY DEF Modes
<1>2. Empty.ctx \in Contexts
  BY <1>1 DEF Empty, Contexts
<1>3. Empty.ctx.epoch = -1
  BY DEF Empty
<1>4. GateOK(gate) => ContextFenced(Empty.ctx)
  BY <1>3 DEF ContextFenced, Uncancelled, GateOK
<1> QED BY <1>2, <1>4 DEF Empty

LEMMA SegmentStep ==
  ASSUME IInv, Segment, CaptureGateAssumption PROVE IInv'
<1> DEFINE g == Expire(remote.gate)
<1>1. /\ remote' = [remote EXCEPT !.gate = g] /\ jobs' = Queued(buffer)
      /\ buffer' = [Empty EXCEPT !.ctx = buffer.ctx,
                                 !.done = IF g.mode = "ptt" THEN buffer.ctx ELSE Nobody]
      /\ UNCHANGED <<parent, window, setting, owner, speechQ, commandQ, goneQ, textQ, handler, wire,
                     cancelled, missed, left>>
  BY DEF Segment, queues
<1>2. remote' = [remote EXCEPT !.gate = Expire(remote.gate)] /\ UNCHANGED <<gate, cancelled>>
  BY <1>1 DEF parent
<1>3. buffer.ctx \in Contexts /\ ContextFenced(buffer.ctx)
  BY StateTypes DEF WorkerOK, IInv, Fenced
<1>4. PICK d \in Contexts \union {Nobody} : buffer' = [Empty EXCEPT !.ctx = buffer.ctx, !.done = d]
  BY <1>1, <1>3
<1>5. /\ buffer' \in [on : BOOLEAN, ctx : Contexts, heard : SUBSET Phrases,
                      done : Contexts \union {Nobody}]
      /\ buffer'.ctx = buffer.ctx
  BY <1>3, <1>4, EmptyIs
<1>6. /\ jobs' \in Seq(Texts) /\ Len(jobs') <= JobLimit
      /\ \A i \in DOMAIN jobs' : ContextFenced(jobs'[i].ctx)
  BY <1>1, QueuedEffect
<1> HIDE DEF g
<1>7. WorkerOK'
  BY <1>1, <1>5, <1>6, StateTypes DEF WorkerOK
<1>8. ContextFenced(buffer.ctx)'
  BY <1>2, <1>3, <1>5 DEF ContextFenced, Uncancelled
<1>9. textQ' \in Seq(Texts) /\ \A i \in DOMAIN textQ' : ContextFenced(textQ'[i].ctx)
  BY <1>1, StateTypes DEF QueuesOK, IInv, Fenced
<1> QED BY <1>1, <1>2, <1>6, <1>7, <1>8, <1>9, WorkerStep

LEMMA DiscardStep ==
  ASSUME IInv, Discard, CaptureGateAssumption PROVE IInv'
<1>1. /\ remote' = [remote EXCEPT !.gate = Expire(remote.gate)] /\ buffer' = Empty
      /\ UNCHANGED <<parent, window, setting, owner, speechQ, commandQ, goneQ, textQ, handler, wire,
                     jobs, cancelled, missed, left>>
  BY DEF Discard, queues
<1>2. WorkerOK'
  BY <1>1, StateTypes, EmptyIs DEF WorkerOK
<1>3. ContextFenced(buffer.ctx)'
  <2>1. UNCHANGED <<gate, cancelled>>
    BY <1>1 DEF parent
  <2> QED BY <1>1, <2>1, StateTypes, EmptyIs DEF ContextFenced, Uncancelled
<1>4. /\ textQ' \in Seq(Texts) /\ \A i \in DOMAIN textQ' : ContextFenced(textQ'[i].ctx)
      /\ \A i \in DOMAIN jobs' : ContextFenced(jobs'[i].ctx)
  BY <1>1, StateTypes DEF QueuesOK, IInv, Fenced
<1> QED BY <1>1, <1>2, <1>3, <1>4, WorkerStep

LEMMA RecognizedStep ==
  ASSUME IInv, Recognized, CaptureGateAssumption PROVE IInv'
<1> DEFINE j == Head(jobs)
<1>1. /\ jobs # <<>> /\ remote' = [remote EXCEPT !.gate = Expire(remote.gate)]
      /\ textQ' = Append(textQ, j) \/ textQ' = textQ
      /\ jobs' = Tail(jobs)
      /\ UNCHANGED <<parent, window, setting, owner, speechQ, commandQ, goneQ, handler, wire,
                     buffer, cancelled, missed, left>>
  BY DEF Recognized
<1>2. /\ j \in Texts /\ j = jobs[1] /\ 1 \in DOMAIN jobs
      /\ Tail(jobs) \in Seq(Texts) /\ Len(Tail(jobs)) <= Len(jobs)
      /\ \A i \in DOMAIN Tail(jobs) : i + 1 \in DOMAIN jobs /\ Tail(jobs)[i] = jobs[i + 1]
  BY <1>1, StateTypes, TailElements DEF WorkerOK
<1>3. /\ textQ \in Seq(Texts) /\ \A i \in DOMAIN textQ : ContextFenced(textQ[i].ctx)
      /\ \A i \in DOMAIN jobs : ContextFenced(jobs[i].ctx)
  BY StateTypes DEF QueuesOK, IInv, Fenced
<1>4. ContextFenced(j.ctx)
  BY <1>2, <1>3
<1>5. \A i \in DOMAIN jobs' : ContextFenced(jobs'[i].ctx)
  BY <1>1, <1>2, <1>3
<1> HIDE DEF j
<1>6. textQ' \in Seq(Texts) /\ \A i \in DOMAIN textQ' : ContextFenced(textQ'[i].ctx)
  <2>1. CASE textQ' = textQ
    BY <1>3, <2>1
  <2>2. CASE textQ' = Append(textQ, j)
    <3>1. PICK q : q = Append(textQ, j)
      OBVIOUS
    <3>2. /\ q \in Seq(Texts)
          /\ \A i \in DOMAIN q : (i \in DOMAIN textQ /\ q[i] = textQ[i]) \/ q[i] = j
      BY <1>2, <1>3, <3>1, AppendElements
    <3> QED BY <1>3, <1>4, <2>2, <3>1, <3>2
  <2> QED BY <1>1, <2>1, <2>2
<1>7. WorkerOK'
  <2>1. Len(jobs') <= JobLimit
    <3>1. jobs \in Seq(Texts) /\ Len(jobs) <= JobLimit
      BY StateTypes DEF WorkerOK
    <3>2. Len(jobs) \in Nat /\ Len(Tail(jobs)) \in Nat /\ JobLimit \in Nat
      BY <1>2, <3>1, CaptureGateAssumption
    <3> QED BY <1>1, <1>2, <3>1, <3>2
  <2> QED BY <1>1, <1>2, <2>1, StateTypes DEF WorkerOK
<1>8. ContextFenced(buffer.ctx)'
  BY <1>1 DEF parent, IInv, Fenced, ContextFenced, Uncancelled
<1> QED BY <1>1, <1>5, <1>6, <1>7, <1>8, WorkerStep

LEMMA ArriveStep ==
  ASSUME IInv, Arrive, CaptureGateAssumption PROVE IInv'
<1>1. PICK s \in wire : wire' = wire \ {s} /\ Apply(s)
  BY DEF Arrive
<1>2. UNCHANGED <<gate, seen, retired, leases, tail, closed, setting, owner, speechQ, commandQ,
                  goneQ, textQ, handler, buffer, jobs, cancelled, missed, left>>
  BY DEF Arrive, parent, window, queues
<1>3. /\ GateOK(s) /\ GateOK(gate) /\ GateOK(remote.gate) /\ s.rev \in Nat /\ s.rev <= gate.rev
      /\ remote.applied \in Nat /\ gate.rev \in Nat /\ \A x \in wire : GateOK(x) /\ x.rev \in Nat
  BY <1>1, StateTypes DEF GatesOK, GateOK, IInv, Dated
<1>4. PICK a : a = [s EXCEPT !.rev = remote.gate.rev]
  OBVIOUS
<1>5. /\ GateOK(a) /\ Same(a, s) /\ a.active = s.active /\ a.epoch = s.epoch
      /\ a.session = s.session /\ a.press = s.press
  <2>1. remote.gate.rev \in Nat
    BY <1>3 DEF GateOK
  <2>2. GateOK(a) /\ Same(a, s)
    BY <1>3, <1>4, <2>1, RevIsNoContent
  <2> QED BY <1>3, <1>4, <2>2 DEF GateOK
<1>6. \/ s.rev <= remote.applied /\ remote' = remote
      \/ /\ ~(s.rev <= remote.applied) /\ remote'.gate = a /\ remote'.applied = s.rev
         /\ DOMAIN remote' = {"gate", "applied"}
  BY <1>1, <1>4 DEF Apply
<1>7. GatesOK'
  BY <1>1, <1>2, <1>3, <1>5, <1>6, StateTypes DEF GatesOK
<1>8. GoneStaysGone'
  BY <1>2 DEF IInv, GoneStaysGone
<1>9. Dated'
  <2>1. remote'.applied <= gate'.rev /\ gate'.rev > 0
    BY <1>2, <1>3, <1>6 DEF IInv, Dated
  <2>2. /\ \A x \in wire' : x.rev <= gate'.rev /\ (x.rev = gate'.rev => x = gate')
        /\ \A x, y \in wire' : x.rev = y.rev => x = y
    BY <1>1, <1>2 DEF IInv, Dated
  <2>3. remote'.applied = gate'.rev => Same(remote'.gate, gate')
    BY <1>1, <1>2, <1>5, <1>6 DEF IInv, Dated
  <2> QED BY <2>1, <2>2, <2>3 DEF Dated
<1>10. UpToDate'
  <2> SUFFICES ASSUME ~missed, \A l \in Lanes : handler[l].at # "sync"
               PROVE  \/ \E x \in wire' : Newest(x)' /\ Same(x, gate)
                      \/ Same(remote'.gate, gate) /\ \A x \in wire' : x.rev <= remote'.applied
    BY <1>2 DEF UpToDate
  <2>1. CASE Same(remote.gate, gate) /\ \A x \in wire : x.rev <= remote.applied
    BY <1>1, <1>6, <2>1
  <2>2. CASE \E x \in wire : Newest(x) /\ Same(x, gate)
    <3>1. PICK x \in wire : Newest(x) /\ Same(x, gate)
      BY <2>2
    <3>2. x.rev > remote.applied /\ s.rev <= x.rev /\ \A y \in wire : y.rev <= x.rev
      BY <1>1, <3>1 DEF Newest
    <3>3. CASE x = s
      <4>1. remote'.gate = a /\ remote'.applied = s.rev
        BY <1>3, <1>6, <3>2, <3>3
      <4>2. Same(a, gate)
        BY <1>5, <3>1, <3>3, SameIsEquivalence
      <4> QED BY <1>1, <3>2, <3>3, <4>1, <4>2
    <3>4. CASE x # s
      <4>1. s.rev < x.rev
        BY <1>1, <1>3, <3>2, <3>4 DEF IInv, Dated
      <4>2. x \in wire' /\ x.rev > remote'.applied
        BY <1>1, <1>6, <3>2, <3>4, <4>1
      <4>3. \A y \in wire' : y.rev <= x.rev
        BY <1>1, <3>2
      <4> QED BY <3>1, <4>2, <4>3 DEF Newest
    <3> QED BY <3>3, <3>4
  <2> QED BY <2>1, <2>2 DEF IInv, UpToDate
<1>11. Fenced'
  <2>1. \A x : Uncancelled(x) => Uncancelled(x)'
    BY <1>2 DEF Uncancelled
  <2>2. /\ CopyFenced(gate) /\ CopyFenced(remote.gate) /\ \A x \in wire : CopyFenced(x)
        /\ ContextFenced(buffer.ctx) /\ \A i \in DOMAIN jobs : ContextFenced(jobs[i].ctx)
        /\ \A i \in DOMAIN textQ : ContextFenced(textQ[i].ctx)
    BY DEF IInv, Fenced
  <2>3. CopyFenced(a)
    BY <1>1, <1>5, <2>2 DEF CopyFenced, Uncancelled
  <2>4. CopyFenced(remote.gate)'
    BY <1>2, <1>6, <2>2, <2>3 DEF CopyFenced, Uncancelled
  <2>5. CopyFenced(gate)' /\ \A x \in wire' : CopyFenced(x)'
    BY <1>1, <1>2, <2>2 DEF CopyFenced, Uncancelled
  <2>6. /\ ContextFenced(buffer.ctx)' /\ \A i \in DOMAIN jobs' : ContextFenced(jobs[i].ctx)'
        /\ \A i \in DOMAIN textQ' : ContextFenced(textQ[i].ctx)'
    BY <1>2, <2>2 DEF ContextFenced, Uncancelled
  <2> QED BY <2>4, <2>5, <2>6 DEF Fenced
<1>12. QueuesOK' /\ WorkerOK'
  BY <1>2, StateTypes DEF QueuesOK, WorkerOK
<1>13. WindowOK' /\ NoGhostPhrase'
  BY <1>2, StateTypes DEF WindowOK, IInv, NoGhostPhrase
<1>14. PressesNew'
  BY <1>2, HandlersKept
<1> QED BY <1>7, <1>8, <1>9, <1>10, <1>11, <1>12, <1>13, <1>14 DEF IInv, Types

LEMMA ReplayStep ==
  ASSUME IInv, Replay, CaptureGateAssumption PROVE IInv'
<1> DEFINE first == [FirstGate(left.mode) EXCEPT !.epoch = 0, !.rev = 0]
<1>1. /\ left.replays > 0 /\ left' = [left EXCEPT !.replays = @ - 1]
      /\ remote' = [gate |-> first, applied |-> 0]
      /\ buffer' = Empty /\ jobs' = <<>> /\ wire' \subseteq wire /\ missed' = TRUE
      /\ UNCHANGED <<gate, seen, retired, leases, tail, closed, setting, owner, speechQ, commandQ,
                     goneQ, textQ, handler, cancelled>>
  BY DEF Replay, parent, window, queues
<1>2. GateOK(first) /\ first.active = FALSE
  <2>1. left.mode \in Modes /\ -1 \in Int
    BY StateTypes DEF WorkerOK
  <2> QED BY <2>1 DEF FirstGate, GateOK
<1> HIDE DEF first
<1>3. GatesOK'
  BY <1>1, <1>2, StateTypes DEF GatesOK
<1>4. GoneStaysGone' /\ UpToDate'
  BY <1>1 DEF IInv, GoneStaysGone, UpToDate
<1>5. Dated'
  BY <1>1, StateTypes DEF IInv, Dated, GateOK
<1>6. QueuesOK' /\ WindowOK' /\ NoGhostPhrase'
  BY <1>1, StateTypes DEF QueuesOK, WindowOK, IInv, NoGhostPhrase
<1>7. WorkerOK' /\ left'.gen = left.gen
  <2>1. PICK n \in Nat : n = left.replays - 1
    BY <1>1, StateTypes DEF WorkerOK
  <2>2. left' = [left EXCEPT !.replays = n]
    BY <1>1, <2>1
  <2>3. left' \in [mode : Modes, changes : SUBSET Settings, sources : SUBSET Sources,
                   commands : Nat, desktop : Nat, phrases : Nat, replays : Nat, drops : Nat,
                   segments : Nat, stops : BOOLEAN, gen : Nat, talking : SUBSET Phrases] /\ left'.gen = left.gen
    BY <2>1, <2>2, StateTypes DEF WorkerOK
  <2>4. jobs' \in Seq(Texts) /\ Len(jobs') <= JobLimit
    BY <1>1, CaptureGateAssumption
  <2> QED BY <1>1, <2>3, <2>4, StateTypes, EmptyIs DEF WorkerOK
<1>8. Fenced'
  <2>1. CopyFenced(gate)' /\ \A x \in wire' : CopyFenced(x)'
    BY <1>1 DEF IInv, Fenced, CopyFenced, Uncancelled
  <2>2. CopyFenced(remote.gate)'
    BY <1>1, <1>2 DEF CopyFenced
  <2>3. ContextFenced(buffer.ctx)'
    BY <1>1, StateTypes, EmptyIs DEF ContextFenced, Uncancelled
  <2>4. \A i \in DOMAIN textQ' : ContextFenced(textQ[i].ctx)'
    BY <1>1 DEF IInv, Fenced, ContextFenced, Uncancelled
  <2> QED BY <1>1, <2>1, <2>2, <2>3, <2>4 DEF Fenced
<1>9. PressesNew'
  <2>1. gate'.press \in {gate.press, -1}
        /\ \A l \in Lanes : Told(l)' => Told(l) /\ handler'[l].command = handler[l].command
    BY <1>1 DEF Told
  <2> QED BY <1>1, <1>7, <2>1, PressesKept
<1> QED BY <1>3, <1>4, <1>5, <1>6, <1>7, <1>8, <1>9 DEF IInv, Types

-----------------------------------------------------------------------------
(* Text that comes back, the game, and time.                                *)

LEMMA CheckTextStep ==
  ASSUME IInv, CheckText, CaptureGateAssumption PROVE IInv'
<1> DEFINE t == Head(textQ)
           h == IF setting.enabled /\ Valid(gate', t.ctx) THEN [at |-> "mute", text |-> t] ELSE Idle
<1>1. /\ handler["text"] = Idle /\ textQ # <<>> /\ gate' = Expire(gate)
      /\ handler' = [handler EXCEPT !["text"] = h] /\ textQ' = Tail(textQ)
      /\ UNCHANGED <<seen, retired, leases, tail, closed, setting, owner, speechQ, commandQ, goneQ,
                     wire, remote, buffer, jobs, cancelled, missed, left>>
  BY DEF CheckText, window, worker
<1>2. /\ t \in Texts /\ Tail(textQ) \in Seq(Texts)
      /\ \A i \in DOMAIN Tail(textQ) : i + 1 \in DOMAIN textQ /\ Tail(textQ)[i] = textQ[i + 1]
  BY <1>1, StateTypes, TailElements DEF QueuesOK
<1> HIDE DEF t
<1>3. HandlerOK(h) /\ h.at \in {"mute", "idle"}
  BY <1>2, IdleOK DEF HandlerOK
<1>4. "text" \in Lanes
  BY LanesAre
<1> HIDE DEF h
<1>5. Moves(gate, gate') /\ Same(gate', gate)
  BY <1>1, StateTypes, ExpireMoves, ExpireSame
<1>6. GatesOK' /\ GoneStaysGone' /\ Dated' /\ UpToDate' /\ Fenced'
  <2>1. \A i \in DOMAIN textQ' : \E j \in DOMAIN textQ : textQ'[i] = textQ[j]
    BY <1>1, <1>2
  <2>2. handler["text"].at # "sync"
    BY <1>1, IdleOK
  <2> QED BY <1>1, <1>3, <1>4, <1>5, <2>1, <2>2, GateHandled
<1>7. QueuesOK'
  BY <1>1, <1>2, <1>3, <1>4, StateTypes, HandlerSet DEF QueuesOK
<1>8. WorkerOK' /\ WindowOK' /\ NoGhostPhrase'
  BY <1>1, StateTypes DEF WorkerOK, WindowOK, IInv, NoGhostPhrase
<1>9. PressesNew'
  <2>1. handler'["text"] = h /\ \A l \in Lanes : l # "text" => handler'[l] = handler[l]
    BY <1>1, <1>3, <1>4, StateTypes, HandlerSet
  <2>2. \A l \in Lanes : Told(l)' => Told(l) /\ handler'[l].command = handler[l].command
    BY <1>3, <2>1 DEF Told
  <2> QED BY <1>1, <1>5, <2>2, PressesKept DEF Moves
<1> QED BY <1>6, <1>7, <1>8, <1>9 DEF IInv, Types

LEMMA TextDoneStep ==
  ASSUME IInv, NEW taken, TextDone(taken), CaptureGateAssumption PROVE IInv'
<1>1. /\ handler["text"].at = "mute" /\ handler' = [handler EXCEPT !["text"] = Idle]
      /\ UNCHANGED <<parent, gate, leases, tail, closed, setting, owner, speechQ, commandQ, goneQ,
                     textQ, wire, remote, buffer, jobs, cancelled, missed, left>>
  BY DEF TextDone, window, worker, queues, parent
<1>2. "text" \in Lanes
  BY LanesAre
<1>3. /\ DOMAIN handler' = Lanes /\ \A l \in Lanes : HandlerOK(handler'[l])
      /\ handler'["text"] = Idle /\ \A l \in Lanes : l # "text" => handler'[l] = handler[l]
  BY <1>1, <1>2, IdleOK, StateTypes, HandlerSet
<1>4. GatesOK' /\ GoneStaysGone' /\ Dated' /\ UpToDate' /\ Fenced'
  <2>1. \A l \in Lanes : handler[l].at = "sync" => handler'[l].at = "sync"
    BY <1>1, <1>3
  <2> QED BY <1>1, <2>1, GatesKept
<1>5. QueuesOK' /\ WorkerOK' /\ WindowOK' /\ NoGhostPhrase'
  BY <1>1, <1>3, StateTypes DEF QueuesOK, WorkerOK, WindowOK, IInv, NoGhostPhrase
<1>6. PressesNew'
  <2>1. \A l \in Lanes : Told(l)' => Told(l) /\ handler'[l].command = handler[l].command
    BY <1>3, IdleOK DEF Told
  <2> QED BY <1>1, <2>1, PressesKept
<1> QED BY <1>4, <1>5, <1>6 DEF IInv, Types

\* What the game does changes a queue and what the plan allows.
LEMMA GameStep ==
  ASSUME IInv, UNCHANGED <<parent, window, setting, textQ, handler, wire, worker, cancelled,
                           missed>>,
         owner' \in Gone \union {None}, QueuesOK', PressesNew',
         left' \in [mode : Modes, changes : SUBSET Settings, sources : SUBSET Sources,
                    commands : Nat, desktop : Nat, phrases : Nat, replays : Nat, drops : Nat,
                    segments : Nat, stops : BOOLEAN, gen : Nat, talking : SUBSET Phrases]
  PROVE  IInv'
<1>1. UNCHANGED <<remote, buffer, jobs>>
  BY DEF worker
<1>2. GatesOK' /\ GoneStaysGone' /\ Dated' /\ UpToDate' /\ Fenced'
  BY <1>1, GatesKept
<1>3. WindowOK' /\ NoGhostPhrase'
  <2>1. setting' \in Settings
    BY StateTypes
  <2> QED BY <2>1, WindowKept
<1>4. WorkerOK'
  BY <1>1, StateTypes DEF WorkerOK
<1> QED BY <1>2, <1>3, <1>4 DEF IInv, Types

LEMMA StartPhraseStep ==
  ASSUME IInv, StartPhrase, CaptureGateAssumption PROVE IInv'
<1>1. PICK s \in left.sources :
        /\ speechQ' = Append(speechQ, [source |-> s, id |-> left.phrases, active |-> TRUE])
        /\ left' = [left EXCEPT !.phrases = @ - 1, !.talking = @ \union {<<s, left.phrases>>}]
  BY DEF StartPhrase
<1>2. /\ left.phrases > 0
      /\ UNCHANGED <<parent, window, setting, owner, commandQ, goneQ, textQ, handler, wire, worker,
                     cancelled, missed>>
  BY DEF StartPhrase
<1>3. /\ s \in Sources /\ left.phrases \in Nat /\ <<s, left.phrases>> \in Phrases
      /\ left.talking \subseteq Phrases
  BY StateTypes DEF WorkerOK, Phrases
<1>4. PICK n \in Nat, k \in SUBSET Phrases :
        n = left.phrases - 1 /\ k = left.talking \union {<<s, left.phrases>>}
  <2>1. left.phrases - 1 \in Nat
    BY <1>2, <1>3
  <2>2. left.talking \union {<<s, left.phrases>>} \in SUBSET Phrases
    BY <1>3
  <2> QED BY <2>1, <2>2
<1>5. left' = [left EXCEPT !.phrases = n, !.talking = k]
  BY <1>1, <1>4
<1>6. left' \in [mode : Modes, changes : SUBSET Settings, sources : SUBSET Sources,
                 commands : Nat, desktop : Nat, phrases : Nat, replays : Nat, drops : Nat,
                 segments : Nat, stops : BOOLEAN, gen : Nat, talking : SUBSET Phrases] /\ left'.gen = left.gen
  BY <1>4, <1>5, StateTypes DEF WorkerOK
<1>7. QueuesOK'
  <2>1. [source |-> s, id |-> left.phrases, active |-> TRUE]
            \in [source : Sources, id : Nat, active : BOOLEAN]
    BY <1>3
  <2>2. speechQ' \in Seq([source : Sources, id : Nat, active : BOOLEAN])
    BY <1>1, <2>1, StateTypes, AppendElements DEF QueuesOK
  <2> QED BY <1>2, <2>2, StateTypes DEF QueuesOK
<1>8. PressesNew'
  <2>1. gate'.press \in {gate.press, -1}
        /\ \A l \in Lanes : Told(l)' => Told(l) /\ handler'[l].command = handler[l].command
    BY <1>2 DEF Told, parent
  <2> QED BY <1>2, <1>6, <2>1, PressesKept
<1>9. owner' \in Gone \union {None}
  BY <1>2, StateTypes DEF WindowOK
<1> QED BY <1>2, <1>6, <1>7, <1>8, <1>9, GameStep

LEMMA EndPhraseStep ==
  ASSUME IInv, EndPhrase, CaptureGateAssumption PROVE IInv'
<1>1. PICK k \in left.talking :
        /\ speechQ' = Append(speechQ, [source |-> k[1], id |-> k[2], active |-> FALSE])
        /\ left' = [left EXCEPT !.talking = @ \ {k}]
  BY DEF EndPhrase
<1>2. UNCHANGED <<parent, window, setting, owner, commandQ, goneQ, textQ, handler, wire, worker,
                  cancelled, missed>>
  BY DEF EndPhrase
<1>3. k[1] \in Sources /\ k[2] \in Nat /\ left.talking \subseteq Phrases
  BY StateTypes DEF WorkerOK, Phrases
<1>4. left' \in [mode : Modes, changes : SUBSET Settings, sources : SUBSET Sources,
                 commands : Nat, desktop : Nat, phrases : Nat, replays : Nat, drops : Nat,
                 segments : Nat, stops : BOOLEAN, gen : Nat, talking : SUBSET Phrases] /\ left'.gen = left.gen
  BY <1>1, <1>3, StateTypes DEF WorkerOK
<1>5. QueuesOK'
  <2>1. [source |-> k[1], id |-> k[2], active |-> FALSE]
            \in [source : Sources, id : Nat, active : BOOLEAN]
    BY <1>3
  <2>2. speechQ' \in Seq([source : Sources, id : Nat, active : BOOLEAN])
    BY <1>1, <2>1, StateTypes, AppendElements DEF QueuesOK
  <2> QED BY <1>2, <2>2, StateTypes DEF QueuesOK
<1>6. PressesNew'
  <2>1. gate'.press \in {gate.press, -1}
        /\ \A l \in Lanes : Told(l)' => Told(l) /\ handler'[l].command = handler[l].command
    BY <1>2 DEF Told, parent
  <2> QED BY <1>2, <1>4, <2>1, PressesKept
<1>7. owner' \in Gone \union {None}
  BY <1>2, StateTypes DEF WindowOK
<1> QED BY <1>2, <1>4, <1>5, <1>6, <1>7, GameStep

LEMMA SendCommandStep ==
  ASSUME IInv, SendCommand, CaptureGateAssumption PROVE IInv'
<1>1. PICK c \in Presses("ptt", owner) :
        /\ commandQ' = Append(commandQ, c)
        /\ left' = [left EXCEPT !.commands = @ - 1, !.gen = c.gen]
  BY DEF SendCommand
<1>2. /\ left.commands > 0 /\ owner # None
      /\ UNCHANGED <<parent, window, setting, owner, speechQ, goneQ, textQ, handler, wire, worker,
                     cancelled, missed>>
  BY DEF SendCommand
<1>3. left.gen \in Nat /\ "ptt" \in Modes /\ owner \in Sessions /\ owner \in Gone
  BY <1>2, StateTypes DEF WorkerOK, WindowOK, Modes, Sessions, Gone
<1>4. /\ c \in Commands /\ c.gen \in {left.gen, left.gen + 1}
      /\ c.active => c.gen = left.gen + 1
  BY <1>3, PressesEffect
<1>5. left' \in [mode : Modes, changes : SUBSET Settings, sources : SUBSET Sources,
                 commands : Nat, desktop : Nat, phrases : Nat, replays : Nat, drops : Nat,
                 segments : Nat, stops : BOOLEAN, gen : Nat, talking : SUBSET Phrases] /\ left'.gen = c.gen
  <2>1. PICK n \in Nat, d \in Nat : n = c.gen /\ d = left.commands - 1
    <3>1. left.commands \in Nat
      BY StateTypes DEF WorkerOK
    <3>2. c.gen \in Nat
      BY <1>3, <1>4
    <3>3. left.commands - 1 \in Nat
      BY <1>2, <3>1
    <3> QED BY <3>2, <3>3
  <2>2. left' = [left EXCEPT !.commands = d, !.gen = n]
    BY <1>1, <2>1
  <2> QED BY <2>1, <2>2, StateTypes DEF WorkerOK
<1>6. /\ commandQ \in Seq(Commands) /\ commandQ' \in Seq(Commands)
      /\ \A i \in DOMAIN commandQ' :
            \/ i \in DOMAIN commandQ /\ commandQ'[i] = commandQ[i]
            \/ i = Len(commandQ) + 1 /\ commandQ'[i] = c
  BY <1>1, <1>4, StateTypes, AppendElements DEF QueuesOK
<1>7. QueuesOK'
  BY <1>2, <1>6, StateTypes DEF QueuesOK
<1>8. PressesNew'
  <2>1. UNCHANGED <<gate, cancelled, handler>>
    BY <1>2 DEF parent
  <2>2. /\ Unused(c)' /\ \A x : Unused(x) => Unused(x)' /\ (c.active => x.gen # c.gen)
        /\ gate'.press <= left'.gen /\ \A p \in cancelled' : p[2] <= left'.gen
    BY <1>4, <1>5, <2>1, NewPress
  <2>3. /\ \A i \in DOMAIN commandQ : Unused(commandQ[i])
        /\ \A l \in Lanes : Told(l) => Unused(handler[l].command) /\ l \in {"ptt", "gui"}
    BY DEF IInv, PressesNew
  <2>4. \A i \in DOMAIN commandQ' : Unused(commandQ[i])'
    <3> TAKE i \in DOMAIN commandQ'
    <3>1. PICK x : x = commandQ'[i] /\ (Unused(x) \/ x = c)
      BY <1>6, <2>3
    <3> QED BY <2>2, <3>1 DEF Unused
  <2>5. \A l \in Lanes : Told(l)' => Unused(handler[l].command)' /\ l \in {"ptt", "gui"}
    BY <2>1, <2>2, <2>3 DEF Unused, Told
  <2>6. \A i, j \in DOMAIN commandQ' : i # j /\ commandQ'[i].active /\ commandQ'[j].active
                                           => commandQ'[i].gen # commandQ'[j].gen
    BY <1>6, <2>2, <2>3 DEF IInv, PressesNew
  <2>7. \A l \in Lanes, i \in DOMAIN commandQ' :
            Told(l)' /\ handler'[l].command.active /\ commandQ'[i].active
                => handler'[l].command.gen # commandQ'[i].gen
    BY <1>6, <2>1, <2>2, <2>3 DEF IInv, PressesNew, Told
  <2>8. Told("ptt")' /\ Told("gui")' /\ handler'["ptt"].command.active
          /\ handler'["gui"].command.active
          => handler'["ptt"].command.gen # handler'["gui"].command.gen
    BY <2>1 DEF IInv, PressesNew, Told
  <2> QED BY <2>2, <2>4, <2>5, <2>6, <2>7, <2>8 DEF PressesNew
<1>9. owner' \in Gone \union {None}
  BY <1>2, <1>3
<1> QED BY <1>2, <1>5, <1>7, <1>8, <1>9, GameStep

LEMMA DisconnectStep ==
  ASSUME IInv, Disconnect, CaptureGateAssumption PROVE IInv'
<1> DEFINE i == CHOOSE i \in DOMAIN Clients : Clients[i] = owner
<1>1. /\ left.drops > 0 /\ owner # None
      /\ owner' = (IF i < Len(Clients) THEN Clients[i + 1] ELSE None)
      /\ goneQ' = Append(goneQ, owner) /\ left' = [left EXCEPT !.drops = @ - 1]
      /\ UNCHANGED <<parent, window, setting, speechQ, commandQ, textQ, handler, wire, worker,
                     cancelled, missed>>
  BY DEF Disconnect
<1>2. owner \in Gone
  BY <1>1, StateTypes DEF WindowOK
<1>3. owner' \in Gone \union {None}
  <2>1. i \in DOMAIN Clients
    BY <1>2 DEF Gone, Range
  <2>2. Clients \in Seq(Range(Clients)) /\ DOMAIN Clients = 1 .. Len(Clients)
    BY CaptureGateAssumption
  <2> HIDE DEF i
  <2>3. i < Len(Clients) => i + 1 \in DOMAIN Clients
    BY <2>1, <2>2
  <2> QED BY <1>1, <2>3 DEF Gone, Range
<1> HIDE DEF i
<1>4. left' \in [mode : Modes, changes : SUBSET Settings, sources : SUBSET Sources,
                 commands : Nat, desktop : Nat, phrases : Nat, replays : Nat, drops : Nat,
                 segments : Nat, stops : BOOLEAN, gen : Nat, talking : SUBSET Phrases] /\ left'.gen = left.gen
  <2>1. PICK n \in Nat : n = left.drops - 1
    <3>1. left.drops \in Nat
      BY StateTypes DEF WorkerOK
    <3> QED BY <1>1, <3>1
  <2>2. left' = [left EXCEPT !.drops = n]
    BY <1>1, <2>1
  <2> QED BY <2>1, <2>2, StateTypes DEF WorkerOK
<1>5. QueuesOK'
  <2>1. goneQ' \in Seq(Gone)
    BY <1>1, <1>2, StateTypes, AppendElements DEF QueuesOK
  <2> QED BY <1>1, <2>1, StateTypes DEF QueuesOK
<1>6. PressesNew'
  <2>1. gate'.press \in {gate.press, -1}
        /\ \A l \in Lanes : Told(l)' => Told(l) /\ handler'[l].command = handler[l].command
    BY <1>1 DEF Told, parent
  <2> QED BY <1>1, <1>4, <2>1, PressesKept
<1> QED BY <1>1, <1>3, <1>4, <1>5, <1>6, GameStep

\* A recording that goes on holds no less of its context, and no more phrases.
LEMMA HeardKeeps ==
  ASSUME NEW t \in Texts PROVE Heard(t) \in Texts /\ Heard(t).ctx = t.ctx
<1>1. PICK h \in SUBSET Phrases : Heard(t) = [t EXCEPT !.heard = h]
  BY DEF Heard, Texts
<1> QED BY <1>1 DEF Texts

LEMMA HeardAll ==
  ASSUME NEW q \in Seq(Texts), NEW r, r = [i \in DOMAIN q |-> Heard(q[i])]
  PROVE  /\ r \in Seq(Texts) /\ Len(r) = Len(q) /\ DOMAIN r = DOMAIN q
         /\ \A i \in DOMAIN r : r[i].ctx = q[i].ctx
<1>1. Len(q) \in Nat /\ DOMAIN q = 1 .. Len(q) /\ \A i \in 1 .. Len(q) : q[i] \in Texts
  OBVIOUS
<1>2. \A i \in 1 .. Len(q) : Heard(q[i]) \in Texts /\ Heard(q[i]).ctx = q[i].ctx
  BY <1>1, HeardKeeps
<1>3. r \in [1 .. Len(q) -> Texts] /\ \A i \in DOMAIN r : r[i].ctx = q[i].ctx
  BY <1>1, <1>2
<1> QED BY <1>1, <1>3

LEMMA TickStep ==
  ASSUME IInv, Tick, CaptureGateAssumption PROVE IInv'
<1>1. /\ \A l \in Lanes : handler[l] = Idle
      /\ gate' = Later(gate) /\ tail' = Sooner(tail)
      /\ leases' = [k \in Live |-> Sooner(leases[k])]
      /\ remote' = [remote EXCEPT !.gate = Later(@)]
      /\ wire' = {Later(s) : s \in wire}
      /\ buffer' = Heard(buffer)
      /\ jobs' = [i \in DOMAIN jobs |-> Heard(jobs[i])]
      /\ textQ' = [i \in DOMAIN textQ |-> Heard(textQ[i])]
      /\ UNCHANGED <<seen, retired, closed, setting, owner, speechQ, commandQ, goneQ, handler,
                     cancelled, missed, left>>
  BY DEF Tick
<1>2. /\ GateOK(gate) /\ GateOK(remote.gate) /\ \A s \in wire : GateOK(s)
      /\ DOMAIN remote = {"gate", "applied"}
  BY StateTypes DEF GatesOK
<1>3. \A g : GateOK(g) => /\ GateOK(Later(g)) /\ Later(g).rev = g.rev /\ Later(g).epoch = g.epoch
                          /\ Later(g).session = g.session /\ Later(g).press = g.press
                          /\ Later(g).active = g.active /\ Later(g).mode = g.mode
  BY LaterKeeps
<1>4. /\ remote'.gate = Later(remote.gate) /\ remote'.applied = remote.applied
      /\ DOMAIN remote' = {"gate", "applied"}
  BY <1>1, <1>2
<1>5. GatesOK'
  BY <1>1, <1>2, <1>3, <1>4, StateTypes DEF GatesOK
<1>6. GoneStaysGone'
  BY <1>1, <1>2, <1>3 DEF IInv, GoneStaysGone
<1>7. \A g, h : GateOK(g) /\ GateOK(h) /\ Same(g, h) => Same(Later(g), Later(h))
  BY LaterSame
<1>8. Dated'
  <2>1. gate'.rev = gate.rev
    BY <1>1, <1>2, <1>3
  <2>2. gate'.rev > 0 /\ remote'.applied <= gate'.rev
    BY <1>4, <2>1 DEF IInv, Dated
  <2>3. \A x \in wire' : \E s \in wire : x = Later(s) /\ x.rev = s.rev
    <3> TAKE x \in wire'
    <3>1. PICK s \in wire : x = Later(s)
      BY <1>1
    <3> QED BY <1>2, <1>3, <3>1
  <2>4. \A s \in wire : s.rev <= gate.rev /\ (s.rev = gate.rev => s = gate)
    BY DEF IInv, Dated
  <2>5. \A x \in wire' : x.rev <= gate'.rev /\ (x.rev = gate'.rev => x = gate')
    BY <1>1, <2>1, <2>3, <2>4
  <2>6. \A x, y \in wire' : x.rev = y.rev => x = y
    <3> TAKE x, y \in wire'
    <3>1. PICK s \in wire, u \in wire : /\ x = Later(s) /\ x.rev = s.rev
                                        /\ y = Later(u) /\ y.rev = u.rev
      BY <2>3
    <3> QED BY <3>1 DEF IInv, Dated
  <2>7. remote'.applied = gate'.rev => Same(remote'.gate, gate')
    BY <1>1, <1>2, <1>4, <1>7, <2>1 DEF IInv, Dated
  <2> QED BY <2>2, <2>5, <2>6, <2>7 DEF Dated
<1>9. UpToDate'
  <2> SUFFICES ASSUME ~missed
               PROVE  \/ \E x \in wire' : Newest(x)' /\ Same(x, gate')
                      \/ Same(remote'.gate, gate') /\ \A x \in wire' : x.rev <= remote'.applied
    BY <1>1 DEF UpToDate
  <2>1. \/ \E s \in wire : Newest(s) /\ Same(s, gate)
        \/ Same(remote.gate, gate) /\ \A x \in wire : x.rev <= remote.applied
    BY <1>1, IdleOK DEF IInv, UpToDate
  <2>2. CASE Same(remote.gate, gate) /\ \A x \in wire : x.rev <= remote.applied
    BY <1>1, <1>2, <1>3, <1>4, <1>7, <2>2
  <2>3. CASE \E s \in wire : Newest(s) /\ Same(s, gate)
    <3>1. PICK s \in wire : Newest(s) /\ Same(s, gate)
      BY <2>3
    <3>2. PICK x \in wire' : x = Later(s)
      BY <1>1, <3>1
    <3>3. x.rev = s.rev /\ Same(x, gate')
      BY <1>1, <1>2, <1>3, <1>7, <3>1, <3>2
    <3>4. \A y \in wire' : \E u \in wire : y.rev = u.rev
      BY <1>1, <1>2, <1>3
    <3>5. x.rev > remote'.applied /\ \A y \in wire' : y.rev <= x.rev
      BY <1>4, <3>1, <3>3, <3>4 DEF Newest
    <3> QED BY <3>2, <3>3, <3>5 DEF Newest
  <2> QED BY <2>1, <2>2, <2>3
<1>10. /\ textQ' \in Seq(Texts) /\ DOMAIN textQ' = DOMAIN textQ
       /\ \A i \in DOMAIN textQ' : textQ'[i].ctx = textQ[i].ctx
  BY <1>1, StateTypes, HeardAll DEF QueuesOK
<1>11. /\ jobs' \in Seq(Texts) /\ Len(jobs') = Len(jobs) /\ DOMAIN jobs' = DOMAIN jobs
       /\ \A i \in DOMAIN jobs' : jobs'[i].ctx = jobs[i].ctx
  BY <1>1, StateTypes, HeardAll DEF WorkerOK
<1>12. /\ buffer' \in [on : BOOLEAN, ctx : Contexts, heard : SUBSET Phrases,
                       done : Contexts \union {Nobody}]
       /\ buffer'.ctx = buffer.ctx
  <2>1. PICK h \in SUBSET Phrases : buffer' = [buffer EXCEPT !.heard = h]
    BY <1>1, StateTypes DEF Heard, WorkerOK
  <2> QED BY <2>1, StateTypes DEF WorkerOK
<1>13. QueuesOK' /\ WorkerOK'
  BY <1>1, <1>10, <1>11, <1>12, StateTypes DEF QueuesOK, WorkerOK
<1>14. Fenced'
  <2>1. gate'.epoch = gate.epoch /\ cancelled' = cancelled
    BY <1>1, <1>2, <1>3
  <2>2. \A x : (ContextFenced(x) => ContextFenced(x)') /\ (CopyFenced(x) => CopyFenced(x)')
    BY <2>1 DEF ContextFenced, CopyFenced, Uncancelled
  <2>3. \A g : GateOK(g) /\ CopyFenced(g) => CopyFenced(Later(g))'
    BY <1>3, <2>1 DEF CopyFenced, Uncancelled
  <2>4. /\ CopyFenced(gate) /\ CopyFenced(remote.gate) /\ \A s \in wire : CopyFenced(s)
        /\ ContextFenced(buffer.ctx) /\ \A i \in DOMAIN jobs : ContextFenced(jobs[i].ctx)
        /\ \A i \in DOMAIN textQ : ContextFenced(textQ[i].ctx)
    BY DEF IInv, Fenced
  <2>5. CopyFenced(gate)'
    BY <1>1, <1>2, <1>3, <2>1, <2>4 DEF CopyFenced, Uncancelled
  <2>6. CopyFenced(remote.gate)'
    <3>1. /\ remote'.gate.active = remote.gate.active /\ remote'.gate.epoch = remote.gate.epoch
          /\ remote'.gate.session = remote.gate.session /\ remote'.gate.press = remote.gate.press
      BY <1>2, <1>3, <1>4
    <3> QED BY <2>1, <2>4, <3>1 DEF CopyFenced, Uncancelled
  <2>7. \A x \in wire' : CopyFenced(x)'
    <3> TAKE x \in wire'
    <3>1. PICK s \in wire : x = Later(s)
      BY <1>1
    <3>2. GateOK(s)
      BY StateTypes DEF GatesOK
    <3> QED BY <2>3, <2>4, <3>1, <3>2
  <2>8. /\ ContextFenced(buffer.ctx)' /\ \A i \in DOMAIN jobs' : ContextFenced(jobs[i].ctx)'
        /\ \A i \in DOMAIN textQ' : ContextFenced(textQ[i].ctx)'
    BY <1>10, <1>11, <1>12, <2>1, <2>4 DEF ContextFenced, Uncancelled
  <2> QED BY <2>5, <2>6, <2>7, <2>8 DEF Fenced
<1>15. WindowOK' /\ NoGhostPhrase'
  <2>1. Live \subseteq DOMAIN leases /\ DOMAIN leases' = Live
    BY <1>1 DEF Live
  <2>2. \A n \in Nat : Sooner(n) \in Nat
    BY DEF Sooner
  <2>3. \A k \in DOMAIN leases' : leases'[k] \in Nat
    BY <1>1, <2>1, <2>2, StateTypes DEF WindowOK
  <2> QED BY <1>1, <2>1, <2>2, <2>3, StateTypes DEF WindowOK, IInv, NoGhostPhrase
<1>16. PressesNew'
  <2>1. gate'.press \in {gate.press, -1}
    BY <1>1, <1>2, <1>3
  <2>2. \A l \in Lanes : Told(l)' => Told(l) /\ handler'[l].command = handler[l].command
    BY <1>1 DEF Told
  <2> QED BY <1>1, <2>1, <2>2, PressesKept
<1> QED BY <1>5, <1>6, <1>8, <1>9, <1>13, <1>14, <1>15, <1>16 DEF IInv, Types

LEMMA StutterStep == ASSUME IInv, UNCHANGED vars PROVE IInv'
<1>1. UNCHANGED <<gate, seen, retired, leases, tail, closed, setting, owner, speechQ, commandQ,
                  goneQ, textQ, handler, wire, remote, buffer, jobs, cancelled, missed, left>>
  BY DEF vars
<1>2. GatesOK' /\ GoneStaysGone' /\ Dated' /\ UpToDate' /\ Fenced'
  BY <1>1, GatesKept DEF parent
<1>3. Types' /\ NoGhostPhrase'
  BY <1>1, <1>2, StateTypes DEF Types, QueuesOK, WindowOK, WorkerOK, IInv, NoGhostPhrase
<1>4. PressesNew'
  BY <1>1, HandlersKept
<1> QED BY <1>2, <1>3, <1>4 DEF IInv

-----------------------------------------------------------------------------
LEMMA InitIInv == Init => IInv
<1> SUFFICES ASSUME Init PROVE IInv
  OBVIOUS
<1>1. PICK p \in Plans :
        left = [mode |-> p.mode, changes |-> p.changes, commands |-> p.commands,
                desktop |-> p.desktop, phrases |-> p.phrases, replays |-> p.replays,
                drops |-> p.drops, sources |-> p.sources, segments |-> p.segments,
                stops |-> p.stops, gen |-> 0, talking |-> {}]
  BY DEF Init
<1>2. /\ gate = FirstGate(left.mode) /\ remote = [gate |-> gate, applied |-> 1]
      /\ setting = [mode |-> left.mode, enabled |-> TRUE, mute |-> TRUE]
      /\ seen = [s \in Sessions |-> -1] /\ retired = <<>>
      /\ leases = <<>> /\ tail = 0 /\ closed = <<>> /\ owner = Clients[1]
      /\ speechQ = <<>> /\ commandQ = <<>> /\ goneQ = <<>> /\ textQ = <<>>
      /\ handler = [l \in Lanes |-> Idle]
      /\ wire = {} /\ buffer = Empty /\ jobs = <<>> /\ cancelled = {} /\ missed = FALSE
  BY DEF Init
<1>3. p \in [mode : Modes, changes : SUBSET Settings, sources : SUBSET Sources,
             commands : Nat, desktop : Nat, phrases : Nat, replays : Nat, drops : Nat,
             segments : Nat, stops : BOOLEAN]
  BY CaptureGateAssumption
<1>4. left \in [mode : Modes, changes : SUBSET Settings, sources : SUBSET Sources,
                commands : Nat, desktop : Nat, phrases : Nat, replays : Nat, drops : Nat,
                segments : Nat, stops : BOOLEAN, gen : Nat, talking : SUBSET Phrases] /\ left.gen = 0
  BY <1>1, <1>3
<1>5. /\ GateOK(gate) /\ gate.active = FALSE /\ gate.session = None /\ gate.press = -1
      /\ gate.rev = 1 /\ gate.epoch = 1
  <2>1. left.mode \in Modes /\ -1 \in Int
    BY <1>4
  <2> QED BY <1>2, <2>1 DEF FirstGate, GateOK
<1>6. DOMAIN remote = {"gate", "applied"} /\ remote.gate = gate /\ remote.applied = 1
  BY <1>2
<1>7. GatesOK
  <2>1. seen \in [Sessions -> Int] /\ retired \in Seq(Gone)
    BY <1>2
  <2> QED BY <1>2, <1>5, <1>6, <2>1 DEF GatesOK
<1>8. WindowOK /\ NoGhostPhrase
  <2>1. Clients[1] \in Gone
    <3>1. Clients \in Seq(Range(Clients)) /\ Clients # <<>>
      BY CaptureGateAssumption
    <3> QED BY <3>1 DEF Gone
  <2>2. setting \in Settings
    BY <1>2, <1>4 DEF Settings
  <2>3. Memory \in Nat /\ Len(closed) = 0 /\ closed \in Seq(Gone) /\ DOMAIN leases = {}
    BY <1>2, CaptureGateAssumption
  <2> QED BY <1>2, <2>1, <2>2, <2>3 DEF WindowOK, NoGhostPhrase
<1>9. QueuesOK
  BY <1>2, IdleOK DEF QueuesOK
<1>10. WorkerOK
  <2>1. JobLimit \in Nat /\ Len(jobs) = 0 /\ jobs \in Seq(Texts)
    BY <1>2, CaptureGateAssumption
  <2>2. buffer \in [on : BOOLEAN, ctx : Contexts, heard : SUBSET Phrases,
                    done : Contexts \union {Nobody}]
    BY <1>2, EmptyIs
  <2>3. cancelled \subseteq Sessions \X Int /\ missed \in BOOLEAN /\ Len(jobs) <= JobLimit
    <3>1. cancelled = {} /\ missed = FALSE
      BY <1>2
    <3>2. Len(jobs) <= JobLimit
      BY <2>1
    <3> QED BY <3>1, <3>2
  <2> QED BY <1>4, <2>1, <2>2, <2>3 DEF WorkerOK
<1>11. GoneStaysGone
  BY <1>2 DEF GoneStaysGone, Range
<1>12. Dated /\ UpToDate
  BY <1>2, <1>5, <1>6, SameIsEquivalence DEF Dated, UpToDate
<1>13. PressesNew
  <2>1. \A l \in Lanes : ~Told(l)
    BY <1>2, IdleOK DEF Told
  <2>2. gate.press <= left.gen /\ commandQ = <<>> /\ cancelled = {}
    BY <1>2, <1>4, <1>5
  <2>3. "ptt" \in Lanes
    BY LanesAre
  <2> QED BY <2>1, <2>2, <2>3 DEF PressesNew
<1>14. Fenced
  BY <1>2, <1>5, <1>6, EmptyIs DEF Fenced, CopyFenced
<1> QED BY <1>7, <1>8, <1>9, <1>10, <1>11, <1>12, <1>13, <1>14 DEF IInv, Types

LEMMA NextIInv == IInv /\ [Next]_vars => IInv'
<1> SUFFICES ASSUME IInv, [Next]_vars PROVE IInv'
  OBVIOUS
<1> USE CaptureGateAssumption
<1>1. CASE OwnStep
  <2>1. CASE PhraseTold \/ CommandTold \/ ClientGone \/ SessionFenced
    BY <2>1, PhraseToldStep, CommandToldStep, ClientGoneStep, SessionFencedStep
  <2>2. CASE \E l \in {"speech", "ptt", "gone", "gui"} : Synced(l)
    BY <2>2, SyncedStep
  <2>3. CASE \E l \in {"ptt", "gui"} : Command(l)
    BY <2>3, CommandStep
  <2>4. CASE Arrive \/ Segment \/ Discard \/ Recognized
    BY <2>4, ArriveStep, SegmentStep, DiscardStep, RecognizedStep
  <2>5. CASE CheckText \/ TakeText \/ MuteText
    BY <2>5, CheckTextStep, TextDoneStep DEF TakeText, MuteText
  <2>6. CASE Tick
    BY <2>6, TickStep
  <2> QED BY <1>1, <2>1, <2>2, <2>3, <2>4, <2>5, <2>6 DEF OwnStep
<1>2. CASE Hear \/ ChangeSetting \/ DesktopCommand \/ Replay
  BY <1>2, HearStep, ChangeSettingStep, DesktopCommandStep, ReplayStep
<1>3. CASE StartPhrase \/ EndPhrase \/ SendCommand \/ Disconnect
  BY <1>3, StartPhraseStep, EndPhraseStep, SendCommandStep, DisconnectStep
<1>4. CASE UNCHANGED vars
  BY <1>4, StutterStep
<1> QED BY <1>1, <1>2, <1>3, <1>4 DEF Next

\* The invariant behind the theorems: types, what the window and the gate remember of
\* clients that are gone, snapshots that name one gate each, presses that are used once,
\* and captures that no cancellation reaches back to.
THEOREM Invariance == Spec => []IInv
<1>1. Init => IInv
  BY InitIInv
<1>2. IInv /\ [Next]_vars => IInv'
  BY NextIInv
<1> QED BY <1>1, <1>2, PTL DEF Spec

\* A game that disconnected keeps neither the microphone shut nor the capture, whatever
\* of its phrases and commands was still on the bus (speaking_window.py close_source,
\* asr_input_gate.py disconnect), for any number of clients, phrases and commands.
THEOREM ClientsGoForGood == Spec => []GoneIsGone
<1>1. IInv => GoneIsGone
  <2> SUFFICES ASSUME IInv PROVE GoneIsGone
    OBVIOUS
  <2>1. TypeOK
    <3>1. /\ {gate.rev, gate.epoch, tail} \subseteq Nat /\ gate.mode \in Modes
          /\ {gate.session, remote.gate.session} \subseteq Sessions \union {None}
      BY StateTypes DEF GatesOK, GateOK, WindowOK
    <3>2. Range(closed) \subseteq Range(Clients) /\ Len(closed) <= Memory
      BY StateTypes DEF WindowOK, Gone, Range
    <3>3. DOMAIN leases \subseteq Sources \X Nat /\ Len(jobs) <= JobLimit
      BY StateTypes DEF WindowOK, WorkerOK, Phrases
    <3>4. remote.applied <= gate.rev
      BY DEF IInv, Dated
    <3> QED BY <3>1, <3>2, <3>3, <3>4 DEF TypeOK
  <2> QED BY <2>1 DEF IInv, GoneIsGone
<1> QED BY <1>1, Invariance, PTL

\* The recognizer's copy of the gate is the program's whenever nothing is under way, in
\* whatever order the snapshots came and whichever clock ran first
\* (asr_input_gate.py apply, asr_handler.py publish_input_gate).
THEOREM CopiesAgree == Spec => []CopyAgrees
<1>1. IInv => CopyAgrees
  <2> SUFFICES ASSUME IInv, wire = {}, ~missed, \A l \in Lanes : handler[l] = Idle
               PROVE  [Expire(remote.gate) EXCEPT !.rev = 0] = [Expire(gate) EXCEPT !.rev = 0]
    BY DEF CopyAgrees
  <2>1. Same(remote.gate, gate)
    BY IdleOK DEF IInv, UpToDate
  <2> QED BY <2>1 DEF Same
<1> QED BY <1>1, Invariance, PTL

\* Text of a press that was cancelled, or of a session that disconnected, is dropped
\* however late it arrives (speech_controller.py _on_speech_text_recognized).
THEOREM FencedTextIsDropped == Spec => FencedTextDropped
<1> DEFINE Dropped ==
      (CheckText /\ handler'["text"].at = "mute" /\ handler'["text"].text.ctx.mode \in Manual) =>
         LET c == handler'["text"].text.ctx
         IN  c.session \notin Range(retired) /\ <<c.session, c.press>> \notin cancelled
<1>1. IInv /\ [Next]_vars => [Dropped]_vars
  <2> SUFFICES ASSUME IInv, CheckText, handler'["text"].at = "mute",
                      handler'["text"].text.ctx.mode \in Manual
               PROVE  /\ handler'["text"].text.ctx.session \notin Range(retired)
                      /\ <<handler'["text"].text.ctx.session, handler'["text"].text.ctx.press>>
                             \notin cancelled
    BY DEF Dropped
  <2>1. PICK t : t = Head(textQ)
    OBVIOUS
  <2>2. "text" \in Lanes /\ DOMAIN handler = Lanes
    BY LanesAre, StateTypes DEF QueuesOK
  <2>3. /\ textQ # <<>> /\ gate' = Expire(gate)
        /\ handler'["text"] = (IF setting.enabled /\ Valid(gate', t.ctx)
                               THEN [at |-> "mute", text |-> t] ELSE Idle)
    BY <2>1, <2>2 DEF CheckText
  <2>4. handler'["text"].text = t /\ Valid(gate', t.ctx)
    BY <2>3, IdleOK
  <2>5. ContextFenced(t.ctx)
    BY <2>1, <2>3, StateTypes, TailElements DEF QueuesOK, IInv, Fenced
  <2>6. t.ctx.epoch = gate'.epoch /\ t.ctx.session = gate'.session /\ t.ctx.mode \in Manual
    BY <2>4 DEF Valid
  <2>7. gate'.session = gate.session /\ gate'.epoch >= gate.epoch
    BY <2>3, StateTypes, ExpireMoves DEF Moves
  <2>8. gate.epoch \in Nat /\ gate'.epoch \in Nat
    BY <2>3, StateTypes, ExpireMoves DEF Moves, GateOK
  <2>9. t.ctx.session \notin Range(retired)
    BY <2>6, <2>7 DEF IInv, GoneStaysGone
  <2>10. <<t.ctx.session, t.ctx.press>> \notin cancelled
    BY <2>5, <2>6, <2>7, <2>8 DEF ContextFenced, Uncancelled
  <2> QED BY <2>4, <2>9, <2>10
<1> QED BY <1>1, Invariance, PTL DEF Spec, FencedTextDropped
=============================================================================
