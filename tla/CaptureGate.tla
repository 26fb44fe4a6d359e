----------------------------- MODULE CaptureGate -----------------------------
(***************************************************************************)
(* When the player's voice is captured and whose text it becomes.          *)
(* SpeechController keeps a gate (handlers/asr_input_gate.py) in the       *)
(* program's process and a copy of it in the recognizer's worker process:  *)
(* every change is published as a snapshot, snapshots are handled as       *)
(* concurrent tasks of the worker and may arrive in any order, and both    *)
(* copies let a capture lapse by their own clock.  The gate is changed by  *)
(* four threads: the bus lanes of the game's phrases (speaking_window.py), *)
(* of its capture commands and of its disconnects, and the GUI.  Audio     *)
(* segments carry the state they were captured under back to the program,  *)
(* which checks it again before it takes the text.                         *)
(*                                                                         *)
(* Time is relative: every deadline is the number of ticks left, so a      *)
(* deadline that has passed is 0 whatever it was.  No tick passes between  *)
(* two steps of one handler: the 0.4 s tail is assumed longer than that.   *)
(***************************************************************************)
EXTENDS Integers, Sequences, FiniteSets, SequencesExt

CONSTANTS Clients,        \* sequence of game sessions, connected one after another
          Desktop,        \* the capture session of the chat window
          Local,          \* the source of phrases the program itself plays
          None,           \* no session
          PressLease, PhraseLease, Fade,      \* in ticks
          Memory, Retained,       \* disconnected clients the window and the gate remember
          JobLimit,       \* segments waiting for the recognizer
          Plans           \* what the environment does in a run, and how often

Sessions == Range(Clients) \union {Desktop}
Sources  == Range(Clients) \union {Local}
Modes    == {"radio", "ptt", "vad"}
Manual   == {"radio", "ptt"}
Lanes    == {"speech", "ptt", "gone", "gui", "text"}
Settings == [mode : Modes, enabled : BOOLEAN, mute : BOOLEAN]

ASSUME CaptureGateAssumption ==
    /\ {PressLease, PhraseLease, Fade, Memory, Retained, JobLimit} \subseteq Nat \ {0}
    /\ Clients \in Seq(Range(Clients)) \ {<<>>}
    /\ Desktop \notin Range(Clients) /\ Local \notin Range(Clients) /\ None \notin Sessions
    /\ Plans \subseteq [mode : Modes, changes : SUBSET Settings, sources : SUBSET Sources,
                        commands : Nat, desktop : Nat, phrases : Nat, replays : Nat,
                        drops : Nat, segments : Nat, stops : BOOLEAN]

VARIABLES gate, seen, retired,          \* the program's ASRInputGate
          leases, tail, closed,         \* SpeakingWindow
          setting,                      \* MIC_ACTIVE and ASR_INPUT_MODE
          owner,                        \* the session that owns the player's turn
          speechQ, commandQ, goneQ, textQ,   \* lanes of the event bus
          handler,                      \* what each lane is in the middle of
          wire,                         \* snapshots on their way to the worker
          remote, buffer, jobs,         \* the worker's gate, segmenter and transcriber
          cancelled, missed, left     \* history, and what the plan still allows

parent == <<gate, seen, retired>>
window == <<leases, tail, closed>>
queues == <<speechQ, commandQ, goneQ, textQ>>
worker == <<remote, buffer, jobs>>
vars == <<gate, seen, retired, leases, tail, closed, setting, owner, speechQ, commandQ, goneQ,
          textQ, handler, wire, remote, buffer, jobs, cancelled, missed, left>>

Idle == [at |-> "idle"]

------------------------------------------------------------------------------
(* The gate itself.                                                        *)

Permitted(g) == g.enabled /\ g.blocked = 0

Reset(g) == [g EXCEPT !.needs = @ \/ g.active, !.active = FALSE, !.epoch = @ + 1, !.rev = @ + 1]

Expire(g) == IF g.active /\ g.lease = 0 THEN [Reset(g) EXCEPT !.needs = TRUE] ELSE g

ConfigureQuiet(g, new) ==     \* mutant: closing the gate for a phrase keeps the epoch
    LET set == [g EXCEPT !.mode = new.mode, !.enabled = new.enabled, !.blocked = new.blocked]
    IN  CASE set = g -> g
          [] set.mode # g.mode \/ (g.enabled /\ ~set.enabled) ->
                [set EXCEPT !.needs = @ \/ g.active, !.active = FALSE, !.epoch = @ + 1, !.rev = @ + 1]
          [] OTHER -> [set EXCEPT !.rev = @ + 1]
Configure(g, new) ==
    LET set     == [g EXCEPT !.mode = new.mode, !.enabled = new.enabled, !.blocked = new.blocked]
        cancels == \/ set.mode # g.mode
                   \/ g.enabled /\ ~set.enabled
                   \/ set.blocked # g.blocked /\ set.blocked > 0
    IN  CASE set = g -> g
          [] set # g /\ cancels ->
                [set EXCEPT !.needs = @ \/ g.active, !.active = FALSE, !.epoch = @ + 1, !.rev = @ + 1]
          [] OTHER -> [set EXCEPT !.rev = @ + 1]

\* A list that keeps its last n elements.
AppendLast(list, s, n) ==
    LET l == Append(list, s) IN SubSeq(l, 1 + IF Len(l) > n THEN 1 ELSE 0, Len(l))

\* A command [mode, session, gen, active, cancelled, renew] the gate does not take.
Untaken(g, c) ==
    \/ c.mode # g.mode
    \/ c.session # g.session
       /\ (c.gen <= seen[c.session] \/ (c.mode = "radio" /\ g.active) \/ c.renew \/ ~c.active)
    \/ c.session = g.session
       /\ ((c.renew /\ ~g.active) \/ (c.gen <= g.gen /\ ~(c.gen = g.gen /\ g.active /\ ~c.active)))
RefusesLive(g, c) == Untaken(g, c)     \* mutant: a retired session is not looked for
Refuses(g, c) == Untaken(g, c) \/ c.session \in Range(retired)

Owned(g, s) ==
    IF s = g.session THEN g
    ELSE [g EXCEPT !.session = s, !.gen = -1, !.active = FALSE, !.needs = FALSE,
                   !.epoch = @ + (IF g.session = None THEN 0 ELSE 1)]

FencesNone(c) == 0      \* mutant: a cancelled capture leaves the epoch as it is
Fences(c) == IF c.cancelled THEN 1 ELSE 0
Commanded(g, c) ==
    LET o     == Owned(g, c.session)
        fresh == c.session = Desktop /\ ~c.renew /\ Permitted(o)
        needs == /\ c.active /\ ~c.cancelled
                 /\ ~Permitted(o) \/ (o.needs /\ ~fresh)
        on    == c.active /\ ~c.cancelled /\ Permitted(o) /\ ~needs
    IN  [o EXCEPT !.gen = c.gen, !.active = on, !.needs = needs,
                  !.lease = IF on THEN PressLease ELSE @,
                  !.press = IF on /\ ~o.active THEN c.gen ELSE @,
                  !.epoch = @ + Fences(c), !.rev = @ + 1]

Disconnected(g, s) ==
    IF s # g.session THEN g
    ELSE [Reset(g) EXCEPT !.session = None, !.gen = -1, !.press = -1, !.needs = FALSE]

\* Audio or text captured under ctx still belongs to the current capture of gate g.
Valid(g, ctx) == /\ ctx.epoch = g.epoch /\ ctx.mode = g.mode /\ Permitted(g)
                 /\ ctx.mode \in Manual => ctx.session = g.session

------------------------------------------------------------------------------
(* The window of sounding phrases.                                         *)

Largest(s) == CHOOSE x \in s \union {0} : \A y \in s : y <= x

Blocked(ls, t) == Largest({ls[k] : k \in DOMAIN ls} \union {t})

Without(ls, ks) == [k \in DOMAIN ls \ ks |-> ls[k]]

Remembered(s) == IF s \in Range(closed) THEN closed ELSE AppendLast(closed, s, Memory)

------------------------------------------------------------------------------
(* Handlers: read the settings and the window, then configure and publish. *)

Nobody == [session |-> None]

\* The read half of _sync_input_gate, for the handler of command c if there is one.
Syncing(lane, ls, t, c) ==
    handler' = [handler EXCEPT ![lane] =
        [at |-> "sync", command |-> c,
         new |-> [mode |-> setting'.mode, enabled |-> setting'.enabled,
                  blocked |-> IF setting'.mute THEN Blocked(ls, t) ELSE 0]]]

\* A snapshot is sent, or is not: recognition is stopped, the engine gone, the call fails.
Running == IF left.stops THEN BOOLEAN ELSE {TRUE}
Publish == \E sent \in Running :
               /\ wire' = IF sent THEN wire \union {gate'} ELSE wire
               /\ missed' = ~sent

PhraseIgnored(e) == e.active /\ e.source \in Range(closed)

\* A phrase started or ended, on the lane of mita_speaking_window.
TellAlways(e) ==     \* mutant: a client that is gone may start a phrase
    LET k == <<e.source, e.id>> IN
    IF e.active THEN leases' = [x \in DOMAIN leases \union {k} |->
                                    IF x = k THEN PhraseLease ELSE leases[x]] /\ tail' = tail
    ELSE leases' = Without(leases, {k}) /\ tail' = IF k \in DOMAIN leases THEN Fade ELSE tail
Tell(e) ==
    LET k == <<e.source, e.id>> IN
    CASE PhraseIgnored(e) -> UNCHANGED <<leases, tail>>
      [] e.active /\ ~PhraseIgnored(e) ->
            /\ leases' = [x \in DOMAIN leases \union {k} |->
                              IF x = k THEN PhraseLease ELSE leases[x]]
            /\ UNCHANGED tail
      [] OTHER ->
            /\ leases' = Without(leases, {k})
            /\ tail' = IF k \in DOMAIN leases THEN Fade ELSE tail

PhraseTold ==
    /\ handler["speech"] = Idle /\ speechQ # <<>>
    /\ Tell(Head(speechQ))
    /\ speechQ' = Tail(speechQ)
    /\ gate' = Expire(gate)
    /\ UNCHANGED <<seen, retired, closed, setting, owner, commandQ, goneQ, textQ, wire, worker,
                   cancelled, missed, left>>
    /\ Syncing("speech", leases', tail', Nobody)

CommandTold ==
    /\ handler["ptt"] = Idle /\ commandQ # <<>>
    /\ commandQ' = Tail(commandQ)
    /\ gate' = Expire(gate)
    /\ UNCHANGED <<seen, retired, window, setting, owner, speechQ, goneQ, textQ, wire, worker,
                   cancelled, missed, left>>
    /\ Syncing("ptt", leases, tail, Head(commandQ))

\* The client's phrases end with its connection, then its capture session does.
ClientGone ==
    /\ handler["gone"] = Idle /\ goneQ # <<>>
    /\ LET c    == Head(goneQ)
           its  == {k \in DOMAIN leases : k[1] = c}
       IN  /\ leases' = Without(leases, its)
           /\ tail' = IF its # {} THEN Fade ELSE tail
           /\ closed' = Remembered(c)
           /\ handler' = [handler EXCEPT !["gone"] = [at |-> "fence", session |-> c]]
    /\ goneQ' = Tail(goneQ)
    /\ UNCHANGED <<parent, setting, owner, speechQ, commandQ, textQ, wire, worker, cancelled,
                   missed, left>>

Fence(s) == /\ gate' = Disconnected(gate, s)
            /\ seen' = [seen EXCEPT ![s] = -1]
            /\ retired' = AppendLast(retired, s, Retained)

SessionFenced ==
    /\ handler["gone"].at = "fence"
    /\ Fence(handler["gone"].session)
    /\ UNCHANGED <<window, setting, owner, queues, wire, worker, cancelled, missed, left>>
    /\ Syncing("gone", leases, tail, Nobody)

\* A setting changes on the GUI's thread; switching the microphone off resets the gate.
ChangeSetting ==
    /\ handler["gui"] = Idle
    /\ \E new \in left.changes :
           /\ setting' = new
           /\ gate' = IF setting.enabled /\ ~new.enabled THEN Reset(Expire(gate)) ELSE Expire(gate)
           /\ left' = [left EXCEPT !.changes = @ \ {new}]
    /\ UNCHANGED <<seen, retired, window, owner, queues, wire, worker, cancelled, missed>>
    /\ Syncing("gui", leases, tail, Nobody)

\* A press or its heartbeat, a release, a cancelled release, a renewal of the lease.
Presses(mode, s) ==
    {[mode |-> mode, session |-> s, gen |-> left.gen + k[1], active |-> k[2], cancelled |-> k[3],
      renew |-> k[4]] : k \in {<<1, TRUE, FALSE, FALSE>>, <<0, FALSE, FALSE, FALSE>>,
                               <<1, FALSE, TRUE, FALSE>>, <<1, TRUE, FALSE, TRUE>>}}

DesktopCommand ==
    /\ handler["gui"] = Idle /\ left.desktop > 0 /\ gate.mode = "radio"
    /\ \E c \in Presses("radio", Desktop) :
           /\ left' = [left EXCEPT !.desktop = @ - 1, !.gen = c.gen]
           /\ gate' = Expire(gate)
           /\ UNCHANGED setting
           /\ Syncing("gui", leases, tail, c)
    /\ UNCHANGED <<seen, retired, window, owner, queues, wire, worker, cancelled, missed>>

\* The write half of _sync_input_gate.  A game's command goes on only if its session
\* still owns the player's turn, a press only if recognition runs.
SyncedWith(lane, c, ready) ==
    IF c = Nobody \/ (lane = "ptt" /\ c.session # owner) \/ (c.active /\ ~ready) THEN Idle
    ELSE [at |-> "command", command |-> c]

Synced(lane) ==
    /\ handler[lane].at = "sync"
    /\ gate' = Configure(Expire(gate), handler[lane].new)
    /\ Publish
    /\ \E ready \in Running :
           handler' = [handler EXCEPT ![lane] = SyncedWith(lane, handler[lane].command, ready)]
    /\ UNCHANGED <<seen, retired, window, setting, owner, queues, worker, cancelled, left>>

\* The game's command is for the mode the gate is in now; the chat window's is for radio.
CommandFor(c) == IF c.session = Desktop THEN c
                 ELSE [c EXCEPT !.mode = IF gate.mode = "radio" THEN "radio" ELSE "ptt"]

Command(lane) ==
    /\ handler[lane].at = "command"
    /\ LET now == Expire(gate)
           c   == CommandFor(handler[lane].command)
       IN  IF Refuses(now, c)
           THEN gate' = now /\ UNCHANGED <<seen, wire, cancelled, missed>>
           ELSE /\ gate' = Commanded(now, c)
                /\ seen' = [s \in Sessions |-> IF s = c.session THEN c.gen
                                               ELSE IF s = now.session THEN now.gen ELSE seen[s]]
                /\ cancelled' = IF c.cancelled THEN cancelled \union {<<c.session, now.press>>}
                                ELSE cancelled
                /\ Publish
    /\ handler' = [handler EXCEPT ![lane] = Idle]
    /\ UNCHANGED <<retired, window, setting, owner, queues, worker, left>>

------------------------------------------------------------------------------
(* The recognizer's process.                                               *)

FirstGate(mode) ==
    [mode |-> mode, enabled |-> TRUE, active |-> FALSE, session |-> None, gen |-> -1, press |-> -1,
     epoch |-> 1, rev |-> 1, blocked |-> 0, lease |-> 0, needs |-> FALSE]

ApplyAny(s) ==     \* mutant: the revision of a snapshot is not looked at
    remote' = [gate |-> [s EXCEPT !.rev = remote.gate.rev], applied |-> s.rev]
Apply(s) == IF s.rev <= remote.applied THEN UNCHANGED remote
            ELSE remote' = [gate |-> [s EXCEPT !.rev = remote.gate.rev], applied |-> s.rev]

Arrive ==
    /\ \E s \in wire : wire' = wire \ {s} /\ Apply(s)
    /\ UNCHANGED <<parent, window, setting, owner, queues, handler, buffer, jobs, cancelled,
                   missed, left>>

Empty == [on |-> FALSE, ctx |-> [epoch |-> -1, mode |-> "radio", session |-> None, press |-> -1],
          heard |-> {}, done |-> Nobody]

Context(g) == [epoch |-> g.epoch, mode |-> g.mode, session |-> g.session, press |-> g.press]

Kept(g) == buffer.on /\ buffer.ctx.epoch = g.epoch /\ buffer.ctx.mode = g.mode

Listening(g) ==
    /\ Permitted(g)
    /\ \/ g.mode = "vad"
       \/ g.active /\ ~(g.mode = "ptt" /\ buffer.done = Context(g))

Sounding == IF setting.mute THEN DOMAIN leases ELSE {}

Queued(b) == IF Len(jobs) >= JobLimit THEN jobs
             ELSE Append(jobs, [ctx |-> b.ctx, heard |-> b.heard \union Sounding])

\* A chunk with a voice: it joins the segment, or ends that of an earlier press.
Hear ==
    /\ LET g    == Expire(remote.gate)
           same == Kept(g) /\ (g.mode = "vad" \/ buffer.ctx = Context(g))
       IN  /\ Listening(g)
           /\ same \/ left.segments > 0
           /\ left' = IF same THEN left ELSE [left EXCEPT !.segments = @ - 1]
           /\ remote' = [remote EXCEPT !.gate = g]
           /\ jobs' = IF Kept(g) /\ ~same THEN Queued(buffer) ELSE jobs
           /\ buffer' = [on |-> TRUE, ctx |-> IF same THEN buffer.ctx ELSE Context(g),
                         heard |-> (IF same THEN buffer.heard ELSE {}) \union Sounding,
                         done |-> IF same THEN buffer.done ELSE Nobody]
    /\ UNCHANGED <<parent, window, setting, owner, queues, handler, wire, cancelled, missed>>

\* The segment ends: silence, the tail after a release, or its greatest length.
Segment ==
    /\ LET g == Expire(remote.gate)
       IN  /\ Kept(g) /\ Permitted(g)
           /\ remote' = [remote EXCEPT !.gate = g]
           /\ jobs' = Queued(buffer)
           /\ buffer' = [Empty EXCEPT !.ctx = buffer.ctx,
                                      !.done = IF g.mode = "ptt" THEN buffer.ctx ELSE Nobody]
    /\ UNCHANGED <<parent, window, setting, owner, queues, handler, wire, cancelled, missed, left>>

\* A chunk finds another epoch, another mode or a closed gate.
Discard ==
    /\ LET g == Expire(remote.gate)
       IN  /\ buffer.on /\ ~(Kept(g) /\ Permitted(g))
           /\ remote' = [remote EXCEPT !.gate = g]
           /\ buffer' = Empty
    /\ UNCHANGED <<parent, window, setting, owner, queues, handler, wire, jobs, cancelled, missed,
                   left>>

Recognized ==
    /\ jobs # <<>>
    /\ LET g == Expire(remote.gate)
       IN  /\ remote' = [remote EXCEPT !.gate = g]
           /\ textQ' = IF Valid(g, Head(jobs).ctx) THEN Append(textQ, Head(jobs)) ELSE textQ
    /\ jobs' = Tail(jobs)
    /\ UNCHANGED <<parent, window, setting, owner, speechQ, commandQ, goneQ, handler, wire, buffer,
                   cancelled, missed, left>>

\* The worker is started anew and repeats the start_live of the day it was first
\* started, with the gate of that day; calls on their way to the old one may fail.
Replay ==
    /\ left.replays > 0
    /\ left' = [left EXCEPT !.replays = @ - 1]
    /\ remote' = [gate |-> [FirstGate(left.mode) EXCEPT !.epoch = 0, !.rev = 0], applied |-> 0]
    /\ buffer' = Empty /\ jobs' = <<>>
    /\ wire' \in SUBSET wire
    /\ missed' = TRUE
    /\ UNCHANGED <<parent, window, setting, owner, queues, handler, cancelled>>

------------------------------------------------------------------------------
(* Text comes back.                                                        *)

CheckText ==
    /\ handler["text"] = Idle /\ textQ # <<>>
    /\ gate' = Expire(gate)
    /\ handler' = [handler EXCEPT !["text"] =
           IF setting.enabled /\ Valid(gate', Head(textQ).ctx)
           THEN [at |-> "mute", text |-> Head(textQ)] ELSE Idle]
    /\ textQ' = Tail(textQ)
    /\ UNCHANGED <<seen, retired, window, setting, owner, speechQ, commandQ, goneQ, wire, worker,
                   cancelled, missed, left>>

Speaking == DOMAIN leases # {} \/ tail > 0

TextDone(taken) ==
    /\ handler["text"].at = "mute"
    /\ taken = ~(setting.mute /\ Speaking)
    /\ handler' = [handler EXCEPT !["text"] = Idle]
    /\ UNCHANGED <<parent, window, setting, owner, queues, wire, worker, cancelled, missed, left>>

TakeText == TextDone(TRUE)
MuteText == TextDone(FALSE)

------------------------------------------------------------------------------
(* The game, and time.                                                     *)

Connected(s) == s = Local \/ s = owner

StartPhrase ==
    /\ left.phrases > 0
    /\ \E s \in left.sources :
           /\ Connected(s)
           /\ speechQ' = Append(speechQ, [source |-> s, id |-> left.phrases, active |-> TRUE])
           /\ left' = [left EXCEPT !.phrases = @ - 1, !.talking = @ \union {<<s, left.phrases>>}]
    /\ UNCHANGED <<parent, window, setting, owner, commandQ, goneQ, textQ, handler, wire, worker,
                   cancelled, missed>>

EndPhrase ==
    /\ \E k \in left.talking :
           /\ Connected(k[1])
           /\ speechQ' = Append(speechQ, [source |-> k[1], id |-> k[2], active |-> FALSE])
           /\ left' = [left EXCEPT !.talking = @ \ {k}]
    /\ UNCHANGED <<parent, window, setting, owner, commandQ, goneQ, textQ, handler, wire, worker,
                   cancelled, missed>>

SendCommand ==
    /\ left.commands > 0 /\ owner # None
    /\ \E c \in {p \in Presses("ptt", owner) : ~p.renew} :
           /\ commandQ' = Append(commandQ, c)
           /\ left' = [left EXCEPT !.commands = @ - 1, !.gen = c.gen]
    /\ UNCHANGED <<parent, window, setting, owner, speechQ, goneQ, textQ, handler, wire, worker,
                   cancelled, missed>>

Disconnect ==
    /\ left.drops > 0 /\ owner # None
    /\ LET i == CHOOSE i \in DOMAIN Clients : Clients[i] = owner
       IN  owner' = IF i < Len(Clients) THEN Clients[i + 1] ELSE None
    /\ goneQ' = Append(goneQ, owner)
    /\ left' = [left EXCEPT !.drops = @ - 1]
    /\ UNCHANGED <<parent, window, setting, speechQ, commandQ, textQ, handler, wire, worker,
                   cancelled, missed>>

Sooner(n) == IF n > 0 THEN n - 1 ELSE 0
Later(g) == [g EXCEPT !.blocked = Sooner(@), !.lease = Sooner(@)]
LiveAll == DOMAIN leases     \* mutant: a phrase is over only when its end is told
Live == {k \in DOMAIN leases : leases[k] > 1}
Heard(e) == [e EXCEPT !.heard = @ \ (DOMAIN leases \ Live)]

\* A phrase whose lease lapses is taken for one that broke off without a report.
Tick ==
    /\ \A l \in Lanes : handler[l] = Idle
    /\ gate' = Later(gate) /\ tail' = Sooner(tail)
    /\ leases' = [k \in Live |-> Sooner(leases[k])]
    /\ remote' = [remote EXCEPT !.gate = Later(@)]
    /\ wire' = {Later(s) : s \in wire}
    /\ <<gate', tail', leases', remote', wire'>> # <<gate, tail, leases, remote, wire>>
    /\ buffer' = Heard(buffer)
    /\ jobs' = [i \in DOMAIN jobs |-> Heard(jobs[i])]
    /\ textQ' = [i \in DOMAIN textQ |-> Heard(textQ[i])]
    /\ UNCHANGED <<seen, retired, closed, setting, owner, speechQ, commandQ, goneQ, handler,
                   cancelled, missed, left>>

------------------------------------------------------------------------------
Init ==
    /\ left \in {[mode |-> p.mode, changes |-> p.changes, commands |-> p.commands,
                  desktop |-> p.desktop, phrases |-> p.phrases, replays |-> p.replays,
                  drops |-> p.drops, sources |-> p.sources, segments |-> p.segments,
                  stops |-> p.stops, gen |-> 0, talking |-> {}] : p \in Plans}
    /\ gate = FirstGate(left.mode) /\ remote = [gate |-> gate, applied |-> 1]
    /\ setting = [mode |-> left.mode, enabled |-> TRUE, mute |-> TRUE]
    /\ seen = [s \in Sessions |-> -1] /\ retired = <<>>
    /\ leases = <<>> /\ tail = 0 /\ closed = <<>>
    /\ owner = Clients[1]
    /\ speechQ = <<>> /\ commandQ = <<>> /\ goneQ = <<>> /\ textQ = <<>>
    /\ handler = [l \in Lanes |-> Idle]
    /\ wire = {} /\ buffer = Empty /\ jobs = <<>>
    /\ cancelled = {} /\ missed = FALSE

OwnStep ==
    \/ PhraseTold \/ CommandTold \/ ClientGone \/ SessionFenced
    \/ \E l \in {"speech", "ptt", "gone", "gui"} : Synced(l)
    \/ \E l \in {"ptt", "gui"} : Command(l)
    \/ Arrive \/ Segment \/ Discard \/ Recognized \/ CheckText \/ TakeText \/ MuteText
    \/ Tick

Next ==
    \/ OwnStep
    \/ Hear
    \/ ChangeSetting \/ DesktopCommand
    \/ StartPhrase \/ EndPhrase \/ SendCommand \/ Disconnect
    \/ Replay

Spec == Init /\ [][Next]_vars

\* Handlers, tasks and clocks go on; nobody has to speak, press or connect.
FairSpec == Spec /\ WF_vars(OwnStep)

------------------------------------------------------------------------------
(* Properties.                                                             *)

TypeOK ==
    /\ {gate.rev, gate.epoch, tail} \subseteq Nat /\ gate.mode \in Modes
    /\ {gate.session, remote.gate.session} \subseteq Sessions \union {None}
    /\ Range(closed) \subseteq Range(Clients) /\ Len(closed) <= Memory
    /\ DOMAIN leases \subseteq Sources \X Nat
    /\ Len(jobs) <= JobLimit
    /\ remote.applied <= gate.rev

\* A phrase of a client that is remembered as gone never keeps the microphone
\* shut: a start that arrives after the disconnect is dropped, and the disconnect
\* ended those before it (speaking_window.py open, close_source).
NoGhostPhrase == \A k \in DOMAIN leases : k[1] \notin Range(closed)

\* A session that disconnected, of as many as are remembered, does not get the capture
\* back, whatever commands of it are still under way (asr_input_gate.py disconnect, _set_manual_capture).
GoneStaysGone == gate.session \notin Range(retired)

\* When no snapshot is under way the worker's gate is the program's, in whatever order
\* the snapshots came and whichever side let a capture lapse: unless the last one was
\* not delivered, or the worker replaced since, which only the next change repairs (asr_input_gate.py apply, asr_handler.py publish_input_gate).
CopyAgrees ==
    (wire = {} /\ ~missed /\ \A l \in Lanes : handler[l] = Idle)
        => [Expire(remote.gate) EXCEPT !.rev = 0] = [Expire(gate) EXCEPT !.rev = 0]

\* Text of a cancelled press or of a session remembered as gone does not pass the
\* check, however late it arrives (speech_controller.py _on_speech_text_recognized).
FencedTextDropped ==
    [][(CheckText /\ handler'["text"].at = "mute" /\ handler'["text"].text.ctx.mode \in Manual) =>
         LET c == handler'["text"].text.ctx
         IN  c.session \notin Range(retired) /\ <<c.session, c.press>> \notin cancelled]_vars

\* No text is taken whose audio was recorded while one of Mita's phrases sounded and
\* whose end was told: neither by the gate, which may be late, nor by the window alone.
MitaNotHeard == [][TakeText => handler["text"].text.heard = {}]_vars

\* Every phrase ends for the microphone, also one whose client never says so.
MicReopens == []<>(DOMAIN leases = {} /\ tail = 0 /\ gate.blocked = 0)

\* What a client that is gone cannot do: keep the microphone shut (NoGhostPhrase) or
\* hold its capture (GoneStaysGone); and the types.
GoneIsGone == TypeOK /\ NoGhostPhrase /\ GoneStaysGone
==============================================================================
