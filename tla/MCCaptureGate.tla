---------------------------- MODULE MCCaptureGate ----------------------------
EXTENDS CaptureGate

CONSTANTS c1, c2

MCClients == <<c1, c2>>

Plan(mode, changes, commands, desktop, sources, phrases, replays, drops, segments, stops) ==
    [mode |-> mode, changes |-> changes, commands |-> commands, desktop |-> desktop,
     sources |-> sources, phrases |-> phrases, replays |-> replays, drops |-> drops,
     segments |-> segments, stops |-> stops]

Set(mode, enabled) == [mode |-> mode, enabled |-> enabled, mute |-> TRUE]

\* Presses and a disconnect; presses around a phrase; two phrases of two sources; the
\* mode changes and the microphone is switched off; the chat window's radio against the
\* game's; phrases of a client that disconnects; the worker is replaced; two disconnects.
MCPlans == {Plan("ptt", {}, 2, 0, {}, 0, 0, 1, 2, TRUE),
            Plan("ptt", {}, 2, 0, {Local}, 1, 0, 0, 1, TRUE),
            Plan("vad", {}, 0, 0, {Local, c1}, 2, 0, 0, 1, FALSE),
            Plan("vad", {Set("ptt", TRUE), Set("vad", FALSE)}, 0, 0, {Local}, 1, 0, 0, 1, FALSE),
            Plan("radio", {}, 1, 2, {}, 0, 0, 0, 1, FALSE),
            Plan("vad", {}, 0, 0, {c1}, 2, 0, 1, 1, FALSE),
            Plan("vad", {Set("vad", FALSE)}, 0, 0, {Local}, 1, 1, 0, 1, FALSE),
            Plan("ptt", {}, 0, 0, {c1}, 1, 0, 2, 0, FALSE)}

==============================================================================
