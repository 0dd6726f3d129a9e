-------------------------------- MODULE Parts --------------------------------
(***************************************************************************)
(* The parts that share no state with the rest and call it only through    *)
(* answers that each module leaves open: the hosted programs (the shell's  *)
(* parser and editor, the completion engine, the compositor), the keyboard *)
(* driver, the fault handler and the security registries.  They stand side *)
(* by side: a behaviour chooses one of them at the start and only that one *)
(* moves.                                                                  *)
(***************************************************************************)
EXTENDS Integers, FiniteSets, SequencesExt

CONSTANTS
    Chars, MaxChars, Tokens, MaxTokens,     \* what the parser is given, and how much
    Env, Letters, Typed, Dictionary, Remote, Files, HistMax, MaxLine, MaxEntry,
    Clients, Providers, Limit, Configs, Requests, Learnable,
    Screen, Shapes, Spots, Zones, Desks, MaxWid, Handled,
    Scancode, Size,
    Daemons, Timeout, MaxRestarts, EventCap, Reports, MaxEntries,
    Pids, Caps, Chosen, Profiles, ProcLabels, Labelled

VARIABLES
    part,        \* the part this behaviour is about
    input,       \* what the parser is given: characters or tokens
    buf, cursor, ghost, histIdx, saved, entries, shell, ran,
    config, loaded, trie, onlineOk, breaker, offq, call,
    windows, nextWid, activeDesk, focused, tiling, strays,
    KEYBUF, HEAD, TAIL, reader, given, taken,
    uptime, daemons, events, thread, dead, stopped,
    caps, spaces, profiles, labels, resources, life, gone, told

Sh == INSTANCE Nsh
Ai == INSTANCE AiEngine
Co == INSTANCE Compositor
Kb == INSTANCE Keyboard
Ft == INSTANCE Fault WITH entries <- daemons
Se == INSTANCE Security

(* The ring has room for a byte, and there are bytes.                      *)
ASSUME KeyboardAssumption == Size \in Nat /\ Size >= 2 /\ Scancode # {}

(* The texts the trie may hold, each with its place in their order.        *)
Named == {[text |-> x, ord |-> Ai!Builtins[x].ord] : x \in DOMAIN Ai!Builtins}
             \cup {[text |-> l.text, ord |-> l.ord] : l \in Learnable}

(* Finitely many tasks call the engine, the chain is a list of providers,  *)
(* a call is one of the three, and `ord` tells two texts apart as their    *)
(* comparison does.                                                        *)
ASSUME EngineAssumption ==
    /\ IsFiniteSet(Clients) /\ Limit \in Nat \ {0} /\ Providers \in Seq(Range(Providers))
    /\ \A c \in Clients : \A r \in Requests[c] :
          r.op \in {"complete", "next", "correct"} /\ r.n \in Nat
    /\ \A e \in Named : e.ord \in Int
    /\ \A e, f \in Named : e.text = f.text <=> e.ord = f.ord

(* The compositor's screen, shapes and spots are rectangles and points,    *)
(* its zones those of the Zone enumeration.                                *)
ASSUME CompositorAssumption ==
    /\ Screen \in Co!Areas /\ Shapes \subseteq Co!Areas
    /\ Spots \subseteq [x : Int, y : Int]
    /\ Zones \subseteq {"Left", "Right", "Top", "Bottom", "TopLeft", "TopRight", "BottomLeft",
                        "BottomRight", "Center", "ThirdLeft", "ThirdMid", "ThirdRight"}
    /\ Handled \subseteq Nat /\ Desks \in Nat

(* A line is a sequence of characters; the directory the dictionary is     *)
(* read from has finitely many entries.                                    *)
ASSUME ShellAssumption ==
    /\ Typed \subseteq STRING
    /\ IsFiniteSet(Dictionary) /\ Dictionary \subseteq Seq(STRING)
    /\ Remote \subseteq Seq(STRING)
    /\ Files \subseteq Seq(Seq(STRING))
    /\ HistMax \in Nat

(* No process has pid 0, and a set of capabilities a process is given has  *)
(* its effective ones among its permitted ones.                            *)
ASSUME SecurityAssumption ==
    /\ 0 \notin Pids
    /\ Chosen \subseteq [permitted : SUBSET Caps, effective : SUBSET Caps,
                         inheritable : SUBSET Caps, ambient : SUBSET Caps]
    /\ \A pc \in Chosen : pc.effective \subseteq pc.permitted

nshVars  == <<buf, cursor, ghost, histIdx, saved, entries, shell, ran>>
aiVars   == <<config, loaded, trie, onlineOk, breaker, offq, call>>
compVars == <<windows, nextWid, activeDesk, focused, tiling, strays>>
keyVars  == <<KEYBUF, HEAD, TAIL, reader, given, taken>>
faultVars == <<uptime, daemons, events, thread, dead, stopped>>
secVars  == <<caps, spaces, profiles, labels, resources, life, gone, told>>
vars     == <<part, input, nshVars, aiVars, compVars, keyVars, faultVars, secVars>>

Init ==
    /\ part \in {"line", "script", "nsh", "ai", "compositor", "keyboard", "fault",
              "security"}
    /\ input = <<>>
    /\ Sh!Init /\ Ai!Init /\ Co!Init /\ Kb!Init /\ Ft!Init /\ Se!Init
    /\ part # "ai" => config.model = FALSE

(* The parser's input grows by a character, or by a token. *)
Give ==
    /\ \/ /\ part = "line" /\ Len(input) < MaxChars
          /\ \E ch \in Chars : input' = Append(input, ch)
       \/ /\ part = "script" /\ Len(input) < MaxTokens
          /\ \E t \in Tokens : input' = Append(input, t)
    /\ UNCHANGED <<part, nshVars, aiVars, compVars, keyVars, faultVars, secVars>>

OnlyNsh        == UNCHANGED <<part, input, aiVars, compVars, keyVars, faultVars, secVars>>
OnlyAi         == UNCHANGED <<part, input, nshVars, compVars, keyVars, faultVars, secVars>>
OnlyCompositor == UNCHANGED <<part, input, nshVars, aiVars, keyVars, faultVars, secVars>>
OnlyKeyboard   == UNCHANGED <<part, input, nshVars, aiVars, compVars, faultVars, secVars>>
OnlyFault      == UNCHANGED <<part, input, nshVars, aiVars, compVars, keyVars, secVars>>
OnlySecurity   == UNCHANGED <<part, input, nshVars, aiVars, compVars, keyVars, faultVars>>

NshStep        == part = "nsh" /\ Sh!Next /\ OnlyNsh
AiStep         == part = "ai" /\ Ai!Next /\ OnlyAi
CompositorStep == part = "compositor" /\ Co!Next /\ OnlyCompositor
KeyboardStep   == part = "keyboard" /\ Kb!Next /\ OnlyKeyboard
FaultStep      == part = "fault" /\ Ft!Next /\ OnlyFault
SecurityStep   == part = "security" /\ Se!Next /\ OnlySecurity

Next == Give \/ NshStep \/ AiStep \/ CompositorStep \/ KeyboardStep \/ FaultStep
        \/ SecurityStep

(* A call to the engine goes on by itself: the runtime polls every ready   *)
(* task, the HTTP client's timeout of 30 seconds ends every request, and   *)
(* the lock is handed on in order.  The watchdog's timer ticks.  Nobody    *)
(* has to press a key.                                                     *)
Spec ==
    /\ Init /\ [][Next]_vars
    /\ \A c \in Clients : WF_vars(part = "ai" /\ Ai!Proceed(c) /\ OnlyAi)
    /\ WF_vars(part = "fault" /\ (Ft!Tick \/ Ft!TickSpins) /\ OnlyFault)

-----------------------------------------------------------------------------
(* parse gives every well-formed line its meaning, whether it comes as     *)
(* tokens or as characters, and the three ways to quote a text agree       *)
(* (parser.rs).                                                            *)
ParserAgrees ==
    /\ part = "script" => Sh!ScriptAgrees(input)
    /\ part = "line"   => /\ Sh!QuotingAgrees(input)
                          /\ Sh!ScriptAgrees(Sh!Tokenise(input))

(* Cursor and history index stay in range and only a remote provider's     *)
(* text can panic the shell (main.rs of the shell).                        *)
EditorSound == Sh!EditorSound

(* Leaving the history brings back the line that was being written         *)
(* (hist_prev, hist_next).                                                 *)
DraftComesBack == [][Sh!DraftComesBack]_nshVars

(* A breaker opens in time and late failures beyond that are bounded       *)
(* (online.rs, CircuitBreaker); completion works without model and         *)
(* network, keeps the trie's hits and answers in order (lib.rs,            *)
(* AiEngine::complete).                                                    *)
EngineSound == Ai!BreakersBounded /\ Ai!AnswersWhole

(* Every call to the engine is answered. *)
EveryCallAnswered == \A c \in Clients : call[c].pc # "idle" ~> call[c].pc = "done"

(* Tiled windows at rest are inside the screen and apart (retile), and the *)
(* window drawn focused is the one that is (focus, close_window).          *)
DesktopSound == Co!TilesApart /\ Co!FocusAgrees

(* The scancode ring is a bounded queue under the interrupt (keyboard.rs). *)
KeysInOrder == Kb!KeysInOrder

(* A dead daemon is isolated in the end (fault/mod.rs).                    *)
DeadIsIsolated == Ft!DeadIsIsolated

(* A dropped capability is gone for good, a new process meets nothing of   *)
(* the one that had its pid, and its latest profile and label decide       *)
(* (kernel/src/security).                                                  *)
Confined == Se!Confined
=============================================================================
