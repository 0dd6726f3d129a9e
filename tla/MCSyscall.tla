----------------------------- MODULE MCSyscall ------------------------------
(***************************************************************************)
(* Commands of kshell: hello with and without its capability, drawtest, a  *)
(* program that uses a number nobody serves, and conctest's threads.       *)
(***************************************************************************)
EXTENDS Syscall

Does(call, ok) == [call |-> call, ok |-> ok]
CallsOf(s)     == [i \in DOMAIN s |-> Does(s[i], TRUE)]
Program(calls, caps) == [calls |-> CallsOf(calls), caps |-> caps, user |-> TRUE]
Thread(ok) == [calls |-> <<Does("ipc", ok), Does("exit", TRUE)>>, caps |-> {}, user |-> FALSE]

Tasks   == 4
AllCommands ==
    { <<Program(<<"write", "exit">>, {"write"})>>,
      <<Program(<<"write", "exit">>, {})>>,
      <<Program(<<"other", "draw", "exit">>, {"draw"})>>,
      <<Thread(TRUE), Thread(FALSE)>> }

(* Calls of kshell as root, then as another user (main.rs:678-686).        *)
FiveCalls ==
    << Does("vfs write", TRUE), Does("ipc", TRUE), Does("vfs write", FALSE),
       Does("ipc", FALSE), Does("vfs read", TRUE) >>
Wanted ==
    { [by |-> Shell, call |-> "vfs write", ok |-> FALSE],
      [by |-> Shell, call |-> "ipc", ok |-> FALSE],
      [by |-> Shell, call |-> "vfs read", ok |-> TRUE] }
=============================================================================
