------------------------------- MODULE MCParts --------------------------------
(***************************************************************************)
(* A small instance of each part; one run explores them side by side.      *)
(***************************************************************************)
EXTENDS Parts

(* The parser: every special character, and a letter. *)
MCChars  == {"a", " ", "|", "&", ">", "<", "'", "\"", "\\", "$", "{", "}", "#", "\n"}
MCTokens == {Sh!Word(<<"a">>), Sh!Redir(">", <<"f">>), Sh!Redir("<", <<"f">>),
             Sh!Sep("|"), Sh!Sep(";"), Sh!Sep("&")}

(* The shell: two letters, one variable, a dictionary of one text. *)
MCEnv        == <<"a">> :> <<"b", " ">>
MCLetters    == {"a", "b"}
MCTyped      == {"a", " "}
MCDictionary == {<<"a">>}
MCRemote     == {<<"/">>}
MCFiles      == {<<<<"a">>, <<>>, <<"a">>>>}

(* The engine: two clients, two providers, a configuration that asks the   *)
(* trie first and falls back, without a model file, and one with a model   *)
(* file that does neither.  The shell asks for all three things, the       *)
(* daemon completes.                                                       *)
MCClients    == {"shell", "daemon"}
MCProviders  == <<"Anthropic", "Ollama">>
MCConfigs    ==
    { [prefer_online |-> TRUE, offline_fallback |-> TRUE, trie_first |-> TRUE,
       model |-> FALSE],
      [prefer_online |-> TRUE, offline_fallback |-> FALSE, trie_first |-> FALSE,
       model |-> TRUE] }
Vec        == [op |-> "complete", token |-> "Vec", ends |-> "Vec", n |-> 3]
MCRequests   ==
    [c \in MCClients |->
        IF c = "daemon" THEN {Vec}
        ELSE {Vec, [op |-> "correct", token |-> "", ends |-> "", n |-> 0],
              [op |-> "next", token |-> "", ends |-> "for", n |-> 1]}]
MCLearnable  == {[text |-> "Vec_x", len |-> 5, ord |-> 3, under |-> {"Vec"}, plain |-> TRUE],
               [text |-> "Ve", len |-> 2, ord |-> 0, under |-> {}, plain |-> TRUE]}

(* The compositor: its own screen, one window a user handles. *)
MCScreen     == [x |-> 0, y |-> 0, w |-> 1920, h |-> 1080]
MCShapes     == {[x |-> 100, y |-> 100, w |-> 800, h |-> 600]}
MCSpots      == {[x |-> 0, y |-> 300]}
MCZones      == {"Left"}
MCHandled    == {1}

(* The keyboard and the fault handler.                                     *)
MCScancode   == {1, 2}
MCDaemons    == {"netd", "aidaemon"}
MCReports    == {[code |-> "LockTimeout", severity |-> "Error"],
               [code |-> "NetworkDown", severity |-> "Critical"],
               [code |-> "OutOfMemory", severity |-> "Fatal"]}

(* The security registries: two processes, one capability, a path and one  *)
(* below it.                                                               *)
MCPids       == {1, 2}
MCCaps       == {"NetBindService"}
MCChosen     == {[permitted |-> MCCaps, effective |-> MCCaps, inheritable |-> MCCaps,
                ambient |-> MCCaps]}
MCProfiles   == {"Strict"}
MCProcLabels == {"untrusted_t"}
MCLabelled   == {<<<<"/">>, "user_file_t">>, <<<<"/", "h">>, "sys_file_t">>}
=============================================================================
