--------------------------------- MODULE Nsh ---------------------------------
(***************************************************************************)
(* nsh, the interactive shell: src/shell/src/main.rs and history.rs.  One  *)
(* task reads keys and handles each to its end, so every key is one step;  *)
(* what the completion engine answers is its only partner, and any answer  *)
(* the engine can give is tried.                                           *)
(*                                                                         *)
(* A line is a sequence of characters.  None is <<>> for a ghost text (it  *)
(* is never empty when there is one) and 0 for hist_idx (1 is the oldest). *)
(***************************************************************************)
EXTENDS NshParser, Lists

CONSTANTS
    Typed,       \* characters that are typed
    Dictionary,  \* texts the engine's trie holds, with a score over 60
    Remote,      \* texts a remote provider may send
    Files,       \* contents ~/.nsh_history may have at start
    HistMax,     \* entries kept (50 000 in the code)
    MaxLine,     \* bound: no step makes a line longer than this
    MaxEntry     \* bound: lines that are entered are no longer than this

VARIABLES
    buf, cursor, ghost,    \* the line, where the next character goes, ghost text
    histIdx, saved,        \* hist_idx, hist_saved
    entries,               \* History.entries, oldest first
    shell,                 \* "running", "exited" or "panicked"
    ran                    \* the words of the commands the last key ran

nshVars == <<buf, cursor, ghost, histIdx, saved, entries, shell, ran>>

-----------------------------------------------------------------------------
(* Characters. *)

Blank(ch)     == ch = " "
Alnum(ch)     == ch \in Letters
TrieChar(ch)  == Alnum(ch) \/ ch \in {"_", ":", ".", "/", "!", "("}
ShellChar(ch) == Alnum(ch) \/ ch \in {"_", ":", "."}

(* Trim: what is left of a line without blanks at its ends. *)
Trim(s) ==
    LET ink == {i \in DOMAIN s : ~Blank(s[i])}
    IN  IF ink = {} THEN <<>>
        ELSE LET first == CHOOSE i \in ink : \A j \in ink : i <= j
                 last  == CHOOSE i \in ink : \A j \in ink : j <= i
             IN  SubSeq(s, first, last)

(* From position i back, or on, over the characters that are `ok`. *)
Back(ok(_), i) ==
    CHOOSE j \in 0..i : /\ \A k \in (j + 1)..i : ok(buf[k])
                        /\ j = 0 \/ ~ok(buf[j])
On(ok(_), i) ==
    CHOOSE j \in i..Len(buf) : /\ \A k \in (i + 1)..j : ok(buf[k])
                               /\ j = Len(buf) \/ ~ok(buf[j + 1])

(* The token the trie completes, and how long the shell takes it to be:    *)
(* with no separator on the line current_token_len says 0.                 *)
Token(line) ==
    LET stops == {i \in DOMAIN line : ~TrieChar(line[i])} \cup {0}
    IN  SubSeq(line, (CHOOSE i \in stops : \A j \in stops : j <= i) + 1, Len(line))

(* Mutant of TokenLen: the separator is counted with the token. *)
TokenLen_Long(line) ==
    LET stops == {i \in DOMAIN line : ~ShellChar(line[i])}
    IN  IF stops = {} THEN 0
        ELSE Len(line) - (CHOOSE i \in stops : \A j \in stops : j <= i) + 1

TokenLen(line) ==
    LET stops == {i \in DOMAIN line : ~ShellChar(line[i])}
    IN  IF stops = {} THEN 0
        ELSE Len(line) - (CHOOSE i \in stops : \A j \in stops : j <= i)

Hits(line) == IF Token(line) = <<>> THEN {}
              ELSE {t \in Dictionary : IsPrefix(Token(line), t)}

-----------------------------------------------------------------------------
(* Editing. *)

Insert(text) == SubSeq(buf, 1, cursor) \o text \o SubSeq(buf, cursor + 1, Len(buf))
Put(text) ==
    /\ Len(buf) + Len(text) <= MaxLine
    /\ buf' = Insert(text)
    /\ cursor' = cursor + Len(text)
SetLine(s) == buf' = s /\ cursor' = Len(s)

(* reset: everything of the line but hist_saved. *)
Reset == SetLine(<<>>) /\ ghost' = <<>> /\ histIdx' = 0

Moved == UNCHANGED <<buf, ghost, histIdx, saved, entries, shell>>
Edited == UNCHANGED <<ghost, histIdx, saved, entries, shell>>

(* load: the file's lines that are not empty, the last HistMax of them. *)
Load(lines) ==
    LET full == Kept(lines, {i \in DOMAIN lines : lines[i] # <<>>})
        drop == IF Len(full) > HistMax THEN Len(full) - HistMax ELSE 0
    IN  SubSeq(full, drop + 1, Len(full))

Init ==
    /\ buf = <<>> /\ cursor = 0 /\ ghost = <<>>
    /\ histIdx = 0 /\ saved = <<>>
    /\ \E f \in Files : entries = Load(f)
    /\ shell = "running" /\ ran = <<>>

(* request_ghost: the best hit of next_word, if there is one; what the     *)
(* local rules suggest scores 55 at most and is not shown.                 *)
Ghosts(line) ==
    IF Trim(line) = <<>> \/ Hits(line) = {} THEN {<<>>}
    ELSE {<<" ">> \o h : h \in Hits(line)}

(* A character that the ghost text begins with eats it, wherever the       *)
(* cursor is; any other drops it and asks for a new one.                   *)
Type(ch) ==
    /\ Put(<<ch>>)
    /\ IF ghost # <<>> /\ Head(ghost) = ch THEN ghost' = Tail(ghost)
       ELSE ghost' \in Ghosts(Insert(<<ch>>))
    /\ UNCHANGED <<histIdx, saved, entries, shell>>

(* Tab and Right at the end take ghost text: all of it, or up to a blank.  *)
TabGhost ==
    /\ ghost # <<>>
    /\ Put(ghost)
    /\ ghost' = <<>>
    /\ UNCHANGED <<histIdx, saved, entries, shell>>

(* do_tab_complete: the whole line is asked about and one answer is put at *)
(* the cursor without its first TokenLen characters.  A remote text may be *)
(* shorter than that, and cutting it panics.                               *)
Answers(line) ==
    {Hits(line)} \cup {Hits(line) \cup {r} : r \in Remote} \cup {{}}
TabComplete ==
    /\ ghost = <<>>
    /\ \E a \in Answers(buf) :
         IF Cardinality(a) = 1
         THEN \E t \in a :
                LET n == TokenLen(buf)
                IN  IF Len(t) < n
                    THEN shell' = "panicked" /\ UNCHANGED <<buf, cursor>>
                    ELSE Put(SubSeq(t, n + 1, Len(t))) /\ UNCHANGED shell
         ELSE UNCHANGED <<buf, cursor, shell>>
    /\ UNCHANGED <<ghost, histIdx, saved, entries>>

Right ==
    IF cursor < Len(buf) THEN cursor' = cursor + 1 /\ Moved
    ELSE /\ ghost # <<>>
         /\ LET blanks == {i \in DOMAIN ghost : Blank(ghost[i])}
                end == IF blanks = {} THEN Len(ghost)
                       ELSE CHOOSE i \in blanks : \A j \in blanks : i <= j
            IN  /\ Put(SubSeq(ghost, 1, end))
                /\ ghost' = SubSeq(ghost, end + 1, Len(ghost))
         /\ UNCHANGED <<histIdx, saved, entries, shell>>

Backspace ==
    /\ ghost' = <<>>
    /\ IF cursor > 0 THEN buf' = RemoveAt(buf, cursor) /\ cursor' = cursor - 1
       ELSE UNCHANGED <<buf, cursor>>
    /\ UNCHANGED <<histIdx, saved, entries, shell>>

(* The ghost text stays through the moves and cuts below. *)
Left  == cursor > 0 /\ cursor' = cursor - 1 /\ Moved
CtrlA == cursor' = 0 /\ Moved
CtrlE == cursor' = Len(buf) /\ Moved
CtrlK == buf' = SubSeq(buf, 1, cursor) /\ UNCHANGED cursor /\ Edited
CtrlU == buf' = SubSeq(buf, cursor + 1, Len(buf)) /\ cursor' = 0 /\ Edited
CtrlW ==
    LET to == Back(LAMBDA ch : ~Blank(ch), Back(Blank, cursor))
    IN  /\ buf' = SubSeq(buf, 1, to) \o SubSeq(buf, cursor + 1, Len(buf))
        /\ cursor' = to
        /\ Edited
AltF == cursor' = On(Alnum, On(LAMBDA ch : ~Alnum(ch), cursor)) /\ Moved
AltB ==
    /\ cursor > 0
    /\ cursor' = Back(Alnum, Back(LAMBDA ch : ~Alnum(ch), cursor - 1))
    /\ Moved

-----------------------------------------------------------------------------
(* History. *)

(* Mutant of Up: every look further back overwrites the draft. *)
Up_Forgets ==
    /\ entries # <<>>
    /\ saved' = buf
    /\ histIdx' = CASE histIdx = 0 -> Len(entries)
                    [] histIdx > 1 -> histIdx - 1
                    [] OTHER       -> histIdx
    /\ SetLine(entries[histIdx'])
    /\ UNCHANGED <<ghost, entries, shell>>

Up ==
    /\ entries # <<>>
    /\ saved' = IF histIdx = 0 THEN buf ELSE saved
    /\ histIdx' = CASE histIdx = 0 -> Len(entries)
                    [] histIdx > 1 -> histIdx - 1
                    [] OTHER       -> histIdx
    /\ SetLine(entries[histIdx'])
    /\ UNCHANGED <<ghost, entries, shell>>

Down ==
    /\ histIdx # 0
    /\ histIdx' = IF histIdx >= Len(entries) THEN 0 ELSE histIdx + 1
    /\ SetLine(IF histIdx' = 0 THEN saved ELSE entries[histIdx'])
    /\ UNCHANGED <<ghost, saved, entries, shell>>

(* Ctrl+R: the newest entry the line is part of; hist_idx stays. *)
Within(t, s) ==
    \E i \in 0..(Len(s) - Len(t)) : SubSeq(s, i + 1, i + Len(t)) = t
CtrlR ==
    /\ \E i \in DOMAIN entries :
         /\ Within(buf, entries[i])
         /\ \A j \in DOMAIN entries : j > i => ~Within(buf, entries[j])
         /\ SetLine(entries[i])
    /\ UNCHANGED <<ghost, histIdx, saved, entries, shell>>

(* push: trimmed, not twice in a row, the oldest goes when there are too   *)
(* many.                                                                   *)
Pushed(line) ==
    LET all == IF entries # <<>> /\ Last(entries) = Trim(line) THEN entries
               ELSE Append(entries, Trim(line))
    IN  IF Len(all) > HistMax THEN Tail(all) ELSE all

(* run_script: every command of every pipeline, one after the other, each  *)
(* waited for; its redirections, pipes and background mark are not used.   *)
Commands(script) ==
    FlattenSeq([i \in DOMAIN script |->
        [j \in DOMAIN script[i] |-> script[i][j].argv]])

Exits == {<<"e", "x", "i", "t">>, <<"q", "u", "i", "t">>}

(* Enter, with execute: the line goes to the history first (and is never   *)
(* saved to the file).                                                     *)
Return ==
    /\ Len(buf) <= MaxEntry
    /\ IF Trim(buf) = <<>> THEN ran' = <<>> /\ UNCHANGED <<entries, shell>>
       ELSE /\ entries' = Pushed(buf)
            /\ IF Trim(buf) \in Exits THEN shell' = "exited" /\ ran' = <<>>
               ELSE ran' = Commands(Parse(buf)) /\ UNCHANGED shell
    /\ Reset
    /\ UNCHANGED saved

CtrlC == Reset /\ UNCHANGED <<saved, entries, shell>>
CtrlD ==
    /\ IF buf = <<>> THEN shell' = "exited" /\ UNCHANGED <<buf, cursor, ghost, histIdx>>
       ELSE Reset /\ UNCHANGED shell
    /\ UNCHANGED <<saved, entries>>

Key ==
    \/ \E ch \in Typed : Type(ch)
    \/ TabGhost \/ TabComplete \/ Right \/ Backspace
    \/ Left \/ CtrlA \/ CtrlE \/ CtrlK \/ CtrlU \/ CtrlW \/ AltF \/ AltB
    \/ Up \/ Down \/ CtrlR \/ CtrlC \/ CtrlD

Next ==
    /\ shell = "running"
    /\ \/ Key /\ ran' = <<>>
       \/ Return

-----------------------------------------------------------------------------
(* Whatever keys come, the cursor is on the line (render_line subtracts it *)
(* from the line's length), hist_idx names an entry, the history is no     *)
(* longer than allowed, and the shell only ever panics on a text that came *)
(* from a remote provider: the two notions of a token never make it cut a  *)
(* hit of the trie too far.                                                *)
EditorSound ==
    /\ cursor \in 0..Len(buf)
    /\ histIdx \in 0..Len(entries)
    /\ Len(entries) <= HistMax
    /\ shell = "panicked" => \E r \in Remote : Len(r) < TokenLen(buf) /\ Hits(buf) = {}

(* The line being written when Up is first pressed comes back when Down    *)
(* leaves the history, whatever was looked up or changed in between.       *)
DraftComesBack ==
    /\ (histIdx = 0 /\ histIdx' # 0) => saved' = buf
    /\ (histIdx # 0 /\ histIdx' # 0) => saved' = saved
    /\ (histIdx # 0 /\ histIdx' = 0) =>
           \/ buf' = saved /\ cursor' = Len(saved)
           \/ buf' = <<>>
=============================================================================
