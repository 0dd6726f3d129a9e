------------------------------- MODULE AiEngine -------------------------------
(***************************************************************************)
(* The completion engine of src/ai_engine: a trie of known texts, a local  *)
(* model behind one lock, and a chain of remote providers, each behind a   *)
(* circuit breaker.  Calls from several clients overlap; a call gives way  *)
(* where the code awaits: at a provider's reply, at the lock of the local  *)
(* model and at its inference.  A background task probes the network.      *)
(*                                                                         *)
(* Texts and tokens are names; scores are hundredths.  A breaker's         *)
(* deadline is none, ahead or past, and time only moves it from ahead to   *)
(* past.                                                                   *)
(***************************************************************************)
EXTENDS Integers, FiniteSets, SequencesExt

CONSTANTS
    Clients,     \* tasks that call the engine
    Providers,   \* the chain of remote providers, in the order they are tried
    Limit,       \* failures that open a breaker (3 in the code)
    Configs,     \* configurations the engine is made with; `model`: model_path exists
    Requests,    \* client |-> what it asks: [op, token, ends, n]
    Learnable    \* identifiers a client may teach: [text, len, ord, under, plain]

VARIABLES
    config,      \* AiEngine.config, fixed for a run
    loaded,      \* OfflineEngine.loaded: the model file was there at start
    trie,        \* the terminals of CompletionTrie: text |-> entry
    onlineOk,    \* AiEngine.online_ok
    breaker,     \* provider |-> [failures, until]
    offq,        \* FIFO of clients at the lock of `offline`; the head holds it
    call         \* client |-> the call it is in

aiVars == <<config, loaded, trie, onlineOk, breaker, offq, call>>

-----------------------------------------------------------------------------
(* Stage 0: the trie. *)

(* The builtin entries below "f" and "V": a sample of load_builtins that   *)
(* has keywords, functions and snippets.  `len` is the depth of the text's *)
(* node, `ord` its place in the order of texts and `under` the tokens      *)
(* asked for here whose node is above it.                                  *)
Entry(s, l, o, u) == [score |-> s, len |-> l, ord |-> o, under |-> u]
Builtins ==
    [x \in {"Vec", "Vec::new()", "find", "fn", "fn main", "for", "from"} |->
        CASE x = "Vec"        -> Entry(90, 3, 1, {"Vec"})
          [] x = "Vec::new()" -> Entry(82, 10, 2, {"Vec", "Vec::n"})
          [] x = "find"       -> Entry(85, 4, 4, {"f"})
          [] x = "fn"         -> Entry(90, 2, 5, {"f"})
          [] x = "fn main"    -> Entry(95, 18, 6, {"f"})
          [] x = "for"        -> Entry(90, 3, 7, {"f"})
          [] x = "from"       -> Entry(88, 4, 8, {"f"})]

(* insert: a text already there is replaced only by a higher score. *)
Insert(t, text, e) ==
    IF text \in DOMAIN t /\ e.score <= t[text].score
    THEN t ELSE [x \in DOMAIN t \cup {text} |-> IF x = text THEN e ELSE t[x]]

(* complete's walk: level by level, whole levels, until 8 * max texts are  *)
(* in hand.                                                                *)
OverCollect == 8
Collected(t, token, max) ==
    LET matches == {x \in DOMAIN t : token \in t[x].under}
    IN  {x \in matches :
           Cardinality({y \in matches : t[y].len < t[x].len}) < max * OverCollect}

Take(s, n) == SubSeq(s, 1, IF n < Len(s) THEN n ELSE Len(s))

(* The answer of the trie, by score and then by text; no token, no answer. *)
Better(t, S, x) == {y \in S : \/ t[y].score > t[x].score
                              \/ t[y].score = t[x].score /\ t[y].ord < t[x].ord}
Nth(t, S, i) == CHOOSE x \in S : Cardinality(Better(t, S, x)) = i - 1
TrieComplete(t, token, max) ==
    LET S == IF token = "" THEN {} ELSE Collected(t, token, max)
    IN  Take([i \in 1..Cardinality(S) |->
                [text |-> Nth(t, S, i), score |-> t[Nth(t, S, i)].score,
                 source |-> "Trie"]], max)

-----------------------------------------------------------------------------
(* Answers.  Sorting is by score and stable; what is beyond n is cut. *)

Hit == [text : DOMAIN Builtins \cup {l.text : l \in Learnable} \cup {"Offline", "Online"},
        score : Nat, source : {"Trie", "Offline", "Online"}]
Ahead(s, i) == {j \in DOMAIN s : \/ s[j].score > s[i].score
                                 \/ s[j].score = s[i].score /\ j < i}
Sorted[s \in Seq(Hit)] ==
    [k \in 1 .. Len(s) |-> s[CHOOSE i \in DOMAIN s : Cardinality(Ahead(s, i)) = k - 1]]
Ok(res)   == [ok |-> TRUE, res |-> res]
Err       == [ok |-> FALSE, res |-> <<>>]
From(src, scores, n) ==
    Take([i \in 1..Len(scores) |->
            [text |-> src, score |-> scores[i], source |-> src]], n)

(* Stage 1 without a model file: rule_complete by what the line ends with, *)
(* rule_next by its last word (`ends` names either).                       *)
RuleComplete(ends, n) ==
    From("Offline",
         CASE ends = "fn"  -> <<70, 65>>
           [] ends = "Vec" -> <<90, 85, 70>>
           [] ends = "for" -> <<72, 68>>
           [] ends = "if"  -> <<75, 65>>
           [] OTHER        -> <<>>, n)
RuleNext(ends, n) ==
    From("Offline",
         CASE ends = "fn"  -> <<40, 35, 25>>
           [] ends = "for" -> <<45, 40, 15>>
           [] ends = "if"  -> <<50, 30, 20>>
           [] OTHER        -> <<35, 25, 25, 15>>, n)

(* Stage 2: one text, whatever n is; extract_text gives "" for a reply of  *)
(* another shape.                                                          *)
RemoteAnswer == From("Online", <<92>>, 1)

-----------------------------------------------------------------------------
(* The circuit breaker: is_open, success, failure. *)

Closed      == [failures |-> 0, until |-> "none"]
IsOpen(b)   == b.until = "ahead"
Looked(b)   == IF b.until = "past" THEN Closed ELSE b

(* Mutant of Failed: one failure more than the limit opens it. *)
Failed_Late(b) == [failures |-> b.failures + 1,
                   until |-> IF b.failures + 1 > Limit THEN "ahead" ELSE b.until]

Failed(b)   == [failures |-> b.failures + 1,
                until    |-> IF b.failures + 1 >= Limit THEN "ahead" ELSE b.until]

(* complete tries every provider, correct all but the last (Ollama). *)
ChainLen(op) == IF op = "correct" THEN Len(Providers) - 1 ELSE Len(Providers)

-----------------------------------------------------------------------------
Idle == [pc |-> "idle"]

Init ==
    /\ config \in Configs
    /\ loaded = config.model
    /\ trie = Builtins
    /\ onlineOk = FALSE
    /\ breaker = [p \in Range(Providers) |-> Closed]
    /\ offq = <<>>
    /\ call = [c \in Clients |-> Idle]

UseOnline == config.prefer_online /\ onlineOk

(* Where a call goes when it leaves the remote providers, or skips them. *)
Finish(c, answer) ==
    /\ call' = [call EXCEPT ![c] =
                 [pc |-> "done", req |-> call[c].req, hits |-> call[c].hits,
                  ans |-> answer]]
    /\ UNCHANGED offq
QueueOffline(c, next) ==
    /\ call' = [call EXCEPT ![c] = [next EXCEPT !.pc = "offline"]]
    /\ offq' = Append(offq, c)

(* complete, next_word, correct: everything up to the first await. *)
Start(c, r) ==
    LET hits == IF r.op = "next" \/ (r.op = "complete" /\ config.trie_first)
                THEN TrieComplete(trie, r.token, r.n) ELSE <<>>
        next == [pc |-> "ask", req |-> r, hits |-> hits, prov |-> 1]
    IN  /\ call[c].pc = "idle"
        /\ IF \/ r.op = "complete" /\ config.trie_first /\ Len(hits) >= r.n
              \/ r.op = "next" /\ hits # <<>>
           THEN /\ call' = [call EXCEPT ![c] =
                       [pc |-> "done", req |-> r, hits |-> hits, ans |-> Ok(hits)]]
                /\ UNCHANGED offq
           ELSE IF r.op # "next" /\ UseOnline
           THEN /\ call' = [call EXCEPT ![c] = next]
                /\ UNCHANGED offq
           ELSE QueueOffline(c, next)
        /\ UNCHANGED <<config, loaded, trie, onlineOk, breaker>>

Remaining(c) == call[c].req.n - Len(call[c].hits)

(* breaker_open at the next provider: its lock is taken for the look only. *)
Ask(c) ==
    /\ call[c].pc = "ask"
    /\ call[c].prov <= ChainLen(call[c].req.op)
    /\ LET p == Providers[call[c].prov]
       IN  /\ breaker' = [breaker EXCEPT ![p] = Looked(@)]
           /\ call' = IF IsOpen(breaker[p])
                      THEN [call EXCEPT ![c].prov = @ + 1]
                      ELSE [call EXCEPT ![c].pc = "sent"]
    /\ UNCHANGED <<config, loaded, trie, onlineOk, offq>>

(* The end of the chain: "All online providers unavailable". *)
GiveUp(c) ==
    /\ call[c].pc = "ask"
    /\ call[c].prov > ChainLen(call[c].req.op)
    /\ IF call[c].req.op = "correct" \/ config.offline_fallback
       THEN QueueOffline(c, call[c])
       ELSE Finish(c, Ok(call[c].hits))
    /\ UNCHANGED <<config, loaded, trie, onlineOk, breaker>>

(* A reply that parses: the provider's breaker is reset, the call is over. *)
Reply(c) ==
    /\ call[c].pc = "sent"
    /\ breaker' = [breaker EXCEPT ![Providers[call[c].prov]] = Closed]
    /\ Finish(c, IF call[c].req.op = "correct" THEN Ok(<<>>)
                 ELSE Ok(Take(Sorted[call[c].hits \o RemoteAnswer], call[c].req.n)))
    /\ UNCHANGED <<config, loaded, trie, onlineOk>>

(* A refused connection, an error status, an unreadable reply or, after 30 *)
(* seconds, the client's timeout.                                          *)
Fails(c) ==
    /\ call[c].pc = "sent"
    /\ breaker' = [breaker EXCEPT ![Providers[call[c].prov]] = Failed(@)]
    /\ call' = [call EXCEPT ![c].pc = "ask", ![c].prov = @ + 1]
    /\ UNCHANGED <<config, loaded, trie, onlineOk, offq>>

OfflineAnswer(c) ==
    LET r == call[c].req
    IN  CASE r.op = "complete" ->
               Ok(Take(Sorted[call[c].hits \o RuleComplete(r.ends, Remaining(c))], r.n))
          [] r.op = "next" -> Ok(RuleNext(r.ends, r.n))
          [] OTHER -> Err

(* Mutant of Leave: the lock is not let go. *)
Leave_Holds(c, answer) ==
    /\ call' = [call EXCEPT ![c] =
                 [pc |-> "done", req |-> call[c].req, hits |-> call[c].hits,
                  ans |-> answer]]
    /\ UNCHANGED offq

Leave(c, answer) ==
    /\ call' = [call EXCEPT ![c] =
                 [pc |-> "done", req |-> call[c].req, hits |-> call[c].hits,
                  ans |-> answer]]
    /\ offq' = Tail(offq)

(* At the lock, no model file: answered by rules before it is let go. *)
OfflineRules(c) ==
    /\ call[c].pc = "offline" /\ Head(offq) = c /\ ~loaded
    /\ Leave(c, OfflineAnswer(c))
    /\ UNCHANGED <<config, loaded, trie, onlineOk, breaker>>

(* At the lock with a model file: nothing is ever cached, so inference     *)
(* starts on the blocking pool and the lock stays taken across its await.  *)
Infer(c) ==
    /\ call[c].pc = "offline" /\ Head(offq) = c /\ loaded
    /\ call' = [call EXCEPT ![c].pc = "infer"]
    /\ UNCHANGED <<config, loaded, trie, onlineOk, breaker, offq>>

(* The backend is not linked: run_ggml and its like always fail.  complete *)
(* passes that on, trie hits and all; next_word takes it for no answer.    *)
Inferred(c) ==
    /\ call[c].pc = "infer"
    /\ Leave(c, IF call[c].req.op = "next" THEN Ok(<<>>) ELSE Err)
    /\ UNCHANGED <<config, loaded, trie, onlineOk, breaker>>

(* The client takes its answer. *)
Return(c) ==
    /\ call[c].pc = "done"
    /\ call' = [call EXCEPT ![c] = Idle]
    /\ UNCHANGED <<config, loaded, trie, onlineOk, breaker, offq>>

(* learn: three characters and more, letters, digits and underscores. *)
Learn(l) ==
    /\ trie' = IF l.len >= 3 /\ l.plain
               THEN Insert(trie, l.text, Entry(65, l.len, l.ord, l.under)) ELSE trie
    /\ UNCHANGED <<config, loaded, onlineOk, breaker, offq, call>>

(* The probe of every 15 seconds stores what it found. *)
Ping(reachable) ==
    /\ onlineOk' = reachable
    /\ UNCHANGED <<config, loaded, trie, breaker, offq, call>>

(* 30 seconds after a breaker opened. *)
Expire(p) ==
    /\ breaker[p].until = "ahead"
    /\ breaker' = [breaker EXCEPT ![p].until = "past"]
    /\ UNCHANGED <<config, loaded, trie, onlineOk, offq, call>>

(* What a call under way does by itself. *)
Proceed(c) ==
    \/ Ask(c) \/ GiveUp(c) \/ Reply(c) \/ Fails(c)
    \/ OfflineRules(c) \/ Infer(c) \/ Inferred(c)

Next ==
    \/ \E c \in Clients :
         \/ \E r \in Requests[c] : Start(c, r)
         \/ Proceed(c)
         \/ Return(c)
    \/ \E l \in Learnable : Learn(l)
    \/ \E b \in BOOLEAN : Ping(b)
    \/ \E p \in Range(Providers) : Expire(p)

-----------------------------------------------------------------------------
(* A breaker with no deadline has fewer failures than open it, and one     *)
(* that opened takes at most the late failures of the calls already sent.  *)
BreakersBounded ==
    \A p \in DOMAIN breaker :
        /\ breaker[p].until = "none" => breaker[p].failures < Limit
        /\ breaker[p].failures < Limit + Cardinality(Clients)

(* Without a model file a completion never fails, whatever the network     *)
(* does ("so the shell never breaks"), and no answer drops a hit of the    *)
(* trie or exceeds what was asked for.                                     *)
AnswersWhole ==
    \A c \in Clients :
        (call[c].pc = "done" /\ call[c].req.op # "correct") =>
            LET a == call[c].ans
            IN  /\ ~loaded => a.ok
                /\ a.ok => /\ Len(a.res) <= call[c].req.n
                           /\ Range(call[c].hits) \subseteq Range(a.res)
                           /\ \A i, j \in DOMAIN a.res :
                                i < j => a.res[i].score >= a.res[j].score

(* Every call is answered: replies come or time out, and the local model's *)
(* lock is handed on in order.                                             *)
EveryCallAnswered ==
    \A c \in Clients : call[c].pc # "idle" ~> call[c].pc = "done"

=============================================================================
