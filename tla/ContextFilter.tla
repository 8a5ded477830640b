---------------------------- MODULE ContextFilter ----------------------------
(***************************************************************************)
(* ContextConfig::filter_messages (crates/adk/src/context/config.rs): what *)
(* is left of a thread's history before it is sent to the gateway.  Each   *)
(* step is stated by the messages and blocks it keeps.                     *)
(*                                                                         *)
(* A message is [at, role, blocks], at being its place in the history, and *)
(* a block [type, id, call]: id pairs a tool use with its result, and call *)
(* is the name and input that make two tool uses duplicates.  A            *)
(* configuration is [max, retain, limit, dedup], with limit = NoLimit for  *)
(* limit_per_message: None.                                                *)
(***************************************************************************)
EXTENDS Naturals, Sequences, FiniteSets, SequencesExt

CONSTANTS NoLimit

IsUse(b) == b.type = "use"
IsResult(b) == b.type = "result"
HasUses(m) == \E i \in DOMAIN m.blocks : IsUse(m.blocks[i])
IsResultMessage(m) == \E i \in DOMAIN m.blocks : IsResult(m.blocks[i])

\* The k-th of the indices I, and the subsequence of s at them.
Nth(I, k) == CHOOSE i \in I : Cardinality({j \in I : j <= i}) = k
Keep(s, I) == [k \in 1..Cardinality(I) |-> s[Nth(I, k)]]

\* Slip: the oldest messages instead of the newest.
OldestMessages(s, cfg) == SubSeq(s, 1, IF Len(s) > cfg.max THEN cfg.max ELSE Len(s))

\* Slip: one message too many.
OneMessageMore(s, cfg) == IF Len(s) > cfg.max THEN SubSeq(s, Len(s) - cfg.max, Len(s)) ELSE s

\* Step 1, max_messages.
LastMessages(s, cfg) == IF Len(s) > cfg.max THEN SubSeq(s, Len(s) - cfg.max + 1, Len(s))
                                            ELSE s

\* Step 2, apply_deduplicate: of the tool uses with the same name and input
\* only the first stays; a message left without blocks goes.
Repeated(s, i, j) ==
  /\ s[i].role = "assistant" /\ IsUse(s[i].blocks[j])
  /\ \E k \in 1..i : \E l \in DOMAIN s[k].blocks :
       /\ k < i \/ l < j
       /\ s[k].role = "assistant" /\ IsUse(s[k].blocks[l])
       /\ s[k].blocks[l].call = s[i].blocks[j].call
Deduplicated(s) ==
  LET unique(i) == Keep(s[i].blocks, {j \in DOMAIN s[i].blocks : ~ Repeated(s, i, j)})
      kept == {i \in DOMAIN s : s[i].blocks = <<>> \/ unique(i) # <<>>}
  IN Keep([i \in DOMAIN s |-> [s[i] EXCEPT !.blocks = unique(i)]], kept)

\* Step 3, apply_retain_last.  A pair is named by the index of its results.
PairEnds(s) == {i \in DOMAIN s \ {1} : /\ s[i].role = "user" /\ IsResultMessage(s[i])
                                       /\ s[i-1].role = "assistant" /\ HasUses(s[i-1])}

ToolMessages(s) == {i \in DOMAIN s : HasUses(s[i]) \/ IsResultMessage(s[i])}
OldPairs(s, cfg) == {i \in PairEnds(s) : Cardinality({j \in PairEnds(s) : j >= i}) > cfg.retain}

\* Slip: only the request of an old pair is marked for removal.
RetainLastRequests(s, cfg) ==
  Keep(s, DOMAIN s \ IF cfg.retain = 0 THEN ToolMessages(s)
                     ELSE {i - 1 : i \in OldPairs(s, cfg)})
RetainLast(s, cfg) ==
  Keep(s, DOMAIN s \ IF cfg.retain = 0 THEN ToolMessages(s)
                     ELSE OldPairs(s, cfg) \union {i - 1 : i \in OldPairs(s, cfg)})

\* Step 4, apply_limit_per_message: the last `limit` tool blocks of a message.
Limited(m, limit) ==
  LET tool(j) == IsUse(m.blocks[j]) \/ IsResult(m.blocks[j])
      later(j) == {k \in DOMAIN m.blocks : k >= j /\ tool(k)}
      kept == {j \in DOMAIN m.blocks : tool(j) => Cardinality(later(j)) <= limit}
  IN [m EXCEPT !.blocks = Keep(@, kept)]
IsToolMessage(m) == \/ m.role = "assistant" /\ HasUses(m)
                    \/ m.role = "user" /\ IsResultMessage(m)
LimitPerMessage(s, cfg) ==
  IF cfg.limit = NoLimit THEN s
  ELSE [i \in DOMAIN s |-> IF IsToolMessage(s[i]) THEN Limited(s[i], cfg.limit) ELSE s[i]]

\* Steps 5 and 6: leading assistant messages go, and then leading results.
DropLeading(s, Test(_)) ==
  Keep(s, {i \in DOMAIN s : \E j \in 1..i : ~ Test(s[j])})
DropLeadingAssistants(s) == DropLeading(s, LAMBDA m : m.role = "assistant")

RemoveOrphanedResults(s) ==
  DropLeading(s, LAMBDA m : m.role = "user" /\ IsResultMessage(m))

FilterMessages(s, cfg) ==
  LET recent == LastMessages(s, cfg)
      unique == IF cfg.dedup THEN Deduplicated(recent) ELSE recent
      limited == LimitPerMessage(RetainLast(unique, cfg), cfg)
  IN RemoveOrphanedResults(DropLeadingAssistants(limited))
=============================================================================
