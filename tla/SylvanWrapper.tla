--------------------------- MODULE SylvanWrapper ---------------------------
(***************************************************************************)
(* SylvanWrapper and SylvanCacheWrapper: the table that gives every node   *)
(* of a decision diagram one number, and the cache of the results of the   *)
(* operations, both shared without a lock by the threads that work on      *)
(* diagrams.  An MDD is the number of its root, and diagrams are compared  *)
(* by comparing numbers.                                                   *)
(*                                                                         *)
(* An operation looks for its key (operation and operands) in the cache;   *)
(* else it computes a node, finds or makes it in the table and writes the  *)
(* result in the cache.  What it computes in between is the sequence of    *)
(* the same steps for other keys, so here the node is a function of the    *)
(* key.  The two words of a node are written before its bucket is claimed  *)
(* and read afterwards: they are one value.                                *)
(*                                                                         *)
(* my_region is a thread-local variable: 0 in every thread but the one     *)
(* that made the table, where llmsset_create has set it to -1.             *)
(***************************************************************************)
EXTENDS Integers, FiniteSets, Sequences

CONSTANTS
  Main,       \* the thread that makes the table and loads the net
  Builder,    \* the threads it starts then
  Key,        \* the operations on their operands
  Result,     \* the node each key computes
  NodeHash,   \* of each node: its first bucket, the step of its lines, its hash
  KeyHash,    \* of each key: its cache bucket and the hash kept there
  TableSize,  \* buckets of the table
  Line,       \* buckets of a cache line: 8
  Words,      \* words of bitmap2 in a region: 8
  Bits,       \* bits of a word of bitmap2: 64
  Threshold,  \* cache lines to probe
  Modulus,    \* of the counter in the status of a cache bucket: 2^16
  Loads,      \* the sequences of keys that Main may compute first
  MaxOp       \* bound on the operations of a builder

Thread == Builder \cup {Main}
Region == 0 .. TableSize \div (Words * Bits) - 1
Index == 0 .. TableSize - 1
NoRegion == -1
NoKey == "none"

ASSUME SylvanWrapperAssumption ==
  /\ Main \notin Builder /\ IsFiniteSet(Builder)
  /\ {TableSize, Line, Words, Bits, Threshold, Modulus} \subseteq Nat \ {0}
  /\ TableSize % Line = 0 /\ TableSize % (Words * Bits) = 0
  /\ Key # {} /\ NoKey \notin Key
  /\ Result \in [Key -> DOMAIN NodeHash]
  /\ \A n \in DOMAIN NodeHash :
       NodeHash[n].first \in Index /\ NodeHash[n].step \in Nat /\ NodeHash[n].step % Line = 0
  /\ Loads \subseteq Seq(Key)

VARIABLES
  table,    \* dbs->table: of each bucket, the hash and index of its node
  data,     \* dbs->data: the node of each index
  bitmap1,  \* the regions that are owned
  bitmap2,  \* the indices that are claimed
  status,   \* m_cache_status
  entry,    \* m_cache_table
  load,     \* what Main computes first
  region,   \* my_region of each thread
  pc,       \* where each thread is in its operation
  ops,      \* how many operations it has begun
  key,      \* the key of the current one
  attempt,  \* lddmc_makenode calls llmsset_lookup at most twice
  idx,      \* the bucket it looks at
  line,     \* how many cache lines it has left behind
  cidx,     \* the index it has claimed, or 0
  n,        \* words searched in its region, then regions tried
  word,     \* the word of a bitmap it has read
  s,        \* the status it has read
  answer    \* the result of its operation

shared == <<table, data, bitmap1, bitmap2, status, entry, load>>
probe == <<attempt, idx, line>>
claim == <<region, n, word>>
local == <<ops, key, probe, cidx, claim, s, answer>>
vars == <<shared, pc, local>>

Empty == [hash |-> 0, index |-> 0]
Published == {b \in Index : table[b] # Empty}
NoEntry == [key |-> NoKey, res |-> 0]
Goto(w, label) == pc' = [pc EXCEPT ![w] = label]
Node(w) == Result[key[w]]

-----------------------------------------------------------------------------
(* An operation starts; the builders do when Main has loaded the net.      *)
Begin(w) ==
  /\ pc[w] = "idle"
  /\ \E k \in Key :
       /\ IF w = Main
          THEN ops[w] < Len(load) /\ k = load[ops[w] + 1]
          ELSE pc[Main] = "idle" /\ ops[Main] = Len(load) /\ ops[w] < MaxOp
       /\ key' = [key EXCEPT ![w] = k]
       /\ idx' = [idx EXCEPT ![w] = NodeHash[Result[k]].first]
  /\ ops' = [ops EXCEPT ![w] = @ + 1]
  /\ attempt' = [attempt EXCEPT ![w] = 1]
  /\ line' = [line EXCEPT ![w] = 0]
  /\ cidx' = [cidx EXCEPT ![w] = 0]
  /\ Goto(w, "get")
  /\ UNCHANGED <<shared, claim, s, answer>>

-----------------------------------------------------------------------------
(* cache_get: the status, the key, the result, and the status again.       *)
Slot(w) == KeyHash[key[w]].bucket

ReadStatus(w) ==
  /\ pc[w] = "get"
  /\ LET u == status[Slot(w)]
     IN  Goto(w, IF u.locked \/ u.hash # KeyHash[key[w]].hash THEN "probe" ELSE "match")
  /\ s' = [s EXCEPT ![w] = status[Slot(w)]]
  /\ UNCHANGED <<shared, ops, key, probe, cidx, claim, answer>>

MatchKey(w) ==
  /\ pc[w] = "match"
  /\ Goto(w, IF entry[Slot(w)].key = key[w] THEN "result" ELSE "probe")
  /\ UNCHANGED <<shared, local>>

ReadResult(w) ==
  /\ pc[w] = "result"
  /\ answer' = [answer EXCEPT ![w] = entry[Slot(w)].res]
  /\ Goto(w, "recheck")
  /\ UNCHANGED <<shared, ops, key, probe, cidx, claim, s>>

Recheck(w) ==
  /\ pc[w] = "recheck"
  /\ Goto(w, IF status[Slot(w)] = s[w] THEN "idle" ELSE "probe")
  /\ UNCHANGED <<shared, local>>

-----------------------------------------------------------------------------
(* llmsset_lookup2: the probe sequence goes round a cache line, then to    *)
(* the next line.                                                          *)
LineStart(w, l) == (NodeHash[Node(w)].first + l * NodeHash[Node(w)].step) % TableSize
InLine(i) == (i \div Line) * Line + ((i + 1) % Line)

Probe(w) ==
  /\ pc[w] = "probe"
  /\ Goto(w, IF table[idx[w]] # Empty THEN "compare"
             ELSE IF cidx[w] # 0 THEN "publish"
             ELSE IF region[w] = NoRegion THEN "region" ELSE "word")
  /\ n' = [n EXCEPT ![w] = 0]
  /\ UNCHANGED <<shared, ops, key, probe, cidx, region, word, s, answer>>

(* claim_data_bucket: the words of bitmap2 in the region of the thread.    *)
WordBits(w) ==
  LET first == (region[w] * Words + n[w]) * Bits IN first .. first + Bits - 1

ReadWord(w) ==
  /\ pc[w] = "word"
  /\ \/ /\ WordBits(w) \subseteq bitmap2
        /\ n' = [n EXCEPT ![w] = IF @ + 1 = Words THEN 0 ELSE @ + 1]
        /\ Goto(w, IF n[w] + 1 = Words THEN "region" ELSE "word")
        /\ UNCHANGED word
     \/ /\ ~(WordBits(w) \subseteq bitmap2)
        /\ word' = [word EXCEPT ![w] = WordBits(w) \cap bitmap2]
        /\ Goto(w, "bit")
        /\ UNCHANGED n
  /\ UNCHANGED <<shared, ops, key, probe, cidx, region, s, answer>>

(* *ptr |= bit, which is not atomic: the build may keep what it has read   *)
(* or read the word again.                                                 *)
SetBit(w) ==
  /\ pc[w] = "bit"
  /\ \E j \in WordBits(w) \ word[w] :
       /\ \A k \in WordBits(w) \ word[w] : j <= k
       /\ \E v \in {word[w], WordBits(w) \cap bitmap2} :
            bitmap2' = (bitmap2 \ WordBits(w)) \cup v \cup {j}
       /\ cidx' = [cidx EXCEPT ![w] = j]
  /\ word' = [word EXCEPT ![w] = {}]
  /\ Goto(w, "write")
  /\ UNCHANGED <<table, data, bitmap1, status, entry, load, ops, key, probe, region, n, s, answer>>

(* The next region that nobody owns: bitmap1 is read, then compared and    *)
(* swapped.  A word of bitmap1 covers all the regions here.                *)
NextRegion(w) ==
  /\ pc[w] = "region"
  /\ \/ n[w] = Cardinality(Region) /\ Goto(w, "full") /\ UNCHANGED <<region, n>>
     \/ /\ n[w] < Cardinality(Region)
        /\ n' = [n EXCEPT ![w] = @ + 1]
        /\ region' = [region EXCEPT ![w] = (@ + 1) % Cardinality(Region)]
        /\ Goto(w, "owned")
  /\ UNCHANGED <<shared, ops, key, probe, cidx, word, s, answer>>

ReadOwned(w) ==
  /\ pc[w] = "owned"
  /\ IF region[w] \in bitmap1
     THEN Goto(w, "region") /\ UNCHANGED word
     ELSE Goto(w, "own") /\ word' = [word EXCEPT ![w] = bitmap1]
  /\ UNCHANGED <<shared, ops, key, probe, cidx, region, n, s, answer>>

(* Mutant: the region is taken without comparing. *)
OwnBlindly(w) ==
  /\ pc[w] = "own"
  /\ bitmap1' = bitmap1 \cup {region[w]}
  /\ n' = [n EXCEPT ![w] = 0]
  /\ Goto(w, "word")
  /\ UNCHANGED <<table, data, bitmap2, status, entry, load, ops, key, probe, cidx, region, word, s, answer>>

OwnRegion(w) ==
  /\ pc[w] = "own"
  /\ \/ /\ bitmap1 = word[w]
        /\ bitmap1' = bitmap1 \cup {region[w]}
        /\ n' = [n EXCEPT ![w] = 0]
        /\ Goto(w, "word")
     \/ bitmap1 # word[w] /\ Goto(w, "owned") /\ UNCHANGED <<bitmap1, n>>
  /\ word' = [word EXCEPT ![w] = {}]
  /\ UNCHANGED <<table, data, bitmap2, status, entry, load, ops, key, probe, cidx, region, s, answer>>

WriteData(w) ==
  /\ pc[w] = "write"
  /\ data' = [data EXCEPT ![cidx[w]] = Node(w)]
  /\ Goto(w, "publish")
  /\ UNCHANGED <<table, bitmap1, bitmap2, status, entry, load, local>>

(* Mutant: the bucket is written without comparing. *)
PublishBlindly(w) ==
  /\ pc[w] = "publish"
  /\ table' = [table EXCEPT ![idx[w]] = [hash |-> NodeHash[Node(w)].hash, index |-> cidx[w]]]
  /\ answer' = [answer EXCEPT ![w] = cidx[w]]
  /\ Goto(w, "put")
  /\ UNCHANGED <<data, bitmap1, bitmap2, status, entry, load, ops, key, probe, cidx, claim, s>>

Publish(w) ==
  /\ pc[w] = "publish"
  /\ \/ /\ table[idx[w]] = Empty
        /\ table' = [table EXCEPT ![idx[w]] = [hash |-> NodeHash[Node(w)].hash, index |-> cidx[w]]]
        /\ answer' = [answer EXCEPT ![w] = cidx[w]]
        /\ Goto(w, "put")
     \/ table[idx[w]] # Empty /\ Goto(w, "compare") /\ UNCHANGED <<table, answer>>
  /\ UNCHANGED <<data, bitmap1, bitmap2, status, entry, load, ops, key, probe, cidx, claim, s>>

(* The node is there, or the search goes on: in the line, in the next      *)
(* line, or not at all.                                                    *)
Same(w) ==
  /\ table[idx[w]].hash = NodeHash[Node(w)].hash
  /\ data[table[idx[w]].index] = Node(w)

(* Mutant: the claimed index is kept. *)
FoundKept(w) ==
  /\ pc[w] = "compare" /\ Same(w)
  /\ answer' = [answer EXCEPT ![w] = table[idx[w]].index]
  /\ Goto(w, "put")
  /\ UNCHANGED <<shared, ops, key, probe, cidx, claim, s>>

Found(w) ==
  /\ pc[w] = "compare" /\ Same(w)
  /\ answer' = [answer EXCEPT ![w] = table[idx[w]].index]
  /\ Goto(w, IF cidx[w] # 0 THEN "release" ELSE "put")
  /\ UNCHANGED <<shared, ops, key, probe, cidx, claim, s>>

NextBucket(w) ==
  /\ pc[w] = "compare" /\ ~Same(w)
  /\ LET last == LineStart(w, line[w])
     IN  \/ /\ InLine(idx[w]) # last
            /\ idx' = [idx EXCEPT ![w] = InLine(@)]
            /\ Goto(w, "probe")
            /\ UNCHANGED line
         \/ /\ InLine(idx[w]) = last /\ line[w] + 1 < Threshold
            /\ idx' = [idx EXCEPT ![w] = LineStart(w, line[w] + 1)]
            /\ line' = [line EXCEPT ![w] = @ + 1]
            /\ Goto(w, "probe")
         \/ /\ InLine(idx[w]) = last /\ line[w] + 1 = Threshold
            /\ Goto(w, "full")
            /\ UNCHANGED <<idx, line>>
  /\ UNCHANGED <<shared, ops, key, attempt, cidx, claim, s, answer>>

(* release_data_bucket: *ptr &= ~mask, a read and a write. *)
WordOf(i) == LET first == (i \div Bits) * Bits IN first .. first + Bits - 1

ReadRelease(w) ==
  /\ pc[w] = "release"
  /\ word' = [word EXCEPT ![w] = WordOf(cidx[w]) \cap bitmap2]
  /\ Goto(w, "clear")
  /\ UNCHANGED <<shared, ops, key, probe, cidx, region, n, s, answer>>

Release(w) ==
  /\ pc[w] = "clear"
  /\ bitmap2' = (bitmap2 \ WordOf(cidx[w])) \cup (word[w] \ {cidx[w]})
  /\ word' = [word EXCEPT ![w] = {}]
  /\ Goto(w, "put")
  /\ UNCHANGED <<table, data, bitmap1, status, entry, load, ops, key, probe, cidx, region, n, s, answer>>

(* llmsset_lookup has returned 0: lddmc_makenode tries again, forgetting   *)
(* what it had claimed, then ends the program.                             *)
Full(w) ==
  /\ pc[w] = "full"
  /\ IF attempt[w] = 1
     THEN /\ attempt' = [attempt EXCEPT ![w] = 2]
          /\ idx' = [idx EXCEPT ![w] = LineStart(w, 0)]
          /\ line' = [line EXCEPT ![w] = 0]
          /\ cidx' = [cidx EXCEPT ![w] = 0]
          /\ Goto(w, "probe")
     ELSE pc' = [x \in Thread |-> "exit"] /\ UNCHANGED <<probe, cidx>>
  /\ UNCHANGED <<shared, ops, key, claim, s, answer>>

-----------------------------------------------------------------------------
(* cache_put: nothing is written when another thread holds the bucket.     *)
ReadPut(w) ==
  /\ pc[w] = "put"
  /\ s' = [s EXCEPT ![w] = status[Slot(w)]]
  /\ Goto(w, IF status[Slot(w)].locked THEN "idle" ELSE "lock")
  /\ UNCHANGED <<shared, ops, key, probe, cidx, claim, answer>>

(* Mutant: the counter stays as it is. *)
LockNotCounted(w) ==
  /\ pc[w] = "lock"
  /\ \/ /\ status[Slot(w)] = s[w]
        /\ status' = [status EXCEPT ![Slot(w)] =
             [locked |-> TRUE, hash |-> KeyHash[key[w]].hash, counter |-> s[w].counter]]
        /\ Goto(w, "key")
     \/ status[Slot(w)] # s[w] /\ Goto(w, "idle") /\ UNCHANGED status
  /\ UNCHANGED <<table, data, bitmap1, bitmap2, entry, load, local>>

Lock(w) ==
  /\ pc[w] = "lock"
  /\ \/ /\ status[Slot(w)] = s[w]
        /\ status' = [status EXCEPT ![Slot(w)] =
             [locked |-> TRUE, hash |-> KeyHash[key[w]].hash,
              counter |-> (s[w].counter + 1) % Modulus]]
        /\ Goto(w, "key")
     \/ status[Slot(w)] # s[w] /\ Goto(w, "idle") /\ UNCHANGED status
  /\ UNCHANGED <<table, data, bitmap1, bitmap2, entry, load, local>>

PutKey(w) ==
  /\ pc[w] = "key"
  /\ entry' = [entry EXCEPT ![Slot(w)].key = key[w]]
  /\ Goto(w, "value")
  /\ UNCHANGED <<table, data, bitmap1, bitmap2, status, load, local>>

PutResult(w) ==
  /\ pc[w] = "value"
  /\ entry' = [entry EXCEPT ![Slot(w)].res = answer[w]]
  /\ Goto(w, "unlock")
  /\ UNCHANGED <<table, data, bitmap1, bitmap2, status, load, local>>

Unlock(w) ==
  /\ pc[w] = "unlock"
  /\ status' = [status EXCEPT ![Slot(w)].locked = FALSE]
  /\ Goto(w, "idle")
  /\ UNCHANGED <<table, data, bitmap1, bitmap2, entry, load, local>>

-----------------------------------------------------------------------------
(* llmsset_create and cache_create: indices 0 and 1 are forbidden.         *)
Init ==
  /\ table = [b \in Index |-> Empty]
  /\ data = [i \in Index |-> "none"]
  /\ bitmap1 = {}
  /\ bitmap2 = {0, 1}
  /\ status = [b \in {KeyHash[k].bucket : k \in Key} |-> [locked |-> FALSE, hash |-> 0, counter |-> 0]]
  /\ entry = [b \in DOMAIN status |-> NoEntry]
  /\ load \in Loads
  /\ region = [w \in Thread |-> IF w = Main THEN NoRegion ELSE 0]
  /\ pc = [w \in Thread |-> "idle"]
  /\ ops = [w \in Thread |-> 0]
  /\ key = [w \in Thread |-> CHOOSE k \in Key : TRUE]
  /\ attempt = [w \in Thread |-> 1]
  /\ idx = [w \in Thread |-> 0]
  /\ line = [w \in Thread |-> 0]
  /\ cidx = [w \in Thread |-> 0]
  /\ n = [w \in Thread |-> 0]
  /\ word = [w \in Thread |-> {}]
  /\ s = [w \in Thread |-> [locked |-> FALSE, hash |-> 0, counter |-> 0]]
  /\ answer = [w \in Thread |-> 0]

Next == \E w \in Thread :
  \/ Begin(w)
  \/ ReadStatus(w) \/ MatchKey(w) \/ ReadResult(w) \/ Recheck(w)
  \/ Probe(w) \/ ReadWord(w) \/ SetBit(w) \/ NextRegion(w) \/ ReadOwned(w) \/ OwnRegion(w)
  \/ WriteData(w) \/ Publish(w) \/ Found(w) \/ NextBucket(w) \/ ReadRelease(w) \/ Release(w)
  \/ Full(w)
  \/ ReadPut(w) \/ Lock(w) \/ PutKey(w) \/ PutResult(w) \/ Unlock(w)

Spec == Init /\ [][Next]_vars
-----------------------------------------------------------------------------
(* Properties. *)

(* Diagrams are equal exactly when their numbers are: however insertions   *)
(* race, no node has two numbers and no number is in two buckets.          *)
OneNumberPerNode ==
  \A b, c \in Published :
    b # c => /\ data[table[b].index] # data[table[c].index]
             /\ table[b].index # table[c].index

(* A number that has been given keeps its node, whoever claims buckets.    *)
NumbersAreFinal ==
  [][\A b \in Published :
       table'[b] = table[b] /\ data'[table[b].index] = data[table[b].index]]_vars

(* Every operation answers with the number of the node it computes, from   *)
(* the table or from a cache bucket that others rewrite meanwhile.         *)
AnswerIsRight ==
  \A w \in Thread :
    pc[w] = "idle" /\ ops[w] > 0 =>
      \E b \in Published : table[b].index = answer[w] /\ data[answer[w]] = Node(w)

(* An index is claimed when it is published or held by one thread: a race  *)
(* that is lost gives its index back, as long as the table is not full.    *)
Holders(i) ==
  {w \in Thread : /\ cidx[w] = i
                   /\ pc[w] \in {"write", "publish", "compare", "probe", "release", "clear"}}
ClaimedIsUsed ==
  (\A w \in Thread : attempt[w] = 1 /\ pc[w] # "full") => \A i \in bitmap2 \ {0, 1} :
    (\E b \in Published : table[b].index = i) \/ Cardinality(Holders(i)) = 1
=============================================================================
