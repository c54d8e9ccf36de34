------------------------------ MODULE JsonlTail ------------------------------
(* JSONLParser.Parse (internal/capture/parser_jsonl.go) on one transcript    *)
(* that its writer appends to, byte by byte, or replaces; the splitting of   *)
(* records above the chunk budget; and their reassembly by the Python bridge *)
(* (bridge/python/eidetic_mcp/reassemble.py). Capture models when Parse is   *)
(* called; here it is what a call reads and emits.                           *)
EXTENDS Integers, Sequences, SequencesExt, FiniteSetsExt, Functions

CONSTANTS
  Data,       \* bytes that have no meaning to Parse
  NL, CR,     \* "\n" and "\r"
  BOM,        \* the byte order mark, counted as one byte
  Lead, Trail,\* the two bytes of a character that UTF-8 writes as two
  Bad,        \* U+FFFD
  Cap,        \* jsonlMaxFileBytes, 500 MiB in the code
  Budget,     \* chunkPayloadBudget, 7 MiB in the code
  MaxLen,     \* bounds: bytes of the file,
  MaxSwaps,   \*   times it is replaced,
  MaxLapses   \*   passes whose offset is not saved

ASSUME TailAssumption ==
  /\ {Cap, Budget, MaxLen} \subseteq Nat \ {0}
  /\ MaxSwaps \in Nat /\ MaxLapses \in Nat

VARIABLES
  transcript, \* the bytes
  offset,     \* what state.json has for the path
  pass,       \* what a pass has seen and not read yet: size, and where from; or Idle
  engrams,    \* what was stored, in order, since Parse last started over
  swapped,    \* the file was replaced after the last pass looked at it
  lost,       \* a replacement went unseen, or the cap has skipped bytes
  swaps, lapses

jsonlVars == <<transcript, offset, pass, engrams, swapped, lost, swaps, lapses>>

Bytes == Data \union {NL, CR, BOM}
Idle == [size |-> 0, from |-> 0]

---------------------------------------------------------------------------
(* What the contract says: one record per terminated line, without its       *)
(* carriage returns, blank ones dropped, and without the file's BOM.         *)

Ends(b) == {i \in DOMAIN b : b[i] = NL}
LineStart(b, i) == Max({j \in Ends(b) : j < i} \union {0}) + 1

TrimCR(s) == SubSeq(s, 1, Max({i \in DOMAIN s : s[i] # CR} \union {0}))
Raw(b, i) == TrimCR(SubSeq(b, LineStart(b, i), i - 1))

Unmarked(b) == IF b # <<>> /\ Head(b) = BOM THEN Tail(b) ELSE b

\* The record that byte i ends, if it ends one.
RecordAt(b, i) == IF b[i] = NL /\ Raw(b, i) # <<>> THEN <<Raw(b, i)>> ELSE <<>>
Records(b) == FlattenSeq([i \in DOMAIN b |-> RecordAt(b, i)])

---------------------------------------------------------------------------
(* One pass over buf. TrimRight takes all final newlines off, and one line   *)
(* is counted for what is left, so that a pass is behind by all but one of   *)
(* them.                                                                     *)

Trimmed(b) == SubSeq(b, 1, Max({i \in DOMAIN b : b[i] # NL} \union {0}))
Consumable(b) == SubSeq(b, 1, Max(Ends(b) \union {0}))
\* Variants for comparison: the newline is not counted, or always as "\r\n".
ConsumedShort(b) == Len(Trimmed(Consumable(b)))
ConsumedOver(b) == Len(Trimmed(Consumable(b))) + 2

Consumed(b) == Len(Trimmed(Consumable(b))) + 1

(* splitOversized: the chunks of a record, with its hash as their id.        *)
\* A variant for comparison: the number of chunks is rounded down.
ChunksDown(raw) ==
  [k \in 1..(Len(raw) \div Budget) |->
     [id |-> raw, seq |-> k - 1, total |-> Len(raw) \div Budget,
      payload |-> SubSeq(raw, (k - 1) * Budget + 1, k * Budget)]]

Whole(raw) == <<[id |-> <<>>, seq |-> 0, total |-> 1, payload |-> raw]>>
Chunks(raw) ==
  LET total == (Len(raw) + Budget - 1) \div Budget
  IN [k \in 1..total |->
        [id |-> raw, seq |-> k - 1, total |-> total,
         payload |-> SubSeq(raw, (k - 1) * Budget + 1,
                            IF k * Budget < Len(raw) THEN k * Budget ELSE Len(raw))]]
Split(raw) == IF Len(raw) > Budget THEN Chunks(raw) ELSE Whole(raw)

EmitAt(b, i) == IF b[i] = NL /\ Raw(b, i) # <<>> THEN Split(Raw(b, i)) ELSE <<>>
Emit(b) == FlattenSeq([i \in DOMAIN b |-> EmitAt(b, i)])

(* The daemon answers in JSON: encoding/json writes U+FFFD for a byte that is *)
(* no part of a character.                                                   *)
Halved(p, i) ==
  \/ p[i] = Lead /\ (i = Len(p) \/ p[i + 1] # Trail)
  \/ p[i] = Trail /\ (i = 1 \/ p[i - 1] # Lead)
Encode(p) == [i \in DOMAIN p |-> IF Halved(p, i) THEN Bad ELSE p[i]]
Served(rows) == [k \in DOMAIN rows |-> [rows[k] EXCEPT !.payload = Encode(@)]]

(* reassemble_chunks: rows of one chunk id become one, where the first of    *)
(* them stands. _merge_chunk_group sorts them by their sequence numbers; the *)
(* sort is stable.                                                           *)
Group(rows, id) == {k \in DOMAIN rows : rows[k].id = id}
Rank(rows, G, k) ==
  Cardinality({j \in G : \/ rows[j].seq < rows[k].seq
                         \/ rows[j].seq = rows[k].seq /\ j <= k})
Ranked(rows, G, n) == CHOOSE k \in G : Rank(rows, G, k) = n
Merged(rows, G) == FlattenSeq([n \in 1..Cardinality(G) |-> rows[Ranked(rows, G, n)].payload])

Heads(rows) ==
  {k \in DOMAIN rows : rows[k].id = <<>> \/ \A j \in 1..(k - 1) : rows[j].id # rows[k].id}
\* The n-th smallest number of a set.
Nth(S, n) == CHOOSE k \in S : Cardinality({j \in S : j <= k}) = n
RowAt(rows, k) ==
  IF rows[k].id = <<>> THEN rows[k].payload ELSE Merged(rows, Group(rows, rows[k].id))
Reassemble(rows) == [h \in 1..Cardinality(Heads(rows)) |-> RowAt(rows, Nth(Heads(rows), h))]

---------------------------------------------------------------------------
Init ==
  /\ transcript = <<>>
  /\ offset = 0 /\ pass = Idle
  /\ engrams = <<>>
  /\ swapped = FALSE /\ lost = FALSE
  /\ swaps = 0 /\ lapses = 0

(* Inside a file a byte order mark is data like any other, and left out.     *)
Write ==
  /\ Len(transcript) < MaxLen
  /\ \E b \in IF transcript = <<>> THEN Bytes ELSE Bytes \ {BOM} : transcript' = Append(transcript, b)
  /\ UNCHANGED <<offset, pass, engrams, swapped, lost, swaps, lapses>>

(* The file is truncated, or another one takes its name: first it is empty.  *)
Swap ==
  /\ swaps < MaxSwaps
  /\ transcript # <<>>
  /\ swaps' = swaps + 1
  /\ transcript' = <<>>
  /\ swapped' = TRUE
  /\ UNCHANGED <<offset, pass, engrams, lost, lapses>>

(* Parse looks at the size of the file. One that has become shorter is read  *)
(* from its start; an empty one, and one with too much to read, is not.      *)
From == IF offset > Len(transcript) THEN 0 ELSE offset
TooLong == Len(transcript) - From > Cap

Missed == IF offset > Len(transcript) THEN FALSE ELSE lost \/ (swapped /\ offset > 0)

Stat ==
  /\ pass = Idle
  /\ IF transcript = <<>> \/ TooLong
     THEN offset' = Len(transcript) /\ UNCHANGED pass
     ELSE pass' = [size |-> Len(transcript), from |-> From] /\ UNCHANGED offset
  /\ engrams' = IF offset > Len(transcript) THEN <<>> ELSE engrams
  /\ lost' = (Missed \/ TooLong)
  /\ swapped' = FALSE
  /\ UNCHANGED <<transcript, swaps, lapses>>

(* Parse reads what it saw, or less if the file has shrunk meanwhile (an     *)
(* error if nothing is left), and its caller stores the engrams and saves    *)
(* the offset; the daemon may end between the two.                           *)
Buffer == SubSeq(transcript, pass.from + 1,
                 IF pass.size < Len(transcript) THEN pass.size ELSE Len(transcript))
Body == IF pass.from = 0 THEN Unmarked(Buffer) ELSE Buffer
Start == pass.from + Len(Buffer) - Len(Body)
NewOffset == IF Ends(Body) = {} THEN Start ELSE Start + Consumed(Body)

ReadNothing ==
  /\ pass # Idle
  /\ Buffer = <<>>
  /\ pass' = Idle
  /\ UNCHANGED <<transcript, offset, engrams, swapped, lost, swaps, lapses>>

ReadBuffer ==
  /\ pass # Idle
  /\ Buffer # <<>>
  /\ pass' = Idle
  /\ engrams' = engrams \o Emit(Body)
  /\ \/ /\ offset' = NewOffset
        /\ UNCHANGED lapses
     \/ /\ lapses < MaxLapses
        /\ Emit(Body) # <<>>
        /\ lapses' = lapses + 1
        /\ UNCHANGED offset
  /\ lost' = (lost \/ (swapped /\ pass.from > 0))
  /\ swapped' = FALSE
  /\ UNCHANGED <<transcript, swaps>>

Next == Write \/ Swap \/ Stat \/ ReadNothing \/ ReadBuffer

Spec == Init /\ [][Next]_jsonlVars

---------------------------------------------------------------------------
Texts == UNION {[1..n -> Bytes] : n \in 0..MaxLen}
Engrams == [id : Texts, seq : 0..MaxLen, total : 1..MaxLen, payload : Texts]

TypeOK ==
  /\ Len(transcript) <= MaxLen /\ Range(transcript) \subseteq Bytes
  /\ offset \in 0..MaxLen
  /\ pass \in [size : 0..MaxLen, from : 0..MaxLen]
  /\ Range(engrams) \subseteq Engrams
  /\ swapped \in BOOLEAN /\ lost \in BOOLEAN
  /\ swaps \in 0..MaxSwaps /\ lapses \in 0..MaxLapses

Current == ~lost /\ ~swapped
Past == Unmarked(SubSeq(transcript, 1, IF pass = Idle THEN offset ELSE pass.from))

(* "Each newline-terminated record becomes one engram": what is stored is    *)
(* every complete record up to the offset, in order and once, whatever bytes *)
(* a pass ended on and however often the file was truncated, as long as      *)
(* every truncation was seen and no offset failed to be saved.               *)
EmittedExactly == Current /\ lapses = 0 => engrams = Emit(Past)

(* One pass takes all complete records that were there when it began, so     *)
(* that nothing waits for an event that may never come.                      *)
OnePassSuffices ==
  [][pass # Idle /\ pass' = Idle /\ Current /\ lapses = 0
       => engrams' = Emit(Unmarked(SubSeq(transcript, 1, pass.size)))]_jsonlVars

(* The bridge gets the records back from their chunks, in whatever order the *)
(* rows come: chunks of a record share its time, by which the daemon sorts.  *)
(* The premises: no two chunked records are equal, and no chunk ends inside  *)
(* a character.                                                              *)
Texted(r) == [k \in DOMAIN r |-> Encode(r[k])]
Chunked(r) == {k \in DOMAIN r : Len(r[k]) > Budget}
Distinct(r) == \A j, k \in Chunked(r) : r[j] = r[k] => j = k
Cut(s) == \E k \in 1..Len(s) : k * Budget < Len(s) /\ s[k * Budget] = Lead /\ s[k * Budget + 1] = Trail
Orders(n) == Bijection(1..n, 1..n)
Reordered(s, p) == [k \in DOMAIN s |-> s[p[k]]]

Restored(r) ==
  /\ Reassemble(Served(engrams)) = Texted(r)
  /\ \A p \in Orders(Len(engrams)) : \E q \in Orders(Len(r)) :
       Reassemble(Served(Reordered(engrams, p))) = Reordered(Texted(r), q)

ReassembledExactly ==
  LET r == Records(Past)
  IN Current /\ lapses = 0 /\ Distinct(r) /\ (\A k \in DOMAIN r : ~Cut(r[k])) => Restored(r)

(* "Sort by chunk_seq, concatenate payload": the same, wherever a chunk ends. *)
TextSurvives ==
  LET r == Records(Past) IN Current /\ lapses = 0 /\ Distinct(r) => Restored(r)

(* "Consumers can dedupe by chunk_id": what the bridge returns are records   *)
(* of the transcript, also when a pass was repeated.                         *)
OnlyRecords == Current => Range(Reassemble(Served(engrams))) \subseteq Range(Texted(Records(Unmarked(transcript))))

(* "Each newline-terminated record becomes one engram with payload = the raw *)
(* line", of a file that was never replaced.                                 *)
OnlyLines == swaps = 0 => Range(Reassemble(Served(engrams))) \subseteq Range(Texted(Records(Unmarked(transcript))))

(* "Empty file -> 0 engrams, offset unchanged".                              *)
EmptyKeepsOffset == [][transcript = <<>> /\ transcript' = <<>> => offset' = offset]_jsonlVars

=============================================================================
