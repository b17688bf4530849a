--------------------------- MODULE SpeedupsProofs ----------------------------
(***************************************************************************)
(* What holds of two ways of making a driver faster.                       *)
(*                                                                         *)
(* SimLingo's fast path (FastForward), for prompts of any length, any      *)
(* alphabet, any limits and any sequence of calls: it stays within its     *)
(* cache, and it implements the model that keeps nothing.                  *)
(*                                                                         *)
(* MindDrive's speedups (MCSpeedups), for any number of frames: what the   *)
(* two streams read is there, no speedup takes an expert's weights from it *)
(* or leaves a graph that replays another backbone, and what the node logs *)
(* as applied is in effect.                                                *)
(***************************************************************************)
EXTENDS MCSpeedups, SequenceTheorems, TLAPS

-----------------------------------------------------------------------------
(* SimLingo's fast path                                                    *)

\* The items are what the text has from position at.
PartAt(items, text, at) ==
  /\ at + Len(items) - 1 <= Len(text)
  /\ \A i \in 1..Len(items) : items[i] = text[at + i - 1]

\* The first n rows have seen the text up to themselves.
TrueTo(rows, text, n) == \A j \in 1..n : rows[j] = SubSeq(text, 1, j)

\* The mask lets the row at p see all the rows up to its own.
Sees(seeing, p) == 1..p \subseteq seeing

\* A part of a text that begins where items do is a part of the items.
LEMMA PartOfText ==
  ASSUME NEW text \in Seq(STRING), NEW items \in Seq(STRING), NEW at \in Nat \ {0},
         PartAt(items, text, at),
         NEW n \in 0..Len(items)
  PROVE  SubSeq(items, 1, n) = SubSeq(text, at, at + n - 1)
<1> DEFINE a == SubSeq(items, 1, n)
           b == SubSeq(text, at, at + n - 1)
<1>0. /\ Len(items) \in Nat /\ Len(text) \in Nat
      /\ at + Len(items) - 1 <= Len(text)
      /\ \A i \in 1..Len(items) : items[i] = text[at + i - 1]
  BY LenProperties DEF PartAt
<1>1. a \in Seq(STRING) /\ Len(a) = n /\ \A i \in 1..n : a[i] = items[i]
  <2>1. \A i \in 1..n : items[i] \in STRING
    BY <1>0, ElementOfSeq
  <2> QED BY <1>0, <2>1, SubSeqProperties, Z3
<1>2. b \in Seq(STRING) /\ Len(b) = n /\ \A i \in 1..n : b[i] = text[at + i - 1]
  <2>1. \A i \in at..at + n - 1 : text[i] \in STRING
    BY <1>0, ElementOfSeq
  <2>2. at \in Int /\ at + n - 1 \in Int
    BY <1>0
  <2> HIDE DEF b
  <2>3. /\ b \in Seq(STRING)
        /\ Len(b) = IF at <= at + n - 1 THEN at + n - 1 - at + 1 ELSE 0
        /\ \A i \in 1..at + n - 1 - at + 1 : b[i] = text[at + i - 1]
    BY <2>1, <2>2, SubSeqProperties DEF b
  <2> QED BY <1>0, <2>3
<1> HIDE DEF a, b
<1>3. \A i \in 1..Len(a) : a[i] = b[i]
  <2>1. \A i \in 1..n : i \in 1..Len(items) /\ items[i] = text[at + i - 1]
    BY <1>0
  <2> QED BY <1>1, <1>2, <2>1
<1>4. a = b
  BY <1>1, <1>2, <1>3, SeqEqual
<1> QED BY <1>4 DEF a, b

\* The beginning of a beginning is a beginning.
LEMMA BeginningOfBeginning ==
  ASSUME NEW text \in Seq(STRING), NEW n \in 0..Len(text), NEW k \in 0..n
  PROVE  /\ SubSeq(text, 1, n) \in Seq(STRING)
         /\ Len(SubSeq(text, 1, n)) = n
         /\ SubSeq(SubSeq(text, 1, n), 1, k) = SubSeq(text, 1, k)
<1> DEFINE b == SubSeq(text, 1, n)
<1>0. Len(text) \in Nat
  BY LenProperties
<1>1. \A i \in 1..n : text[i] \in STRING
  BY <1>0, ElementOfSeq
<1>2. b \in Seq(STRING) /\ Len(b) = n /\ \A i \in 1..n : b[i] = text[i]
  BY <1>0, <1>1, SubSeqProperties, Z3
<1> HIDE DEF b
<1>3. SubSeq(b, 1, k) = SubSeq(text, 1, k)
  <2>1. b \in Seq(STRING) /\ 1 \in Nat \ {0} /\ k \in 0..n
    BY <1>2
  <2>2. CASE k = 0
    BY <2>2, SubSeqEmpty
  <2>3. CASE k > 0
    <3> DEFINE c == SubSeq(b, 1, k)
               d == SubSeq(text, 1, k)
    <3>1. c \in Seq(STRING) /\ Len(c) = k /\ \A i \in 1..k : c[i] = text[i]
      <4>1. \A i \in 1..k : b[i] \in STRING
        BY <1>0, <1>1, <1>2
      <4> QED BY <1>0, <1>2, <4>1, SubSeqProperties, Z3
    <3>2. d \in Seq(STRING) /\ Len(d) = k /\ \A i \in 1..k : d[i] = text[i]
      <4>1. \A i \in 1..k : text[i] \in STRING
        BY <1>0, <1>1
      <4> QED BY <1>0, <4>1, SubSeqProperties, Z3
    <3> HIDE DEF c, d
    <3>3. c = d
      BY <3>1, <3>2, SeqEqual
    <3> QED BY <3>3 DEF c, d
  <2> QED BY <1>0, <2>2, <2>3
<1> QED BY <1>2, <1>3 DEF b

\* A row that is written after rows that are true of a text, and that sees no
\* more than they, is true of the text.
LEMMA RowTrue ==
  ASSUME NEW text \in Seq(STRING), NEW items \in Seq(STRING), NEW at \in Nat \ {0},
         PartAt(items, text, at), NEW rows, TrueTo(rows, text, at - 1),
         NEW seeing, NEW p \in at..at + Len(items) - 1, Sees(seeing, p)
  PROVE  Row(rows, seeing, at, items, p) = SubSeq(text, 1, p)
<1> DEFINE head == SubSeq(text, 1, at - 1)
           n == p - at + 1
<1>0. /\ Len(items) \in Nat /\ Len(text) \in Nat
      /\ at - 1 \in 0..Len(text) /\ n \in 0..Len(items) /\ p \in Nat
      /\ at + n - 1 = p /\ p <= Len(text)
  <2>1. Len(items) \in Nat /\ Len(text) \in Nat /\ at + Len(items) - 1 <= Len(text)
    BY LenProperties DEF PartAt
  <2> QED BY <2>1
<1>1. Before(rows, at) = head
  <2>1. CASE at = 1
    <3>1. head = <<>>
      BY <2>1, SubSeqEmpty
    <3> QED BY <2>1, <3>1 DEF Before
  <2>2. CASE at # 1
    <3>1. at - 1 \in 1..at - 1
      BY <2>2
    <3> QED BY <2>2, <3>1 DEF Before, TrueTo
  <2> QED BY <2>1, <2>2
<1>2. TextUpTo(rows, at)
  <2>1. Len(head) = at - 1
    BY <1>0, BeginningOfBeginning
  <2>2. \A j \in 1..at - 1 : rows[j] = SubSeq(head, 1, j)
    BY <1>0, BeginningOfBeginning DEF TrueTo
  <2> QED BY <1>1, <2>1, <2>2 DEF TextUpTo
<1>3. SubSeq(items, 1, n) = SubSeq(text, at, p)
  BY <1>0, PartOfText
<1>4. head \o SubSeq(text, at, p) = SubSeq(text, 1, p)
  <2>1. /\ 1 \in 1..Len(text) + 1 /\ at - 1 \in 1 - 1..Len(text)
        /\ p \in at - 1..Len(text) /\ (at - 1) + 1 = at
    BY <1>0
  <2> QED BY <2>1, ConcatAdjacentSubSeq
<1> QED BY <1>0, <1>1, <1>2, <1>3, <1>4 DEF Row, Sees

-----------------------------------------------------------------------------
(* Where the call is.                                                      *)

Text == prompt \o tokens

Typed ==
  /\ prompt \in Seq(STRING) /\ tokens \in Seq(STRING)
  /\ pos \in Nat \ {0} /\ sPos \in Nat \ {0}

InCall == Fit(prompt) /\ Len(prompt) >= 1 /\ Len(tokens) <= MaxNewTokens

\* The position of a call is that of the next token, or of the one in hand.
Places ==
  /\ pc = "prefill" => InCall /\ Len(tokens) = 0 /\ pos = Len(prompt) + 1
  /\ pc = "sample" => InCall /\ Len(tokens) < MaxNewTokens /\ pos = Len(prompt) + Len(tokens) + 1
  /\ pc \in {"capture", "decode"} =>
       InCall /\ Len(tokens) >= 1 /\ sPos = pos /\ pos = Len(prompt) + Len(tokens)
  /\ pc = "head" => InCall /\ Len(tokens) >= 1 /\ pos = Len(prompt) + Len(tokens) + 1

LEMMA Limits ==
  /\ MaxNewTokens \in Nat \ {0} /\ MaxCacheLen \in Nat /\ Margin \in Nat
  /\ Queries \in Seq(STRING) /\ Len(Queries) \in Nat \ {0} /\ Len(Queries) <= Margin
  /\ EOS \in STRING /\ \A t \in Tokens : t \in STRING
  /\ \A p \in Prompts : p \in Seq(STRING) /\ Len(p) >= 1
  /\ \A text \in Seq(STRING) : Len(text) \in Nat
<1>1. \A text \in Seq(STRING) : Len(text) \in Nat /\ (text # <<>> => Len(text) \in Nat \ {0})
  BY EmptySeq, LenProperties
<1>2. Queries \in Seq(STRING) /\ Queries # <<>> /\ \A p \in Prompts : p \in Seq(STRING) /\ p # <<>>
  BY FastAssumption DEF FastAssumption
<1>3. Len(Queries) \in Nat \ {0} /\ \A p \in Prompts : Len(p) >= 1
  BY <1>1, <1>2
<1>4. /\ MaxNewTokens \in Nat \ {0} /\ MaxCacheLen \in Nat
      /\ Margin \in Nat /\ Len(Queries) <= Margin
      /\ EOS \in STRING /\ \A t \in Tokens : t \in STRING
  BY FastAssumption DEF FastAssumption
<1> QED BY <1>1, <1>2, <1>3, <1>4

\* A word more.
LEMMA AWordMore ==
  ASSUME NEW text \in Seq(STRING), NEW t \in STRING
  PROVE  /\ Append(text, t) \in Seq(STRING) /\ Len(Append(text, t)) = Len(text) + 1
         /\ Append(text, t)[Len(text) + 1] = t
  BY AppendProperties

LEMMA InitPlaces == Init => Typed /\ Places
<1> SUFFICES ASSUME Init PROVE Typed /\ Places
  OBVIOUS
<1>1. prompt = <<>> /\ tokens = <<>> /\ pos = 1 /\ sPos = 1 /\ pc \in {"optimize", "accelerate", "idle"}
  BY DEF Init
<1>2. <<>> \in Seq(STRING)
  BY EmptySeq
<1> QED BY <1>1, <1>2 DEF Typed, Places

LEMMA NextPlaces ==
  ASSUME Typed, Places, [Next]_vars
  PROVE  Typed' /\ Places'
<1> USE Limits DEF Typed, Places, InCall, Fit, setup, tensors, locals
<1>1. CASE Patching
  BY <1>1 DEF Patching, ForceSdpa, OptimizeRaises, Install, Accelerate
<1>2. CASE Call
  <2>1. PICK p \in Prompts : Fit(p) /\ Called(p) /\ pos' = Len(p) + 1
    BY <1>2 DEF Call
  <2>2. tokens' = <<>> /\ prompt' = p /\ sPos' = sPos /\ pc' = "prefill"
    BY <1>2, <2>1 DEF Call, Called
  <2>3. tokens' \in Seq(STRING) /\ Len(tokens') = 0
    BY <2>2, EmptySeq
  <2> QED BY <2>1, <2>2, <2>3
<1>3. CASE SlowCall
  <2>1. PICK p \in Prompts : Called(p)
    BY <1>3 DEF SlowCall
  <2>2. tokens' = <<>> /\ prompt' = p /\ sPos' = sPos /\ pos' = pos /\ pc' = "slow"
    BY <1>3, <2>1 DEF SlowCall, Called
  <2>3. tokens' \in Seq(STRING)
    BY <2>2, EmptySeq
  <2> QED BY <2>1, <2>2, <2>3
<1>4. CASE Prefill
  BY <1>4 DEF Prefill
<1>5. CASE Sample
  <2>1. PICK t \in Tokens : tokens' = Append(tokens, t)
    BY <1>5 DEF Sample
  <2>2. tokens' \in Seq(STRING) /\ Len(tokens') = Len(tokens) + 1
    BY <2>1, AWordMore
  <2>3. /\ pc = "sample" /\ pc' \in {"capture", "decode"}
        /\ prompt' = prompt /\ pos' = pos /\ sPos' = pos
    BY <1>5 DEF Sample
  <2> QED BY <2>2, <2>3
<1>6. CASE Capture
  BY <1>6 DEF Capture
<1>7. CASE Decode
  <2>1. /\ pc = "decode" /\ pc' = IF Said(tokens) THEN "head" ELSE "sample"
        /\ prompt' = prompt /\ tokens' = tokens /\ pos' = pos + 1 /\ sPos' = sPos
    BY <1>7 DEF Decode
  <2>2. ~Said(tokens) => Len(tokens) # MaxNewTokens
    BY DEF Said
  <2> QED BY <2>1, <2>2
<1>8. CASE DrivingHead
  BY <1>8 DEF DrivingHead
<1>9. CASE Raise
  BY <1>9 DEF Raise
<1>10. CASE SlowSample
  <2>1. PICK t \in Tokens : tokens' = Append(tokens, t)
    BY <1>10 DEF SlowSample
  <2>2. tokens' \in Seq(STRING)
    BY <2>1, AWordMore
  <2>3. pc' \in {"slowHead", "slow"} /\ prompt' = prompt /\ pos' = pos /\ sPos' = sPos
    BY <1>10 DEF SlowSample
  <2> QED BY <2>2, <2>3
<1>11. CASE SlowHead
  BY <1>11 DEF SlowHead
<1>12. CASE UNCHANGED vars
  BY <1>12 DEF vars
<1> QED
  BY <1>1, <1>2, <1>3, <1>4, <1>5, <1>6, <1>7, <1>8, <1>9, <1>10, <1>11, <1>12
  DEF Next, Fast, Slow

LEMMA PlacesInCache == Typed /\ Places => InCache
  BY Limits DEF Typed, Places, InCall, Fit, InCache, LastQuery

\* No row is written past the end of the cache, for any prompt that is let in
\* and any limits that leave room for the queries of the driving head.
THEOREM StaysInCache == Spec => []InCache
<1>1. Init => Typed /\ Places
  BY InitPlaces
<1>2. Typed /\ Places /\ [Next]_vars => (Typed /\ Places)'
  BY NextPlaces
<1>3. Typed /\ Places => InCache
  BY PlacesInCache
<1> QED BY <1>1, <1>2, <1>3, PTL DEF Spec

-----------------------------------------------------------------------------
(* What the cache says.                                                    *)

\* The mask leaves the rows that are true of the text so far; the row of the
\* token in hand may be anything until its step is done.
Rows ==
  /\ pc = "sample" => mask = 1..pos - 1 /\ TrueTo(cache, Text, pos - 1) /\ hidden = Text
  /\ pc \in {"capture", "decode"} =>
       mask = 1..pos /\ TrueTo(cache, Text, pos - 1) /\ sEmb = tokens[Len(tokens)]
  /\ pc = "head" => mask = 1..pos - 1 /\ TrueTo(cache, Text, pos - 1)

\* What is written after true rows makes them true as far as it goes.
LEMMA WrittenTrue ==
  ASSUME NEW text \in Seq(STRING), NEW items \in Seq(STRING), NEW at \in Nat \ {0},
         PartAt(items, text, at), at + Len(items) - 1 <= MaxCacheLen,
         NEW rows, TrueTo(rows, text, at - 1),
         NEW seeing, 1..at + Len(items) - 1 \subseteq seeing
  PROVE  TrueTo(Written(rows, seeing, at, items), text, at + Len(items) - 1)
<1> SUFFICES ASSUME NEW j \in 1..at + Len(items) - 1
             PROVE  Written(rows, seeing, at, items)[j] = SubSeq(text, 1, j)
  BY DEF TrueTo
<1>0. Len(items) \in Nat /\ MaxCacheLen \in Nat
  BY Limits
<1>1. j \in Slots
  BY <1>0 DEF Slots
<1>2. Written(rows, seeing, at, items)[j] =
        IF j \in at..at + Len(items) - 1 THEN Row(rows, seeing, at, items, j) ELSE rows[j]
  BY <1>1 DEF Written
<1>3. CASE j \in at..at + Len(items) - 1
  <2>1. Sees(seeing, j)
    BY <1>0 DEF Sees
  <2>2. Row(rows, seeing, at, items, j) = SubSeq(text, 1, j)
    BY <1>3, <2>1, RowTrue
  <2> QED BY <1>2, <1>3, <2>2
<1>4. CASE j \notin at..at + Len(items) - 1
  <2>1. j \in 1..at - 1
    BY <1>0, <1>4
  <2>2. rows[j] = SubSeq(text, 1, j)
    BY <2>1 DEF TrueTo
  <2> QED BY <1>2, <1>4, <2>2
<1> QED BY <1>3, <1>4

\* Rows before those that are written stay as they are.
LEMMA WrittenBefore ==
  ASSUME NEW at \in Nat \ {0}, at <= MaxCacheLen, NEW items, NEW rows, NEW text, NEW seeing,
         TrueTo(rows, text, at - 1)
  PROVE  TrueTo(Written(rows, seeing, at, items), text, at - 1)
<1> SUFFICES ASSUME NEW j \in 1..at - 1
             PROVE  Written(rows, seeing, at, items)[j] = SubSeq(text, 1, j)
  BY DEF TrueTo
<1>1. j \in Slots /\ j \notin at..at + Len(items) - 1
  BY Limits DEF Slots
<1>2. Written(rows, seeing, at, items)[j] = rows[j]
  BY <1>1 DEF Written
<1> QED BY <1>2 DEF TrueTo

LEMMA TextIs ==
  ASSUME Typed
  PROVE  /\ Text \in Seq(STRING) /\ Len(Text) = Len(prompt) + Len(tokens)
         /\ Len(tokens) = 0 => Text = prompt
         /\ Len(tokens) >= 1 => Text[Len(Text)] = tokens[Len(tokens)]
<1>0. Len(prompt) \in Nat /\ Len(tokens) \in Nat
  BY Limits DEF Typed
<1>1. /\ Text \in Seq(STRING) /\ Len(Text) = Len(prompt) + Len(tokens)
      /\ \A i \in 1..Len(prompt) + Len(tokens) :
           Text[i] = IF i <= Len(prompt) THEN prompt[i] ELSE tokens[i - Len(prompt)]
  BY ConcatProperties DEF Typed, Text
<1>2. ASSUME Len(tokens) = 0 PROVE Text = prompt
  <2>1. tokens = <<>>
    BY <1>2, EmptySeq DEF Typed
  <2> QED BY <2>1, ConcatEmptySeq DEF Typed, Text
<1>3. ASSUME Len(tokens) >= 1 PROVE Text[Len(Text)] = tokens[Len(tokens)]
  <2>1. Len(Text) \in 1..Len(prompt) + Len(tokens) /\ ~(Len(Text) <= Len(prompt))
        /\ Len(Text) - Len(prompt) = Len(tokens)
    BY <1>0, <1>1, <1>3
  <2> QED BY <1>1, <2>1
<1> QED BY <1>1, <1>2, <1>3

\* A text of true rows is true of itself with a word more.
LEMMA SaidOn ==
  ASSUME Typed, NEW t \in STRING, NEW n \in Nat, n <= Len(Text),
         TrueTo(cache, Text, n)
  PROVE  TrueTo(cache, prompt \o Append(tokens, t), n)
<1>0. Len(Text) \in Nat /\ Text \in Seq(STRING) /\ <<t>> \in Seq(STRING)
  <2>1. <<t>> = Append(<<>>, t)
    OBVIOUS
  <2> QED BY <2>1, TextIs, Limits, EmptySeq, AWordMore
<1>1. prompt \o Append(tokens, t) = Text \o <<t>>
  <2>1. Append(tokens, t) = tokens \o <<t>>
    BY AppendIsConcat DEF Typed
  <2> QED BY <1>0, <2>1, ConcatAssociative DEF Typed, Text
<1>2. ASSUME NEW j \in 1..n PROVE cache[j] = SubSeq(Text \o <<t>>, 1, j)
  <2>1. j \in 1..Len(Text) /\ 1 \in 1..Len(Text)
    BY <1>0
  <2>2. SubSeq(Text \o <<t>>, 1, j) = SubSeq(Text, 1, j)
    BY <1>0, <2>1, SubSeqOfConcat1
  <2> QED BY <2>2 DEF TrueTo
<1> QED BY <1>1, <1>2 DEF TrueTo

\* The queries of the driving head go on where the text ends.
LEMMA QueriesGoOn ==
  ASSUME Typed, Places, Rows, pc = "head", NEW seeing, seeing = mask \cup pos..LastQuery
  PROVE  Written(cache, seeing, pos, Queries)[LastQuery] = prompt \o tokens \o Queries
<1> DEFINE whole == Text \o Queries
<1>0. /\ Len(prompt) \in Nat /\ Len(tokens) \in Nat /\ Len(Queries) \in Nat \ {0}
      /\ pos = Len(Text) + 1 /\ LastQuery = Len(Text) + Len(Queries) /\ Len(Text) \in Nat
      /\ LastQuery <= MaxCacheLen /\ pos \in Nat \ {0}
  <2>1. Len(prompt) \in Nat /\ Len(tokens) \in Nat /\ Len(Queries) \in Nat \ {0}
        /\ Len(Queries) <= Margin /\ Margin \in Nat /\ MaxCacheLen \in Nat
        /\ MaxNewTokens \in Nat
    BY Limits DEF Typed
  <2>2. Len(Text) = Len(prompt) + Len(tokens)
    BY TextIs
  <2>3. /\ pos = Len(prompt) + Len(tokens) + 1 /\ Len(tokens) <= MaxNewTokens
        /\ Len(prompt) + MaxNewTokens + Margin <= MaxCacheLen
    BY DEF Places, InCall, Fit
  <2> QED BY <2>1, <2>2, <2>3 DEF LastQuery
<1>1. /\ whole \in Seq(STRING) /\ Len(whole) = LastQuery
      /\ \A i \in 1..LastQuery :
           whole[i] = IF i <= Len(Text) THEN Text[i] ELSE Queries[i - Len(Text)]
  BY <1>0, Limits, TextIs, ConcatProperties
<1>2. TrueTo(cache, whole, pos - 1)
  <2>1. ASSUME NEW j \in 1..pos - 1 PROVE cache[j] = SubSeq(whole, 1, j)
    <3>1. j \in 1..Len(Text) /\ 1 \in 1..Len(Text)
      BY <1>0
    <3>2. SubSeq(whole, 1, j) = SubSeq(Text, 1, j)
      BY <1>0, <3>1, Limits, TextIs, SubSeqOfConcat1
    <3> QED BY <3>2 DEF Rows, TrueTo
  <2> QED BY <2>1 DEF TrueTo
<1> HIDE DEF whole
<1>3. PartAt(Queries, whole, pos)
  <2>1. ASSUME NEW i \in 1..Len(Queries) PROVE Queries[i] = whole[pos + i - 1]
    <3>1. pos + i - 1 \in 1..LastQuery /\ ~(pos + i - 1 <= Len(Text))
          /\ (pos + i - 1) - Len(Text) = i
      BY <1>0
    <3> QED BY <1>1, <3>1
  <2>2. pos + Len(Queries) - 1 <= Len(whole)
    BY <1>0, <1>1
  <2> QED BY <2>1, <2>2 DEF PartAt
<1>4. 1..LastQuery \subseteq seeing
  BY <1>0 DEF Rows
<1>5. LastQuery = pos + Len(Queries) - 1 /\ LastQuery \in 1..LastQuery
  BY <1>0 DEF LastQuery
<1>6. TrueTo(Written(cache, seeing, pos, Queries), whole, LastQuery)
  <2>1. Queries \in Seq(STRING)
    BY Limits
  <2> QED BY <1>0, <1>1, <1>2, <1>3, <1>4, <1>5, <2>1, WrittenTrue
<1>7. SubSeq(whole, 1, LastQuery) = whole
  BY <1>1, SubSeqFull
<1> QED BY <1>5, <1>6, <1>7 DEF TrueTo, whole, Text

\* A decode step makes the row of the token in hand true.
LEMMA StepWritesText ==
  ASSUME Typed, Places, Rows, pc = "decode"
  PROVE  TrueTo(Stepped, Text, pos) /\ Stepped[sPos] = Text
<1>0. /\ Len(prompt) \in Nat /\ Len(tokens) \in Nat \ {0} /\ sPos = pos /\ pos = Len(Text)
      /\ pos \in Nat \ {0} /\ pos <= MaxCacheLen /\ mask = 1..pos
      /\ sEmb = Text[pos] /\ Text \in Seq(STRING)
  BY Limits, TextIs DEF Typed, Places, InCall, Fit, Rows
<1> DEFINE items == <<sEmb>>
<1>1. Len(items) = 1 /\ items[1] = sEmb /\ items \in Seq(STRING)
  <2>1. sEmb \in STRING
    BY <1>0, ElementOfSeq
  <2> QED BY <2>1
<1>2. PartAt(items, Text, pos)
  BY <1>0, <1>1 DEF PartAt
<1>3. TrueTo(cache, Text, pos - 1)
  BY DEF Rows
<1> HIDE DEF items
<1>4. pos + Len(items) - 1 = pos
  BY <1>0, <1>1
<1>5. 1..pos \subseteq mask
  BY <1>0
<1>6. TrueTo(Written(cache, mask, pos, items), Text, pos)
  BY <1>0, <1>1, <1>2, <1>3, <1>4, <1>5, WrittenTrue
<1>7. TrueTo(Stepped, Text, pos)
  BY <1>0, <1>6 DEF Stepped, items
<1>8. SubSeq(Text, 1, pos) = Text /\ pos \in 1..pos
  BY <1>0, SubSeqFull
<1> QED BY <1>0, <1>7, <1>8 DEF TrueTo

\* The prefill makes the rows of the prompt true, whatever was in the cache.
LEMMA PrefillWritesPrompt ==
  ASSUME Typed, Places, pc = "prefill", NEW rows
  PROVE  LET written == Written(rows, 1..Len(prompt), 1, prompt)
         IN  TrueTo(written, Text, pos - 1) /\ written[Len(prompt)] = Text /\ pos - 1 = Len(prompt)
<1> DEFINE written == Written(rows, 1..Len(prompt), 1, prompt)
<1>0. /\ Len(prompt) \in Nat \ {0} /\ pos - 1 = Len(prompt) /\ Text = prompt
      /\ prompt \in Seq(STRING) /\ Len(prompt) <= MaxCacheLen
  BY Limits, TextIs DEF Typed, Places, InCall, Fit
<1>1. PartAt(prompt, prompt, 1)
  BY <1>0 DEF PartAt
<1>2. TrueTo(rows, prompt, 1 - 1)
  BY DEF TrueTo
<1>3. 1 + Len(prompt) - 1 = Len(prompt) /\ 1 \in Nat \ {0}
      /\ 1..Len(prompt) \subseteq 1..Len(prompt)
  BY <1>0
<1>4. TrueTo(written, prompt, Len(prompt))
  BY <1>0, <1>1, <1>2, <1>3, WrittenTrue
<1>5. SubSeq(prompt, 1, Len(prompt)) = prompt /\ Len(prompt) \in 1..Len(prompt)
  BY <1>0, SubSeqFull
<1> QED BY <1>0, <1>4, <1>5 DEF TrueTo

LEMMA NextRows ==
  ASSUME Typed, Places, Rows, [Next]_vars
  PROVE  Rows'
<1>1. CASE Patching
  <2>1. pc' \in {"install", "compile", "idle"}
    BY <1>1 DEF Patching, ForceSdpa, OptimizeRaises, Install, Accelerate
  <2> QED BY <2>1 DEF Rows
<1>2. CASE Call \/ SlowCall \/ SlowSample \/ SlowHead \/ DrivingHead \/ Raise
  <2>1. pc' \in {"prefill", "slow", "slowHead", "idle", "ended"}
    BY <1>2 DEF Call, SlowCall, SlowSample, SlowHead, DrivingHead, Raise
  <2> QED BY <2>1 DEF Rows
<1>3. CASE Prefill
  <2>1. /\ pc = "prefill" /\ pc' = "sample" /\ mask' = 1..Len(prompt)
        /\ cache' = Written([p \in Slots |-> <<>>], 1..Len(prompt), 1, prompt)
        /\ hidden' = cache'[Len(prompt)]
        /\ prompt' = prompt /\ tokens' = tokens /\ pos' = pos
    BY <1>3 DEF Prefill, locals
  <2>2. TrueTo(cache', Text, pos - 1) /\ hidden' = Text /\ pos - 1 = Len(prompt)
    BY <2>1, PrefillWritesPrompt
  <2>3. Text' = Text
    BY <2>1 DEF Text
  <2> QED BY <2>1, <2>2, <2>3 DEF Rows, TrueTo
<1>4. CASE Sample
  <2>1. PICK t \in Tokens : tokens' = Append(tokens, t) /\ sEmb' = t
    BY <1>4 DEF Sample
  <2>2. /\ pc = "sample" /\ pc' \in {"capture", "decode"} /\ mask' = mask \cup {pos}
        /\ cache' = cache /\ prompt' = prompt /\ pos' = pos
    BY <1>4 DEF Sample
  <2>3. t \in STRING /\ tokens \in Seq(STRING)
    BY Limits DEF Typed
  <2>4. sEmb' = tokens'[Len(tokens')]
    BY <2>1, <2>3, AWordMore
  <2>5. mask' = 1..pos
    BY <2>2 DEF Rows, Typed
  <2>6. pos - 1 \in Nat /\ pos - 1 <= Len(Text)
    BY <2>2, Limits, TextIs DEF Typed, Places
  <2>7. TrueTo(cache, prompt \o Append(tokens, t), pos - 1)
    BY <2>2, <2>3, <2>6, SaidOn DEF Rows
  <2>8. TrueTo(cache', Text', pos' - 1)
    BY <2>1, <2>2, <2>7 DEF Text
  <2> QED BY <2>2, <2>4, <2>5, <2>8 DEF Rows
<1>5. CASE Capture
  <2>1. /\ pc = "capture" /\ pc' = "decode" /\ cache' \in {cache, Stepped}
        /\ mask' = mask /\ sEmb' = sEmb /\ prompt' = prompt /\ tokens' = tokens /\ pos' = pos
    BY <1>5 DEF Capture, locals
  <2>2. sPos = pos /\ pos \in Nat \ {0} /\ pos <= MaxCacheLen
    BY <2>1, Limits DEF Typed, Places, InCall, Fit
  <2>3. TrueTo(cache, Text, pos - 1)
    BY <2>1 DEF Rows
  <2>4. TrueTo(Stepped, Text, pos - 1)
    BY <2>2, <2>3, WrittenBefore DEF Stepped
  <2>5. TrueTo(cache', Text, pos - 1)
    BY <2>1, <2>3, <2>4
  <2>6. Text' = Text
    BY <2>1 DEF Text
  <2> QED BY <2>1, <2>5, <2>6 DEF Rows, TrueTo
<1>6. CASE Decode
  <2>1. /\ pc = "decode" /\ pc' \in {"head", "sample"} /\ cache' = Stepped
        /\ hidden' = cache'[sPos] /\ pos' = pos + 1
        /\ mask' = mask /\ prompt' = prompt /\ tokens' = tokens
    BY <1>6 DEF Decode
  <2>2. TrueTo(cache', Text, pos) /\ hidden' = Text
    BY <2>1, StepWritesText
  <2>3. Text' = Text /\ pos' - 1 = pos /\ mask = 1..pos
    BY <2>1 DEF Text, Rows, Typed
  <2> QED BY <2>1, <2>2, <2>3 DEF Rows, TrueTo
<1>7. CASE UNCHANGED vars
  BY <1>7 DEF vars, setup, tensors, locals, Rows, Text, TrueTo
<1> QED BY <1>1, <1>2, <1>3, <1>4, <1>5, <1>6, <1>7 DEF Next, Fast, Slow

-----------------------------------------------------------------------------
(* A step of the fast path is a step of the uncached model, or none.       *)

LEMMA InitMaps == Init => G!Init
  BY DEF Init, G!Init, Phase

LEMMA StepMaps ==
  ASSUME Typed, Places, Rows, [Next]_vars
  PROVE  [G!Next]_(G!gvars)
<1>1. CASE Patching
  <2>1. /\ pc \in {"optimize", "accelerate", "install", "compile"}
        /\ pc' \in {"install", "compile", "idle"}
        /\ UNCHANGED <<prompt, tokens, seen, plan>>
    BY <1>1 DEF Patching, ForceSdpa, OptimizeRaises, Install, Accelerate, locals
  <2>2. Phase = "idle" /\ Phase' = "idle"
    BY <2>1 DEF Phase
  <2> QED BY <2>1, <2>2 DEF G!gvars
<1>2. CASE Call \/ SlowCall
  <2>1. /\ pc = "idle" /\ pc' \in {"prefill", "slow"}
        /\ prompt' \in Prompts /\ tokens' = <<>> /\ seen' = <<>> /\ plan' = plan
    BY <1>2 DEF Call, SlowCall, Called
  <2>2. Phase = "idle" /\ Phase' = "sample"
    BY <2>1 DEF Phase
  <2> QED BY <2>1, <2>2 DEF G!Next, G!Ask
<1>3. CASE Prefill \/ Capture \/ Decode
  <2>1. UNCHANGED <<prompt, tokens, seen, plan>>
    BY <1>3 DEF Prefill, Capture, Decode, locals
  <2>2. \/ pc = "prefill" /\ pc' = "sample"
        \/ pc = "capture" /\ pc' = "decode"
        \/ pc = "decode" /\ pc' = IF Said(tokens) THEN "head" ELSE "sample"
    BY <1>3 DEF Prefill, Capture, Decode
  <2>3. Phase' = Phase
    BY <2>1, <2>2 DEF Phase, Said
  <2> QED BY <2>1, <2>3 DEF G!gvars
<1>4. CASE Sample
  <2>1. PICK t \in Tokens : tokens' = Append(tokens, t)
    BY <1>4 DEF Sample
  <2>2. /\ pc = "sample" /\ pc' \in {"capture", "decode"} /\ seen' = hidden
        /\ prompt' = prompt /\ plan' = plan
    BY <1>4 DEF Sample
  <2>3. Phase = "sample" /\ Phase' = IF G!Said(tokens') THEN "head" ELSE "sample"
    BY <2>2 DEF Phase, Said, G!Said
  <2>4. seen' = prompt \o tokens
    BY <2>2 DEF Rows, Text
  <2>5. G!Sample
    BY <2>1, <2>2, <2>3, <2>4 DEF G!Sample
  <2> QED BY <2>5 DEF G!Next
<1>5. CASE DrivingHead
  <2>1. /\ pc = "head" /\ pc' = "idle"
        /\ plan' = Written(cache, mask \cup pos..LastQuery, pos, Queries)[LastQuery]
        /\ UNCHANGED <<prompt, tokens, seen>>
    BY <1>5 DEF DrivingHead, locals
  <2>2. plan' = prompt \o tokens \o Queries
    BY <2>1, QueriesGoOn
  <2>3. Phase = "head" /\ Phase' = "idle"
    BY <2>1 DEF Phase
  <2> QED BY <2>1, <2>2, <2>3 DEF G!Next, G!DrivingHead
<1>6. CASE Raise
  <2>1. /\ pc \in {"prefill", "sample", "capture", "decode", "head", "slow", "slowHead"}
        /\ pc' \in {"ended", "idle"}
        /\ UNCHANGED <<prompt, tokens, seen, plan>>
    BY <1>6 DEF Raise, Calling, locals
  <2>2. Phase # "idle" /\ Phase' = "idle"
    BY <2>1 DEF Phase
  <2> QED BY <2>1, <2>2 DEF G!Next, G!Raise
<1>7. CASE SlowSample
  <2>1. PICK t \in Tokens : tokens' = Append(tokens, t)
    BY <1>7 DEF SlowSample
  <2>2. /\ pc = "slow" /\ pc' = IF Said(tokens') THEN "slowHead" ELSE "slow"
        /\ seen' = prompt \o tokens /\ prompt' = prompt /\ plan' = plan
    BY <1>7 DEF SlowSample
  <2>3. Phase = "sample" /\ Phase' = IF G!Said(tokens') THEN "head" ELSE "sample"
    BY <2>2 DEF Phase, Said, G!Said
  <2>4. G!Sample
    BY <2>1, <2>2, <2>3 DEF G!Sample
  <2> QED BY <2>4 DEF G!Next
<1>8. CASE SlowHead
  <2>1. /\ pc = "slowHead" /\ pc' = "idle" /\ plan' = prompt \o tokens \o Queries
        /\ UNCHANGED <<prompt, tokens, seen>>
    BY <1>8 DEF SlowHead, locals
  <2>2. Phase = "head" /\ Phase' = "idle"
    BY <2>1 DEF Phase
  <2> QED BY <2>1, <2>2 DEF G!Next, G!DrivingHead
<1>9. CASE UNCHANGED vars
  BY <1>9 DEF vars, locals, G!gvars, Phase, Said
<1> QED
  BY <1>1, <1>2, <1>3, <1>4, <1>5, <1>6, <1>7, <1>8, <1>9 DEF Next, Fast, Slow

\* The fast path computes every token and every plan from what the model without
\* a cache computes it from, for prompts, answers and queries of any length, with
\* the graph or without, and after any sequence of frames that ended or broke off.
THEOREM CacheIsTransparent == Spec => Uncached
<1> DEFINE Inv == Typed /\ Places /\ Rows
<1>1. Init => Inv
  <2>1. Init => Rows
    BY DEF Init, Rows
  <2> QED BY <2>1, InitPlaces
<1>2. Inv /\ [Next]_vars => Inv'
  BY NextPlaces, NextRows
<1>3. Inv /\ [Next]_vars => [G!Next]_(G!gvars)
  BY StepMaps
<1>4. Init => G!Init
  BY InitMaps
<1> HIDE DEF Inv
<1> QED BY <1>1, <1>2, <1>3, <1>4, PTL DEF Spec, Uncached, G!Spec

-----------------------------------------------------------------------------
(* the two streams                                                         *)

Events == {"cur", "side"} \X Nat
Works  == ({"inputs", "action", "decision", "use"} \X Nat) \cup ({"record", "wait"} \X Events)

\* What is done, or has happened, once a piece of work is through; and what it
\* relies on: the recording of an event on the work that the event stands for.
Gives(w) == IF w[1] \in {"record", "wait"} THEN w[2] ELSE w
Needs(w) ==
  CASE w[1] = "action"   -> {<<"inputs", w[2]>>}
    [] w[1] = "decision" -> {<<"cur", w[2]>>}
    [] w[1] = "use"      -> {<<"side", w[2]>>}
    [] w[1] = "record"   -> {IF w[2][1] = "cur" THEN <<"inputs", w[2][2]>> ELSE <<"decision", w[2][2]>>}
    [] OTHER             -> {}
Given(stream) == {Gives(stream[j]) : j \in 1..Len(stream)}

\* Whatever a piece of work relies on is done, or is before it in its stream.
InOrder(stream, there) ==
  \A i \in 1..Len(stream) : \A n \in Needs(stream[i]) :
    n \in there \/ \E j \in 1..i - 1 : Gives(stream[j]) = n

\* An event has not happened before what it stands for.
Backed(there) ==
  \A f \in Nat : /\ <<"cur", f>> \in there => <<"inputs", f>> \in there
                 /\ <<"side", f>> \in there => <<"decision", f>> \in there

OverlapInvariant ==
  /\ host \in 0..3 /\ frame \in Nat
  /\ cur \in Seq(Works) /\ side \in Seq(Works)
  /\ host # 0 => rounds = <<"action", "decision">>
  /\ host # 0 => <<"inputs", frame>> \in done \cup Given(cur)
  /\ host = 2 => ready = <<"cur", frame>>
  /\ InOrder(cur, done) /\ InOrder(side, done)
  /\ Backed(done)

LEMMA WorksAre ==
  ASSUME NEW f \in Nat
  PROVE  /\ <<"inputs", f>> \in Works /\ <<"action", f>> \in Works
         /\ <<"decision", f>> \in Works /\ <<"use", f>> \in Works
         /\ \A e \in Events : <<"record", e>> \in Works /\ <<"wait", e>> \in Works
         /\ <<"cur", f>> \in Events /\ <<"side", f>> \in Events
BY DEF Works, Events

LEMMA Appended ==
  ASSUME NEW s \in Seq(Works), NEW w \in Works, NEW there,
         InOrder(s, there), Needs(w) \subseteq there \cup Given(s)
  PROVE  /\ Append(s, w) \in Seq(Works) /\ InOrder(Append(s, w), there)
         /\ Given(Append(s, w)) = Given(s) \cup {Gives(w)}
<1> DEFINE t == Append(s, w)
<1>1. /\ Len(s) \in Nat /\ Len(t) = Len(s) + 1 /\ t \in Seq(Works)
      /\ t[Len(s) + 1] = w /\ \A i \in 1..Len(s) : t[i] = s[i]
  BY AppendProperties, LenProperties
<1> HIDE DEF t
<1>2. Given(t) = Given(s) \cup {Gives(w)}
  <2>1. 1..Len(t) = 1..Len(s) \cup {Len(s) + 1}
    BY <1>1
  <2> QED BY <1>1, <2>1 DEF Given
<1>3. ASSUME NEW i \in 1..Len(t), NEW n \in Needs(t[i])
      PROVE  n \in there \/ \E j \in 1..i - 1 : Gives(t[j]) = n
  <2>1. CASE i \in 1..Len(s)
    <3>1. n \in there \/ \E j \in 1..i - 1 : Gives(s[j]) = n
      BY <1>1, <2>1 DEF InOrder
    <3>2. 1..i - 1 \subseteq 1..Len(s)
      BY <1>1, <2>1
    <3> QED BY <1>1, <3>1, <3>2
  <2>2. CASE i = Len(s) + 1
    <3>1. n \in there \/ \E j \in 1..Len(s) : Gives(s[j]) = n
      BY <1>1, <2>2 DEF Given
    <3>2. i - 1 = Len(s)
      BY <1>1, <2>2
    <3> QED BY <1>1, <3>1, <3>2
  <2>3. i \in 1..Len(s) \/ i = Len(s) + 1
    BY <1>1
  <2> QED BY <2>1, <2>2, <2>3
<1> QED BY <1>1, <1>2, <1>3 DEF t, InOrder

LEMMA TwoAppended ==
  ASSUME NEW s \in Seq(Works), NEW a \in Works, NEW b \in Works
  PROVE  s \o <<a, b>> = Append(Append(s, a), b)
OBVIOUS

LEMMA ThreeAppended ==
  ASSUME NEW s \in Seq(Works), NEW a \in Works, NEW b \in Works, NEW c \in Works
  PROVE  s \o <<a, b, c>> = Append(Append(Append(s, a), b), c)
OBVIOUS

\* The first piece of work of a stream has what it needs when it is done.
LEMMA FirstWork ==
  ASSUME NEW s \in Seq(Works), InOrder(s, done), Work(s)
  PROVE  /\ Head(s) \in Works /\ Needs(Head(s)) \subseteq done
         /\ done' = done \cup {Gives(Head(s))}
         /\ Head(s)[1] = "wait" => done' = done
         /\ Tail(s) \in Seq(Works) /\ InOrder(Tail(s), done')
         /\ Given(s) \subseteq Given(Tail(s)) \cup done'
<1> DEFINE t == Tail(s)
           w == Head(s)
<1>1. /\ s # <<>> /\ Len(s) \in Nat \ {0} /\ w = s[1] /\ w \in Works
      /\ t \in Seq(Works) /\ Len(t) = Len(s) - 1
      /\ \A i \in 1..Len(s) - 1 : t[i] = s[i + 1]
  <2>1. s # <<>>
    BY DEF Work
  <2> QED BY <2>1, HeadTailProperties, EmptySeq, LenProperties, ElementOfSeq
<1>2. Needs(w) \subseteq done
  <2>1. 1 \in 1..Len(s) /\ 1..1 - 1 = {}
    BY <1>1
  <2> QED BY <1>1, <2>1 DEF InOrder
<1>3. done' = done \cup {Gives(w)} /\ (w[1] = "wait" => done' = done)
  <2>1. CASE w[1] = "wait"
    BY <2>1 DEF Work, Gives
  <2>2. CASE w[1] = "record"
    BY <2>2 DEF Work, Gives
  <2>3. CASE w[1] \notin {"wait", "record"}
    BY <2>3 DEF Work, Gives
  <2> QED BY <2>1, <2>2, <2>3
<1> HIDE DEF t, w
<1>4. ASSUME NEW i \in 1..Len(t), NEW n \in Needs(t[i])
      PROVE  n \in done' \/ \E j \in 1..i - 1 : Gives(t[j]) = n
  <2>0. i \in Nat /\ i <= Len(s) - 1 /\ i + 1 \in 1..Len(s) /\ (i + 1) - 1 = i /\ i \in 1..Len(s) - 1
    BY <1>1
  <2>1. t[i] = s[i + 1]
    BY <1>1, <2>0
  <2>2. n \in done \/ \E j \in 1..i : Gives(s[j]) = n
    BY <2>0, <2>1 DEF InOrder
  <2>3. ASSUME NEW j \in 1..i, Gives(s[j]) = n
        PROVE  n \in done' \/ \E k \in 1..i - 1 : Gives(t[k]) = n
    <3>1. CASE j = 1
      BY <1>1, <1>3, <2>3, <3>1
    <3>2. CASE j # 1
      <4>1. j - 1 \in 1..i - 1 /\ j - 1 \in 1..Len(s) - 1 /\ (j - 1) + 1 = j
        BY <2>0, <3>2
      <4>2. t[j - 1] = s[j]
        BY <1>1, <4>1
      <4> QED BY <2>3, <4>1, <4>2
    <3> QED BY <3>1, <3>2
  <2> QED BY <1>3, <2>2, <2>3
<1>5. ASSUME NEW j \in 1..Len(s)
      PROVE  Gives(s[j]) \in Given(t) \cup done'
  <2>1. CASE j = 1
    BY <1>1, <1>3, <2>1
  <2>2. CASE j # 1
    <3>1. j - 1 \in 1..Len(t) /\ j - 1 \in 1..Len(s) - 1 /\ (j - 1) + 1 = j
      BY <1>1, <2>2
    <3>2. t[j - 1] = s[j]
      BY <1>1, <3>1
    <3> QED BY <3>1, <3>2 DEF Given
  <2> QED BY <2>1, <2>2
<1>6. Given(s) \subseteq Given(t) \cup done'
  BY <1>5 DEF Given
<1>7. InOrder(t, done')
  BY <1>4 DEF InOrder
<1> QED BY <1>1, <1>2, <1>3, <1>6, <1>7 DEF t, w

\* What a piece of work gives is what it is; and an event only by recording it.
LEMMA GivesItself ==
  ASSUME NEW w \in Works, NEW f \in Nat
  PROVE  /\ Gives(w) = <<"action", f>> => w = <<"action", f>>
         /\ Gives(w) = <<"decision", f>> => w = <<"decision", f>>
         /\ Gives(w) = <<"use", f>> => w = <<"use", f>>
         /\ Gives(w) = <<"cur", f>> => w[1] = "wait" \/ w = <<"record", <<"cur", f>>>>
         /\ Gives(w) = <<"side", f>> => w[1] = "wait" \/ w = <<"record", <<"side", f>>>>
<1>1. CASE w \in {"inputs", "action", "decision", "use"} \X Nat
  BY <1>1 DEF Gives
<1>2. CASE w \in {"record", "wait"} \X Events
  BY <1>2 DEF Gives, Events
<1> QED BY <1>1, <1>2 DEF Works

LEMMA NeedsAre ==
  ASSUME NEW f \in Nat
  PROVE  /\ Needs(<<"inputs", f>>) = {}
         /\ Needs(<<"action", f>>) = {<<"inputs", f>>}
         /\ Needs(<<"decision", f>>) = {<<"cur", f>>}
         /\ Needs(<<"use", f>>) = {<<"side", f>>}
         /\ Needs(<<"record", <<"cur", f>>>>) = {<<"inputs", f>>}
         /\ Needs(<<"record", <<"side", f>>>>) = {<<"decision", f>>}
         /\ \A e \in Events : Needs(<<"wait", e>>) = {}
BY DEF Needs

LEMMA GivesAre ==
  ASSUME NEW f \in Nat, NEW e \in Events
  PROVE  /\ Gives(<<"inputs", f>>) = <<"inputs", f>>
         /\ Gives(<<"action", f>>) = <<"action", f>>
         /\ Gives(<<"decision", f>>) = <<"decision", f>>
         /\ Gives(<<"use", f>>) = <<"use", f>>
         /\ Gives(<<"record", e>>) = e /\ Gives(<<"wait", e>>) = e
BY DEF Gives

LEMMA WorkBacked ==
  ASSUME Backed(done), NEW w \in Works, Needs(w) \subseteq done,
         done' = done \cup {Gives(w)}, w[1] = "wait" => done' = done
  PROVE  Backed(done')
<1> SUFFICES ASSUME NEW f \in Nat
             PROVE  /\ <<"cur", f>> \in done' => <<"inputs", f>> \in done'
                    /\ <<"side", f>> \in done' => <<"decision", f>> \in done'
  BY DEF Backed
<1>1. ASSUME <<"cur", f>> \in done' PROVE <<"inputs", f>> \in done'
  <2>1. CASE <<"cur", f>> \in done
    BY <2>1 DEF Backed
  <2>2. CASE <<"cur", f>> \notin done
    <3>1. Gives(w) = <<"cur", f>> /\ w[1] # "wait"
      BY <1>1, <2>2
    <3>2. w = <<"record", <<"cur", f>>>>
      BY <3>1, GivesItself
    <3> QED BY <3>2, NeedsAre
  <2> QED BY <2>1, <2>2
<1>2. ASSUME <<"side", f>> \in done' PROVE <<"decision", f>> \in done'
  <2>1. CASE <<"side", f>> \in done
    BY <2>1 DEF Backed
  <2>2. CASE <<"side", f>> \notin done
    <3>1. Gives(w) = <<"side", f>> /\ w[1] # "wait"
      BY <1>2, <2>2
    <3>2. w = <<"record", <<"side", f>>>>
      BY <3>1, GivesItself
    <3> QED BY <3>2, NeedsAre
  <2> QED BY <2>1, <2>2
<1> QED BY <1>1, <1>2

LEMMA OverlapStarts == OverlapInit => OverlapInvariant
<1> SUFFICES ASSUME OverlapInit PROVE OverlapInvariant
  OBVIOUS
<1>1. host = 0 /\ frame = 0 /\ cur = <<>> /\ side = <<>> /\ done = {}
  BY DEF OverlapInit
<1>2. <<>> \in Seq(Works) /\ 1..Len(<<>>) = {}
  OBVIOUS
<1>3. InOrder(<<>>, done)
  BY <1>2 DEF InOrder
<1> QED BY <1>1, <1>2, <1>3 DEF OverlapInvariant, Backed

\* A piece of work is done: nothing that is queued is worse off.
LEMMA StaysInOrder ==
  ASSUME NEW s, NEW there, NEW more, InOrder(s, there), there \subseteq more
  PROVE  InOrder(s, more)
BY DEF InOrder

LEMMA OverlapSteps == OverlapInvariant /\ [OverlapNext]_overlapVars => OverlapInvariant'
<1> SUFFICES ASSUME OverlapInvariant, [OverlapNext]_overlapVars PROVE OverlapInvariant'
  OBVIOUS
<1> USE DEF OverlapInvariant
<1>1. CASE Begin
  <2>1. frame' \in Nat /\ frame' = frame + 1 /\ host' = 1 /\ host = 0 /\ UNCHANGED <<ready, side, done>>
    BY <1>1 DEF Begin
  <2>2. rounds' = <<"action", "decision">>
    BY <1>1 DEF Begin, Reorder, Upstream
  <2>3. cur' = Append(cur, <<"inputs", frame'>>)
    BY <1>1 DEF Begin
  <2>4. Needs(<<"inputs", frame'>>) = {} /\ <<"inputs", frame'>> \in Works
        /\ Gives(<<"inputs", frame'>>) = <<"inputs", frame'>>
    <3>1. <<"cur", 0>> \in Events
      BY WorksAre
    <3> QED BY <2>1, <3>1, NeedsAre, WorksAre, GivesAre
  <2>5. cur' \in Seq(Works) /\ InOrder(cur', done) /\ <<"inputs", frame'>> \in Given(cur')
    BY <2>3, <2>4, Appended
  <2> QED BY <2>1, <2>2, <2>5
<1>2. CASE Action
  <2>0. host \in 1..2 /\ rounds[host] = "action" /\ rounds = <<"action", "decision">> /\ host = 1
    BY <1>2 DEF Action, Round
  <2>1. host' = 2 /\ UNCHANGED <<frame, rounds, side, done>> /\ ready' = <<"cur", frame>>
    BY <1>2, <2>0 DEF Action
  <2> DEFINE rec == <<"record", <<"cur", frame>>>>
             act == <<"action", frame>>
             one == Append(cur, rec)
  <2>2. rec \in Works /\ act \in Works /\ <<"cur", frame>> \in Events
    BY WorksAre
  <2>3. cur' = Append(one, act)
    <3>1. cur' = cur \o <<rec, act>>
      BY <1>2, <2>1 DEF Action
    <3> QED BY <2>2, <3>1, TwoAppended
  <2>4. /\ Needs(rec) = {<<"inputs", frame>>} /\ Needs(act) = {<<"inputs", frame>>}
    BY NeedsAre
  <2>5. <<"inputs", frame>> \in done \cup Given(cur)
    BY <2>0
  <2> HIDE DEF rec, act
  <2>6. one \in Seq(Works) /\ InOrder(one, done) /\ Given(cur) \subseteq Given(one)
    BY <2>2, <2>4, <2>5, Appended
  <2> HIDE DEF one
  <2>7. cur' \in Seq(Works) /\ InOrder(cur', done) /\ Given(one) \subseteq Given(cur')
    <3>1. Needs(act) \subseteq done \cup Given(one)
      BY <2>4, <2>5, <2>6
    <3> QED BY <2>2, <2>3, <2>6, <3>1, Appended
  <2>8. <<"inputs", frame>> \in done \cup Given(cur')
    BY <2>5, <2>6, <2>7
  <2> QED BY <2>0, <2>1, <2>7, <2>8
<1> DEFINE wait == <<"wait", <<"cur", frame>>>>
           dec  == <<"decision", frame>>
           rec  == <<"record", <<"side", frame>>>>
           then == <<"wait", <<"side", frame>>>>
           use  == <<"use", frame>>
<1>a. wait \in Works /\ dec \in Works /\ rec \in Works /\ then \in Works /\ use \in Works
  BY WorksAre
<1>b. /\ Needs(wait) = {} /\ Needs(then) = {} /\ Needs(use) = {<<"side", frame>>}
      /\ Needs(dec) = {<<"cur", frame>>} /\ Needs(rec) = {<<"decision", frame>>}
      /\ Gives(wait) = <<"cur", frame>> /\ Gives(dec) = dec /\ Gives(then) = <<"side", frame>>
  BY NeedsAre, GivesAre, WorksAre
<1>c. ASSUME Round("decision")
      PROVE  /\ host = 2 /\ ready = <<"cur", frame>> /\ Awaited = <<"cur", frame>> /\ WithAwaited = cur
             /\ rounds = <<"action", "decision">>
  <2>1. host \in 1..2 /\ rounds[host] = "decision" /\ rounds = <<"action", "decision">>
    BY <1>c DEF Round
  <2>2. host = 2 /\ ready = <<"cur", frame>>
    BY <2>1
  <2>3. ready # NoEvent
    BY <2>2 DEF NoEvent
  <2> QED BY <2>1, <2>2, <2>3 DEF Awaited, WithAwaited
<1> DEFINE s1 == Append(side, wait)
           s2 == Append(s1, dec)
           s3 == Append(s2, rec)
<1>d. /\ s2 \in Seq(Works) /\ InOrder(s2, done)
      /\ s3 \in Seq(Works) /\ InOrder(s3, done)
      /\ side \o <<wait, dec>> = s2 /\ side \o <<wait, dec, rec>> = s3
  <2> HIDE DEF wait, dec, rec, OverlapInvariant
  <2>a. side \in Seq(Works) /\ InOrder(side, done)
    BY DEF OverlapInvariant
  <2>b. side \o <<wait, dec>> = s2
    BY <1>a, <2>a, TwoAppended
  <2>c. side \o <<wait, dec, rec>> = s3
    BY <1>a, <2>a, ThreeAppended
  <2>1. s1 \in Seq(Works) /\ InOrder(s1, done) /\ <<"cur", frame>> \in Given(s1)
    BY <1>a, <1>b, <2>a, Appended
  <2> HIDE DEF s1
  <2>2. s2 \in Seq(Works) /\ InOrder(s2, done) /\ dec \in Given(s2)
    <3>1. Needs(dec) \subseteq done \cup Given(s1)
      BY <1>b, <2>1
    <3>2. Given(Append(s1, dec)) = Given(s1) \cup {Gives(dec)}
      BY <1>a, <2>1, <3>1, Appended
    <3> QED BY <1>a, <1>b, <2>1, <3>1, <3>2, Appended
  <2>3. s3 \in Seq(Works) /\ InOrder(s3, done)
    <3> HIDE DEF s2
    <3>1. Needs(rec) \subseteq done \cup Given(s2)
      BY <1>b, <2>2 DEF dec
    <3> QED BY <1>a, <2>2, <3>1, Appended
  <2> QED BY <2>b, <2>c, <2>2, <2>3
<1> HIDE DEF s2, s3
<1>3. CASE Decision
  <2>0. host = 2 /\ ready = <<"cur", frame>> /\ Awaited = <<"cur", frame>> /\ WithAwaited = cur
        /\ rounds = <<"action", "decision">>
    BY <1>3, <1>c DEF Decision
  <2>1. host' = 3 /\ UNCHANGED <<frame, rounds, done>>
    BY <1>3, <2>0 DEF Decision
  <2>2. side' = s3
    BY <1>3, <2>0, <1>d DEF Decision
  <2> DEFINE c1 == Append(cur, then)
  <2>3. cur' = Append(c1, use)
    <3>1. cur' = cur \o <<then, use>>
      BY <1>3, <2>0 DEF Decision
    <3> QED BY <1>a, <3>1, TwoAppended
  <2> HIDE DEF then, use
  <2>4. c1 \in Seq(Works) /\ InOrder(c1, done) /\ Given(c1) = Given(cur) \cup {<<"side", frame>>}
    BY <1>a, <1>b, Appended
  <2> HIDE DEF c1
  <2>5. cur' \in Seq(Works) /\ InOrder(cur', done) /\ Given(c1) \subseteq Given(cur')
    BY <1>a, <1>b, <2>3, <2>4, Appended
  <2>6. <<"inputs", frame>> \in done \cup Given(cur')
    BY <2>0, <2>4, <2>5
  <2> QED BY <1>d, <2>0, <2>1, <2>2, <2>5, <2>6
<1>4. CASE Raises
  <2>1. host' = 0 /\ UNCHANGED <<frame, rounds, done>>
    BY <1>4 DEF Raises
  <2>2. CASE UNCHANGED <<ready, cur, side>>
    BY <2>1, <2>2
  <2>3. CASE Round("decision") /\ side' = side \o << <<"wait", Awaited>>, <<"decision", frame>> >>
             /\ cur' = WithAwaited /\ ready' = NoEvent
    <3>1. side' = s2 /\ cur' = cur
      BY <1>c, <1>d, <2>3
    <3> QED BY <1>d, <2>1, <3>1
  <2> QED BY <1>4, <2>2, <2>3 DEF Raises
<1>5. CASE Finish
  BY <1>5 DEF Finish
<1>6. CASE CurWorks
  <2>1. Work(cur) /\ cur' = Tail(cur) /\ UNCHANGED <<host, frame, rounds, ready, side>>
    BY <1>6 DEF CurWorks
  <2>2. /\ Head(cur) \in Works /\ Needs(Head(cur)) \subseteq done
        /\ done' = done \cup {Gives(Head(cur))}
        /\ Head(cur)[1] = "wait" => done' = done
        /\ cur' \in Seq(Works) /\ InOrder(cur', done')
        /\ Given(cur) \subseteq Given(cur') \cup done'
    BY <2>1, FirstWork
  <2>3. Backed(done')
    BY <2>2, WorkBacked
  <2>4. InOrder(side', done')
    BY <2>1, <2>2, StaysInOrder
  <2> QED BY <2>1, <2>2, <2>3, <2>4
<1>7. CASE SideWorks
  <2>1. Work(side) /\ side' = Tail(side) /\ UNCHANGED <<host, frame, rounds, ready, cur>>
    BY <1>7 DEF SideWorks
  <2>2. /\ Head(side) \in Works /\ Needs(Head(side)) \subseteq done
        /\ done' = done \cup {Gives(Head(side))}
        /\ Head(side)[1] = "wait" => done' = done
        /\ side' \in Seq(Works) /\ InOrder(side', done')
    BY <2>1, FirstWork
  <2>3. Backed(done')
    BY <2>2, WorkBacked
  <2>4. InOrder(cur', done')
    BY <2>1, <2>2, StaysInOrder
  <2> QED BY <2>1, <2>2, <2>3, <2>4
<1>8. CASE UNCHANGED overlapVars
  BY <1>8 DEF overlapVars
<1> QED BY <1>1, <1>2, <1>3, <1>4, <1>5, <1>6, <1>7, <1>8 DEF OverlapNext

\* Work that is done has found what it reads: itself, or an event before it that stands for that.
LEMMA ReadsWhatIsThere ==
  ASSUME NEW s \in Seq(Works), InOrder(s, done), Backed(done), Work(s), NEW f \in Nat
  PROVE  /\ <<"action", f>> \in done' \ done => <<"inputs", f>> \in done
         /\ <<"decision", f>> \in done' \ done => <<"inputs", f>> \in done
         /\ <<"use", f>> \in done' \ done => <<"decision", f>> \in done
<1>1. /\ Head(s) \in Works /\ Needs(Head(s)) \subseteq done
      /\ done' = done \cup {Gives(Head(s))}
  BY FirstWork
<1>2. ASSUME <<"action", f>> \in done' \ done PROVE <<"inputs", f>> \in done
  <2>1. Head(s) = <<"action", f>>
    BY <1>1, <1>2, GivesItself
  <2> QED BY <1>1, <2>1, NeedsAre
<1>3. ASSUME <<"decision", f>> \in done' \ done PROVE <<"inputs", f>> \in done
  <2>1. Head(s) = <<"decision", f>>
    BY <1>1, <1>3, GivesItself
  <2>2. <<"cur", f>> \in done
    BY <1>1, <2>1, NeedsAre
  <2> QED BY <2>2 DEF Backed
<1>4. ASSUME <<"use", f>> \in done' \ done PROVE <<"decision", f>> \in done
  <2>1. Head(s) = <<"use", f>>
    BY <1>1, <1>4, GivesItself
  <2>2. <<"side", f>> \in done
    BY <1>1, <2>1, NeedsAre
  <2> QED BY <2>2 DEF Backed
<1> QED BY <1>2, <1>3, <1>4

\* The steps of the other parts leave the streams alone.
LEMMA OnlyOverlapSteps == PartNext => [OverlapNext]_overlapVars
BY DEF PartNext

\* For any number of frames, some of which raise ...
THEOREM StreamsReadWhenThere == PartSpec => ReadWhenThere
<1>1. PartInit => OverlapInvariant
  BY OverlapStarts DEF PartInit
<1>2. OverlapInvariant /\ [PartNext]_allParts => OverlapInvariant'
  <2>1. [PartNext]_allParts => [OverlapNext]_overlapVars
    BY OnlyOverlapSteps DEF allParts
  <2> QED BY <2>1, OverlapSteps
<1>3. OverlapInvariant /\ [PartNext]_allParts =>
        [\A f \in 1..MaxFrames :
           /\ \A prefill \in {"action", "decision"} :
                <<prefill, f>> \in done' \ done => <<"inputs", f>> \in done
           /\ <<"use", f>> \in done' \ done => <<"decision", f>> \in done]_overlapVars
  <2> SUFFICES ASSUME OverlapInvariant, [OverlapNext]_overlapVars, ~ UNCHANGED overlapVars,
                      NEW f \in 1..MaxFrames
               PROVE  /\ <<"action", f>> \in done' \ done => <<"inputs", f>> \in done
                      /\ <<"decision", f>> \in done' \ done => <<"inputs", f>> \in done
                      /\ <<"use", f>> \in done' \ done => <<"decision", f>> \in done
    BY OnlyOverlapSteps DEF allParts
  <2>1. f \in Nat
    BY OverlapAssumption
  <2>2. CASE CurWorks \/ SideWorks
    <3>1. Work(cur) \/ Work(side)
      BY <2>2 DEF CurWorks, SideWorks
    <3> QED BY <2>1, <3>1, ReadsWhatIsThere DEF OverlapInvariant
  <2>3. CASE ~ (CurWorks \/ SideWorks)
    <3>1. done' = done
      BY <2>3 DEF OverlapNext, Begin, Action, Decision, Raises, Finish
    <3> QED BY <3>1
  <2> QED BY <2>2, <2>3
<1> QED BY <1>1, <1>2, <1>3, PTL DEF PartSpec, ReadWhenThere

-----------------------------------------------------------------------------
(* the model object                                                        *)

Forms    == {"absent", "weight", "transposed", "int8"}
Wrappers == {"compile", "graph", "graphs", "stagger", "slice", "overlap", "timer"}
Names    == {"nothing", "vit", "heads"} \cup Experts
Wrapped  == [on : Names, wraps : Seq(Wrappers)]
Modules  == [fwd : Wrapped, eager : Wrapped]
Linears  == [qkv : Forms, proj : Forms, w3 : Forms, attention : Forms, down : Forms]
Backbones ==
  [blocks : BOOLEAN \X BOOLEAN \X Nat, linears : Forms \X Forms \X Forms, kernels : SUBSET {"compile"}]
Models ==
  [merged : BOOLEAN, broken : BOOLEAN, attn : {"sdpa", "flash_attention_2"}, linear : Linears,
   glue : BOOLEAN, nopad : BOOLEAN, sliced : BOOLEAN, rope : Nat, pipeline : Nat,
   vit : Modules, pregraph : Wrapped, stagger : BOOLEAN,
   captured : SUBSET ((Nat \X {"six", "three"}) \X Backbones),
   heads : Modules, llm : [Experts -> Modules], method : [Calls -> Wrapped],
   outer : [Calls -> Wrapped], overlap : BOOLEAN]

\* What two models have in common.
SameBlocks(m, n) == n.glue = m.glue /\ n.nopad = m.nopad /\ n.rope = m.rope /\ n.linear = m.linear
SameVit(m, n) ==
  n.vit = m.vit /\ n.pregraph = m.pregraph /\ n.captured = m.captured /\ n.stagger = m.stagger
SameHeads(m, n) == n.heads = m.heads
SameLlm(m, n)   == n.merged = m.merged /\ n.llm = m.llm
SameCalls(m, n) == n.merged = m.merged /\ n.method = m.method /\ n.outer = m.outer /\ n.overlap = m.overlap

LEMMA FormsAre ==
  ASSUME NEW f \in Forms
  PROVE  TransposeLinear(f) \in Forms /\ QuantizeLinear(f) \in Forms
BY DEF Forms, TransposeLinear, QuantizeLinear

LEMMA WrapIs ==
  ASSUME NEW f \in Wrapped, NEW w \in Wrappers
  PROVE  /\ Wrap(f, w) \in Wrapped /\ Wrap(f, w).on = f.on
         /\ Wrap(f, w).wraps = Append(f.wraps, w)
         /\ \A v : Has(Wrap(f, w), v) <=> Has(f, v) \/ v = w
<1>1. f.on \in Names /\ f.wraps \in Seq(Wrappers) /\ Append(f.wraps, w) \in Seq(Wrappers)
  BY AppendProperties DEF Wrapped
<1>2. /\ Wrap(f, w) \in Wrapped /\ Wrap(f, w).on = f.on
      /\ Wrap(f, w).wraps = Append(f.wraps, w)
  BY <1>1 DEF Wrapped, Wrap
<1> DEFINE s == f.wraps
           t == Append(s, w)
<1>3. /\ Len(s) \in Nat /\ DOMAIN s = 1..Len(s) /\ DOMAIN t = 1..Len(s) + 1
      /\ t[Len(s) + 1] = w /\ \A i \in 1..Len(s) : t[i] = s[i]
  BY <1>1, AppendProperties, LenProperties
<1> HIDE DEF s, t
<1>4. \A v : (\E i \in DOMAIN t : t[i] = v) <=> (\E i \in DOMAIN s : s[i] = v) \/ v = w
  <2>1. DOMAIN t = DOMAIN s \cup {Len(s) + 1}
    BY <1>3
  <2> QED BY <1>3, <2>1
<1> QED BY <1>2, <1>4 DEF Has, s, t

LEMMA BareIs ==
  ASSUME NEW x \in Names
  PROVE  /\ Bare(x) \in Wrapped /\ Bare(x).on = x /\ Bare(x).wraps = <<>>
         /\ Unset \in Wrapped /\ Unset.on = "nothing" /\ Unset.wraps = <<>>
         /\ \A w : ~ Has(Bare(x), w) /\ ~ Has(Unset, w)
         /\ Module(x) \in Modules /\ Module(x).fwd = Bare(x) /\ Module(x).eager = Unset
<1>1. <<>> \in Seq(Wrappers) /\ DOMAIN <<>> = {}
  BY EmptySeq
<1>2. Bare(x) \in Wrapped /\ Unset \in Wrapped
  BY <1>1 DEF Bare, Unset, Wrapped, Names
<1>3. Module(x) \in Modules /\ Module(x).fwd = Bare(x) /\ Module(x).eager = Unset
  BY <1>2 DEF Module, Modules
<1>4. \A w : ~ Has(Bare(x), w) /\ ~ Has(Unset, w)
  BY <1>1 DEF Bare, Unset, Has
<1> QED BY <1>2, <1>3, <1>4 DEF Bare, Unset

LEMMA SavedIs ==
  ASSUME NEW x \in Modules
  PROVE  /\ Saved(x) \in Modules /\ Saved(x).fwd = x.fwd
         /\ Saved(x).eager = IF x.eager = Unset THEN x.fwd ELSE x.eager
BY DEF Modules, Saved

LEMMA CompiledIs ==
  ASSUME NEW x \in Modules, NEW how \in Wrappers
  PROVE  /\ CompileForward(x, how) \in Modules
         /\ CompileForward(x, how).eager = IF x.eager = Unset THEN x.fwd ELSE x.eager
         /\ CompileForward(x, how).fwd = Wrap(IF x.eager = Unset THEN x.fwd ELSE x.eager, how)
<1> DEFINE s == Saved(x)
<1>1. s \in Modules /\ s.eager = (IF x.eager = Unset THEN x.fwd ELSE x.eager)
  BY SavedIs
<1> HIDE DEF s
<1>2. Wrap(s.eager, how) \in Wrapped
  BY <1>1, WrapIs DEF Modules
<1>3. CompileForward(x, how) = [s EXCEPT !.fwd = Wrap(s.eager, how)]
  BY DEF CompileForward, s
<1>4. /\ CompileForward(x, how) \in Modules
      /\ CompileForward(x, how).eager = s.eager
      /\ CompileForward(x, how).fwd = Wrap(s.eager, how)
  BY <1>1, <1>2, <1>3 DEF Modules
<1> QED BY <1>1, <1>4

LEMMA RestoredIs ==
  ASSUME NEW x \in Modules
  PROVE  /\ Restored(x) \in Modules
         /\ Restored(x).fwd = (IF x.eager = Unset THEN x.fwd ELSE x.eager) /\ Restored(x).eager = Unset
<1>1. Unset \in Wrapped /\ x.fwd \in Wrapped /\ x.eager \in Wrapped
  BY BareIs DEF Modules, Names
<1> QED BY <1>1 DEF Modules, Restored

LEMMA CopiedIs ==
  ASSUME NEW f \in Wrapped
  PROVE  /\ Copied(f) \in Wrapped /\ Copied(f).wraps = f.wraps
         /\ f = Bare("decision_expert") => Copied(f) = Bare("action_expert")
         /\ f = Unset => Copied(f) = Unset
<1>1. Copied(f) \in {f, [f EXCEPT !.on = "action_expert"]}
  BY DEF Copied
<1>2. Copied(f) \in Wrapped /\ Copied(f).wraps = f.wraps
  BY <1>1 DEF Wrapped, Names, Experts
<1>3. ASSUME f = Bare("decision_expert") PROVE Copied(f) = Bare("action_expert")
  <2>1. \A w : ~ Has(f, w)
    BY <1>3, BareIs DEF Names, Experts
  <2>2. f # Unset
    BY <1>3 DEF Bare, Unset
  <2>3. Copied(f) = [f EXCEPT !.on = "action_expert"]
    BY <2>1, <2>2 DEF Copied
  <2> QED BY <1>3, <2>3 DEF Bare
<1> QED BY <1>2, <1>3 DEF Copied

LEMMA BuiltIs ==
  /\ Built \in Models /\ ~ Built.merged
  /\ Built.vit = Module("vit") /\ Built.heads = Module("heads") /\ Built.pregraph = Unset
  /\ Built.captured = {} /\ Built.stagger = FALSE /\ Built.overlap = FALSE
  /\ \A e \in Experts : Built.llm[e] = Module("decision_expert")
  /\ \A c \in Calls : Built.method[c] = Bare("decision_expert") /\ Built.outer[c] = Unset
<1>1. /\ Module("vit") \in Modules /\ Module("heads") \in Modules /\ Module("decision_expert") \in Modules
      /\ Bare("decision_expert") \in Wrapped /\ Unset \in Wrapped
  BY BareIs DEF Names, Experts
<1>2. [qkv |-> "absent", proj |-> "weight", w3 |-> "weight", attention |-> "weight", down |-> "weight"]
        \in Linears
  BY DEF Linears, Forms
<1>3. /\ [e \in Experts |-> Module("decision_expert")] \in [Experts -> Modules]
      /\ [c \in Calls |-> Bare("decision_expert")] \in [Calls -> Wrapped]
      /\ [c \in Calls |-> Unset] \in [Calls -> Wrapped]
  BY <1>1
<1>4. Built \in Models
  BY <1>1, <1>2, <1>3 DEF Built, Models
<1> QED BY <1>4 DEF Built

-----------------------------------------------------------------------------
(* what the transforms change                                              *)

Plain == {"llm_attn", "vit_glue", "down_proj_t", "vit_weight_t", "vit_window_nopad",
          "vit_input_size", "int8:llm", "int8:vit", "map_head_slice"}

SameForwards(m, n) == SameVit(m, n) /\ SameHeads(m, n) /\ SameLlm(m, n) /\ SameCalls(m, n)

\* Those that only touch weights, blocks and sizes.
LEMMA PlainTransforms ==
  ASSUME NEW m \in Models, NEW v \in Plain
  PROVE  Transform(v, m) \in Models /\ SameForwards(m, Transform(v, m))
<1> USE DEF SameForwards, SameVit, SameHeads, SameLlm, SameCalls
<1>1. SetLlmAttention(m) \in Models /\ SameForwards(m, SetLlmAttention(m))
  BY DEF Models, SetLlmAttention
<1>2. PatchVitBlocks(m) \in Models /\ SameForwards(m, PatchVitBlocks(m))
  <2>1. CASE m.glue
    BY <2>1 DEF PatchVitBlocks
  <2>2. CASE ~ m.glue
    <3>1. PatchVitBlocks(m) = [m EXCEPT !.glue = TRUE, !.linear.qkv = "weight"]
      BY <2>2 DEF PatchVitBlocks
    <3>2. [m.linear EXCEPT !.qkv = "weight"] \in Linears
      BY DEF Models, Linears, Forms
    <3> QED BY <3>1, <3>2 DEF Models
  <2> QED BY <2>1, <2>2
<1>3. PatchWindowBlocks(m) \in Models /\ SameForwards(m, PatchWindowBlocks(m))
  <2>1. CASE ~ m.glue
    BY <2>1 DEF PatchWindowBlocks
  <2>2. CASE m.glue
    <3>1. PatchWindowBlocks(m) = [m EXCEPT !.nopad = TRUE]
      BY <2>2 DEF PatchWindowBlocks
    <3> QED BY <3>1 DEF Models
  <2> QED BY <2>1, <2>2
<1>4. TransposeDownProj(m) \in Models /\ SameForwards(m, TransposeDownProj(m))
  BY FormsAre DEF Models, Linears, TransposeDownProj
<1>5. TransposeVitLinears(m) \in Models /\ SameForwards(m, TransposeVitLinears(m))
  BY FormsAre DEF Models, Linears, TransposeVitLinears
<1>6. SetVitInputSize(m) \in Models /\ SameForwards(m, SetVitInputSize(m))
  <2> DEFINE size == 512
  <2>1. size \in Nat /\ SetVitInputSize(m) = [m EXCEPT !.rope = size, !.pipeline = size]
    BY DEF SetVitInputSize
  <2> HIDE DEF size
  <2> QED BY <2>1 DEF Models
<1>7. QuantizeLlm(m) \in Models /\ SameForwards(m, QuantizeLlm(m))
  BY FormsAre DEF Models, Linears, QuantizeLlm
<1>8. QuantizeVit(m) \in Models /\ SameForwards(m, QuantizeVit(m))
  BY FormsAre DEF Models, Linears, QuantizeVit
<1>9. SliceMapHead(m) \in Models /\ SameForwards(m, SliceMapHead(m))
  BY DEF Models, SliceMapHead
<1> HIDE DEF SameForwards
<1> QED BY <1>1, <1>2, <1>3, <1>4, <1>5, <1>6, <1>7, <1>8, <1>9 DEF Plain, Transform

LEMMA MergeLoraIs ==
  ASSUME NEW m \in Models, ~ m.merged
  PROVE  LET n == MergeLora(m) IN
         /\ n \in Models /\ n.merged
         /\ SameBlocks(m, n) /\ SameVit(m, n) /\ SameHeads(m, n) /\ n.overlap = m.overlap
         /\ n.llm["decision_expert"] = m.llm["decision_expert"]
         /\ n.llm["action_expert"] = [fwd |-> Copied(m.llm["action_expert"].fwd),
                                      eager |-> Copied(m.llm["action_expert"].eager)]
         /\ n.method["inference_action_distribution"] = m.method["inference_action_distribution"]
         /\ n.method["inference_waypoints"] = Copied(m.method["inference_waypoints"])
         /\ \A c \in Calls : n.outer[c] = Unset
<1> DEFINE x == m.llm["action_expert"]
           y == [fwd |-> Copied(x.fwd), eager |-> Copied(x.eager)]
           f == Copied(m.method["inference_waypoints"])
           o == [c \in Calls |-> Unset]
           n == MergeLora(m)
<1>1. y \in Modules
  <2>1. x \in Modules
    BY DEF Models, Experts
  <2>2. x.fwd \in Wrapped /\ x.eager \in Wrapped
    BY <2>1 DEF Modules
  <2>3. Copied(x.fwd) \in Wrapped /\ Copied(x.eager) \in Wrapped
    BY <2>2, CopiedIs
  <2> QED BY <2>3 DEF Modules
<1>2. f \in Wrapped
  <2>1. m.method["inference_waypoints"] \in Wrapped
    BY DEF Models, Calls
  <2> QED BY <2>1, CopiedIs
<1>3. o \in [Calls -> Wrapped]
  BY BareIs DEF Names
<1>4. n = [m EXCEPT !.merged = TRUE, !.llm["action_expert"] = y,
                    !.method["inference_waypoints"] = f, !.outer = o]
  BY DEF MergeLora
<1> HIDE DEF x, y, f, o, n
<1>5. /\ n \in Models /\ n.merged
      /\ SameBlocks(m, n) /\ SameVit(m, n) /\ SameHeads(m, n) /\ n.overlap = m.overlap
      /\ n.llm = [m.llm EXCEPT !["action_expert"] = y]
      /\ n.method = [m.method EXCEPT !["inference_waypoints"] = f]
      /\ n.outer = o
  BY <1>1, <1>2, <1>3, <1>4 DEF Models, SameBlocks, SameVit, SameHeads, Experts, Calls
<1>6. /\ n.llm["action_expert"] = y /\ n.llm["decision_expert"] = m.llm["decision_expert"]
      /\ n.method["inference_waypoints"] = f
      /\ n.method["inference_action_distribution"] = m.method["inference_action_distribution"]
  BY <1>5 DEF Models, Experts, Calls
<1> QED BY <1>5, <1>6 DEF n, x, y, f, o

LEMMA CompileVitIs ==
  ASSUME NEW m \in Models
  PROVE  LET n == CompileVit(m) IN
         /\ n \in Models /\ SameBlocks(m, n) /\ SameHeads(m, n) /\ SameLlm(m, n) /\ SameCalls(m, n)
         /\ n.vit = CompileForward(m.vit, "compile")
         /\ n.pregraph = m.pregraph /\ n.captured = m.captured /\ n.stagger = m.stagger
<1>1. CompileForward(m.vit, "compile") \in Modules
  BY CompiledIs DEF Models, Wrappers
<1> QED BY <1>1 DEF CompileVit, Models, SameBlocks, SameHeads, SameLlm, SameCalls

LEMMA CompileLlmIs ==
  ASSUME NEW m \in Models
  PROVE  LET n == CompileLlm(m) IN
         /\ n \in Models /\ SameBlocks(m, n) /\ SameVit(m, n) /\ SameHeads(m, n) /\ SameCalls(m, n)
         /\ n.llm = [e \in Experts |-> CompileForward(m.llm[e], "compile")]
<1>1. \A e \in Experts : CompileForward(m.llm[e], "compile") \in Modules
  BY CompiledIs DEF Models, Wrappers
<1> QED BY <1>1 DEF CompileLlm, Models, SameBlocks, SameVit, SameHeads, SameCalls

LEMMA CompileHeadsIs ==
  ASSUME NEW m \in Models, NEW how \in {"compile", "graphs"}
  PROVE  LET n == [m EXCEPT !.heads = CompileForward(@, how)] IN
         /\ n \in Models /\ SameBlocks(m, n) /\ SameVit(m, n) /\ SameLlm(m, n) /\ SameCalls(m, n)
         /\ n.heads = CompileForward(m.heads, how)
<1>1. CompileForward(m.heads, how) \in Modules
  BY CompiledIs DEF Models, Wrappers
<1> QED BY <1>1 DEF Models, SameBlocks, SameVit, SameLlm, SameCalls

LEMMA GraphVitIs ==
  ASSUME NEW m \in Models, m.pregraph = Unset, ~ Has(m.vit.fwd, "graph")
  PROVE  LET n == GraphVit(m) IN
         /\ n \in Models /\ SameBlocks(m, n) /\ SameHeads(m, n) /\ SameLlm(m, n) /\ SameCalls(m, n)
         /\ n.vit.fwd = Wrap(m.vit.fwd, "graph") /\ n.vit.eager = m.vit.eager
         /\ n.pregraph = m.vit.fwd /\ n.captured = {} /\ n.stagger = m.stagger
<1> DEFINE n == GraphVit(m)
           g == Wrap(m.vit.fwd, "graph")
<1>1. m.vit \in Modules /\ m.vit.fwd \in Wrapped /\ m.vit.eager \in Wrapped
  BY DEF Models, Modules
<1>2. g \in Wrapped
  BY <1>1, WrapIs DEF Wrappers
<1>3. ~ Topmost(m.vit.fwd, "graph")
  <2>1. m.vit.fwd.wraps \in Seq(Wrappers)
    BY <1>1 DEF Wrapped
  <2>2. m.vit.fwd.wraps # <<>> => Len(m.vit.fwd.wraps) \in DOMAIN m.vit.fwd.wraps
    BY <2>1, EmptySeq, LenProperties
  <2> QED BY <2>2 DEF Topmost, Has
<1>4. n = [m EXCEPT !.pregraph = m.vit.fwd, !.vit.fwd = g, !.captured = {}]
  BY <1>3 DEF GraphVit
<1>5. /\ [m.vit EXCEPT !.fwd = g] \in Modules
      /\ [m.vit EXCEPT !.fwd = g].fwd = g /\ [m.vit EXCEPT !.fwd = g].eager = m.vit.eager
  BY <1>1, <1>2 DEF Modules
<1> HIDE DEF n, g
<1>6. /\ n \in Models /\ SameBlocks(m, n) /\ SameHeads(m, n) /\ SameLlm(m, n) /\ SameCalls(m, n)
      /\ n.vit = [m.vit EXCEPT !.fwd = g]
      /\ n.pregraph = m.vit.fwd /\ n.captured = {} /\ n.stagger = m.stagger
  BY <1>1, <1>4, <1>5 DEF Models, SameBlocks, SameHeads, SameLlm, SameCalls
<1> QED BY <1>5, <1>6 DEF n, g

LEMMA SliceDecisionLogitsIs ==
  ASSUME NEW m \in Models
  PROVE  LET n == SliceDecisionLogits(m) IN
         /\ n \in Models /\ SameBlocks(m, n) /\ SameVit(m, n) /\ SameHeads(m, n) /\ SameLlm(m, n)
         /\ n.outer = m.outer /\ n.overlap = m.overlap
         /\ n.method["inference_waypoints"] = m.method["inference_waypoints"]
         /\ n.method["inference_action_distribution"] = Wrap(Bare("decision_expert"), "slice")
<1> DEFINE f == Wrap(Bare("decision_expert"), "slice")
<1>1. f \in Wrapped
  BY BareIs, WrapIs DEF Names, Experts, Wrappers
<1> HIDE DEF f
<1>2. SliceDecisionLogits(m) = [m EXCEPT !.method["inference_action_distribution"] = f]
  BY DEF SliceDecisionLogits, f
<1>3. /\ [m.method EXCEPT !["inference_action_distribution"] = f] \in [Calls -> Wrapped]
      /\ [m.method EXCEPT !["inference_action_distribution"] = f]["inference_action_distribution"] = f
      /\ [m.method EXCEPT !["inference_action_distribution"] = f]["inference_waypoints"]
           = m.method["inference_waypoints"]
  BY <1>1 DEF Models, Calls
<1> QED BY <1>2, <1>3 DEF Models, SameBlocks, SameVit, SameHeads, SameLlm, f

LEMMA OverlapExpertsIs ==
  ASSUME NEW m \in Models
  PROVE  LET n == OverlapExperts(m) IN
         /\ n \in Models /\ SameBlocks(m, n) /\ SameVit(m, n) /\ SameHeads(m, n) /\ SameLlm(m, n)
         /\ n.outer = m.outer /\ n.overlap
         /\ \A c \in Calls : n.method[c] = IF m.overlap THEN m.method[c] ELSE Wrap(m.method[c], "overlap")
<1>1. CASE m.overlap
  BY <1>1 DEF OverlapExperts, SameBlocks, SameVit, SameHeads, SameLlm
<1>2. CASE ~ m.overlap
  <2> DEFINE f == [c \in Calls |-> Wrap(m.method[c], "overlap")]
  <2>1. f \in [Calls -> Wrapped] /\ \A c \in Calls : f[c] = Wrap(m.method[c], "overlap")
    BY WrapIs DEF Models, Wrappers
  <2>2. OverlapExperts(m) = [m EXCEPT !.overlap = TRUE, !.method = f]
    BY <1>2 DEF OverlapExperts
  <2> HIDE DEF f
  <2>3. LET n == OverlapExperts(m) IN
          /\ n \in Models /\ SameBlocks(m, n) /\ SameVit(m, n) /\ SameHeads(m, n) /\ SameLlm(m, n)
          /\ n.outer = m.outer /\ n.overlap /\ n.method = f
    BY <2>1, <2>2 DEF Models, SameBlocks, SameVit, SameHeads, SameLlm
  <2> QED BY <1>2, <2>1, <2>3
<1> QED BY <1>1, <1>2

LEMMA InstallStaggeredViewsIs ==
  ASSUME NEW m \in Models
  PROVE  LET n == InstallStaggeredViews(m) IN
         /\ n \in Models /\ SameBlocks(m, n) /\ SameHeads(m, n) /\ SameLlm(m, n) /\ SameCalls(m, n)
         /\ n.vit.fwd = (IF m.stagger THEN m.vit.fwd ELSE Wrap(m.vit.fwd, "stagger"))
         /\ n.vit.eager = m.vit.eager
         /\ n.pregraph = m.pregraph /\ n.captured = m.captured /\ n.stagger
<1>1. CASE m.stagger
  BY <1>1 DEF InstallStaggeredViews, SameBlocks, SameHeads, SameLlm, SameCalls
<1>2. CASE ~ m.stagger
  <2> DEFINE g == Wrap(m.vit.fwd, "stagger")
  <2>1. m.vit \in Modules /\ g \in Wrapped
    BY WrapIs DEF Models, Modules, Wrappers
  <2>2. InstallStaggeredViews(m) = [m EXCEPT !.stagger = TRUE, !.vit.fwd = g]
    BY <1>2 DEF InstallStaggeredViews
  <2> HIDE DEF g
  <2>3. /\ [m.vit EXCEPT !.fwd = g] \in Modules
        /\ [m.vit EXCEPT !.fwd = g].fwd = g /\ [m.vit EXCEPT !.fwd = g].eager = m.vit.eager
    BY <2>1 DEF Modules
  <2>4. LET n == InstallStaggeredViews(m) IN
         /\ n \in Models /\ SameBlocks(m, n) /\ SameHeads(m, n) /\ SameLlm(m, n) /\ SameCalls(m, n)
         /\ n.vit = [m.vit EXCEPT !.fwd = g]
         /\ n.pregraph = m.pregraph /\ n.captured = m.captured /\ n.stagger
    BY <2>1, <2>2, <2>3 DEF Models, SameBlocks, SameHeads, SameLlm, SameCalls
  <2> QED BY <1>2, <2>3, <2>4 DEF g
<1> QED BY <1>1, <1>2

LEMMA TimedIs ==
  ASSUME NEW f \in Wrapped
  PROVE  /\ Timed(f) \in Wrapped /\ Timed(f).on = f.on
         /\ Timed(f).wraps \in {f.wraps, Append(f.wraps, "timer")}
BY WrapIs DEF Timed, Wrappers

LEMMA WrapLlmIs ==
  ASSUME NEW m \in Models
  PROVE  LET n == WrapLlm(m) IN
         /\ n \in Models /\ SameBlocks(m, n) /\ SameVit(m, n) /\ SameHeads(m, n) /\ SameLlm(m, n)
         /\ n.overlap = m.overlap
         /\ \A c \in Calls : n.method[c] \in {m.method[c], Timed(m.method[c])}
         /\ ~ m.merged => n.method = m.method
         /\ \A c \in Calls : m.outer[c] = Unset =>
              n.outer[c] = IF m.merged THEN Unset ELSE Timed(m.method[c])
<1>0. \A c \in Calls : m.method[c] \in Wrapped /\ m.outer[c] \in Wrapped
  BY DEF Models
<1>1. CASE m.merged
  <2> DEFINE f == [c \in Calls |-> Timed(m.method[c])]
  <2>1. f \in [Calls -> Wrapped] /\ \A c \in Calls : f[c] = Timed(m.method[c])
    BY <1>0, TimedIs
  <2>2. WrapLlm(m) = [m EXCEPT !.method = f]
    BY <1>1 DEF WrapLlm
  <2> HIDE DEF f
  <2>3. LET n == WrapLlm(m) IN
          /\ n \in Models /\ SameBlocks(m, n) /\ SameVit(m, n) /\ SameHeads(m, n) /\ SameLlm(m, n)
          /\ n.outer = m.outer /\ n.overlap = m.overlap /\ n.method = f
    BY <2>1, <2>2 DEF Models, SameBlocks, SameVit, SameHeads, SameLlm
  <2> QED BY <1>1, <2>1, <2>3
<1>2. CASE ~ m.merged
  <2> DEFINE o == [c \in Calls |-> Timed(IF m.outer[c] = Unset THEN m.method[c] ELSE m.outer[c])]
  <2>1. WrapLlm(m) = [m EXCEPT !.outer = o]
    BY <1>2 DEF WrapLlm
  <2>2. o \in [Calls -> Wrapped]
    BY <1>0, TimedIs
  <2>3. \A c \in Calls : m.outer[c] = Unset => o[c] = Timed(m.method[c])
    OBVIOUS
  <2> HIDE DEF o
  <2> QED BY <1>2, <2>1, <2>2, <2>3 DEF Models, SameBlocks, SameVit, SameHeads, SameLlm
<1> QED BY <1>1, <1>2

LEMMA PresentIs ==
  ASSUME NEW m \in Models
  PROVE  /\ Present(m) \in Backbones /\ Shapes(m) \in SUBSET (Nat \X {"six", "three"})
         /\ \A n \in Models : SameBlocks(m, n) /\ (Has(n.vit.fwd, "compile") <=> Has(m.vit.fwd, "compile"))
                                => Present(n) = Present(m)
<1>1. /\ m.glue \in BOOLEAN /\ m.nopad \in BOOLEAN /\ m.rope \in Nat /\ m.pipeline \in Nat
      /\ m.linear.qkv \in Forms /\ m.linear.proj \in Forms /\ m.linear.w3 \in Forms
  BY DEF Models, Linears
<1>2. Present(m) \in Backbones
  BY <1>1 DEF Present, Backbones
<1>3. Shapes(m) \in SUBSET (Nat \X {"six", "three"})
  BY <1>1 DEF Shapes
<1>4. ASSUME NEW n \in Models, SameBlocks(m, n), Has(n.vit.fwd, "compile") <=> Has(m.vit.fwd, "compile")
      PROVE  Present(n) = Present(m)
  <2>1. {w \in {"compile"} : Has(n.vit.fwd, w)} = {w \in {"compile"} : Has(m.vit.fwd, w)}
    BY <1>4
  <2> QED BY <1>4, <2>1 DEF Present, SameBlocks
<1> QED BY <1>2, <1>3, <1>4

LEMMA CapturesIs ==
  ASSUME NEW m \in Models
  PROVE  LET n == Captures(m) IN
         /\ n \in Models /\ SameBlocks(m, n) /\ SameHeads(m, n) /\ SameLlm(m, n) /\ SameCalls(m, n)
         /\ n.vit = m.vit /\ n.pregraph = m.pregraph /\ n.stagger = m.stagger
         /\ \A g \in n.captured : g \in m.captured \/ g[2] = Present(m)
<1>1. CASE ~ Has(m.vit.fwd, "graph")
  BY <1>1 DEF Captures, SameBlocks, SameHeads, SameLlm, SameCalls
<1>2. CASE Has(m.vit.fwd, "graph")
  <2> DEFINE new == {s \in Shapes(m) : \A g \in m.captured : g[1] # s}
             more == {<<s, Present(m)>> : s \in new}
  <2>1. more \in SUBSET ((Nat \X {"six", "three"}) \X Backbones) /\ \A g \in more : g[2] = Present(m)
    BY PresentIs
  <2>2. Captures(m) = [m EXCEPT !.captured = @ \cup more]
    BY <1>2 DEF Captures
  <2> HIDE DEF more
  <2> QED BY <2>1, <2>2 DEF Models, SameBlocks, SameHeads, SameLlm, SameCalls
<1> QED BY <1>1, <1>2

LEMMA TakenBackIs ==
  ASSUME NEW m \in Models
  PROVE  LET n == UngraphVit(UncompileSubmodules(m)) IN
         /\ n \in Models /\ SameBlocks(m, n) /\ SameCalls(m, n)
         /\ n.captured = m.captured /\ n.stagger = m.stagger
         /\ n.llm = [e \in Experts |-> Restored(m.llm[e])] /\ n.heads = Restored(m.heads)
         /\ n.pregraph = Unset /\ n.vit.eager = Unset
         /\ n.vit.fwd = IF m.pregraph = Unset THEN Restored(m.vit).fwd ELSE m.pregraph
<1> DEFINE k == UncompileSubmodules(m)
           n == UngraphVit(k)
<1>1. /\ Restored(m.vit) \in Modules /\ Restored(m.heads) \in Modules
      /\ [e \in Experts |-> Restored(m.llm[e])] \in [Experts -> Modules]
  BY RestoredIs DEF Models
<1>2. /\ k \in Models /\ SameBlocks(m, k) /\ SameCalls(m, k)
      /\ k.captured = m.captured /\ k.stagger = m.stagger /\ k.pregraph = m.pregraph
      /\ k.llm = [e \in Experts |-> Restored(m.llm[e])] /\ k.heads = Restored(m.heads)
      /\ k.vit = Restored(m.vit)
  BY <1>1 DEF UncompileSubmodules, Models, SameBlocks, SameCalls
<1> HIDE DEF k
<1>3. k.vit.eager = Unset /\ k.vit \in Modules
  BY <1>2, RestoredIs DEF Models
<1>4. CASE m.pregraph = Unset
  <2>1. n = k
    BY <1>2, <1>4 DEF UngraphVit
  <2> QED BY <1>2, <1>3, <1>4, <2>1 DEF k
<1>5. CASE m.pregraph # Unset
  <2>1. n = [k EXCEPT !.vit.fwd = k.pregraph, !.pregraph = Unset]
    BY <1>2, <1>5 DEF UngraphVit
  <2>2. k.pregraph \in Wrapped /\ Unset \in Wrapped
    BY <1>2, BareIs DEF Models, Names
  <2>3. /\ [k.vit EXCEPT !.fwd = k.pregraph] \in Modules
        /\ [k.vit EXCEPT !.fwd = k.pregraph].fwd = k.pregraph
        /\ [k.vit EXCEPT !.fwd = k.pregraph].eager = k.vit.eager
    BY <1>3, <2>2 DEF Modules
  <2> HIDE DEF n
  <2>4. /\ n \in Models /\ SameBlocks(k, n) /\ SameCalls(k, n)
        /\ n.captured = k.captured /\ n.stagger = k.stagger /\ n.llm = k.llm /\ n.heads = k.heads
        /\ n.pregraph = Unset /\ n.vit = [k.vit EXCEPT !.fwd = k.pregraph]
    BY <1>2, <2>1, <2>2, <2>3 DEF Models, SameBlocks, SameCalls
  <2> QED BY <1>2, <1>3, <1>5, <2>3, <2>4 DEF SameBlocks, SameCalls, n, k
<1> QED BY <1>4, <1>5

-----------------------------------------------------------------------------
(* their order                                                             *)

Marked ==
  {"merge_lora", "compile:heads", "compile:llm", "compile:vit", "cuda_graph_heads", "cuda_graph_vit",
   "logits_slice", "overlap_experts", "rear_view_refresh"}
\* How many of the node's are left, itself included, when one of them comes up.
Turn(v) ==
  CASE v = "merge_lora"        -> 18
    [] v = "compile:heads"     -> 8
    [] v = "compile:llm"       -> 7
    [] v = "compile:vit"       -> 6
    [] v = "cuda_graph_heads"  -> 5
    [] v = "cuda_graph_vit"    -> 4
    [] v = "logits_slice"      -> 3
    [] v = "overlap_experts"   -> 2
    [] v = "rear_view_refresh" -> 1

Left == Len(todo)

\* Those that have not come up yet.
Coming(v) == \E i \in 1..Len(todo) : todo[i] = v

SpeedupsTyped ==
  /\ user \in {"node", "bench"}
  /\ stage \in {"apply", "run", "ready", "failed"} /\ (user = "node" => stage # "run")
  /\ todo \in Seq(Plain \cup Marked) /\ WellOrdered(todo)
  /\ user = "node" => Left \in 0..18 /\ \A i \in 1..Left : todo[i] = NodeOrder[18 - Left + i]
  /\ applied \in Seq(Plain \cup Marked)
  /\ model \in Models

LEMMA TurnsAre ==
  /\ Turn("merge_lora") = 18 /\ Turn("compile:heads") = 8 /\ Turn("compile:llm") = 7
  /\ Turn("compile:vit") = 6 /\ Turn("logits_slice") = 3 /\ Turn("overlap_experts") = 2
  /\ Turn("rear_view_refresh") = 1
  /\ Turn("cuda_graph_heads") = 5 /\ Turn("cuda_graph_vit") = 4
BY DEF Turn

LEMMA KnownAre == KnownVariants = Plain \cup Marked
<1>1. ASSUME NEW v \in KnownVariants PROVE v \in Plain \cup Marked
  BY <1>1 DEF KnownVariants, BenchOrder, Plain, Marked
<1>2. ASSUME NEW v \in Plain \cup Marked PROVE v \in KnownVariants
  <2>1. \A i \in 1..18 : BenchOrder[i] \in KnownVariants
    BY DEF KnownVariants, BenchOrder
  <2>2. /\ BenchOrder[1] = "merge_lora" /\ BenchOrder[2] = "llm_attn" /\ BenchOrder[3] = "vit_glue"
        /\ BenchOrder[4] = "map_head_slice" /\ BenchOrder[5] = "down_proj_t"
        /\ BenchOrder[6] = "vit_weight_t" /\ BenchOrder[7] = "vit_window_nopad"
        /\ BenchOrder[8] = "int8:llm" /\ BenchOrder[9] = "int8:vit"
        /\ BenchOrder[10] = "vit_input_size" /\ BenchOrder[11] = "compile:heads"
        /\ BenchOrder[12] = "compile:llm" /\ BenchOrder[13] = "compile:vit"
        /\ BenchOrder[14] = "cuda_graph_vit" /\ BenchOrder[15] = "cuda_graph_heads"
        /\ BenchOrder[16] = "logits_slice" /\ BenchOrder[17] = "overlap_experts"
        /\ BenchOrder[18] = "rear_view_refresh"
    BY DEF BenchOrder
  <2> QED BY <2>1, <2>2 DEF Plain, Marked
<1> QED BY <1>1, <1>2

LEMMA NodeOrderIs ==
  ASSUME NEW k \in 1..18
  PROVE  /\ NodeOrder[k] \in Plain \cup Marked
         /\ NodeOrder[k] \in Plain => k \in 2..10
         /\ \A v \in Marked : NodeOrder[k] = v <=> 19 - k = Turn(v)
<1>1. /\ NodeOrder[k] \in Plain \cup Marked /\ (NodeOrder[k] \in Plain => k \in 2..10)
      /\ NodeOrder[k] = "merge_lora" <=> k = 1
      /\ NodeOrder[k] = "compile:heads" <=> k = 11
      /\ NodeOrder[k] = "compile:llm" <=> k = 12
      /\ NodeOrder[k] = "compile:vit" <=> k = 13
      /\ NodeOrder[k] = "cuda_graph_heads" <=> k = 14
      /\ NodeOrder[k] = "cuda_graph_vit" <=> k = 15
      /\ NodeOrder[k] = "logits_slice" <=> k = 16
      /\ NodeOrder[k] = "overlap_experts" <=> k = 17
      /\ NodeOrder[k] = "rear_view_refresh" <=> k = 18
  BY DEF NodeOrder, Plain, Marked
<1> QED BY <1>1, TurnsAre DEF Marked

\* The order of the node, and the default of the bench, are in order.
LEMMA NodeInOrder == WellOrdered(NodeOrder)
<1>1. NodeOrder \in Seq(Plain \cup Marked) /\ DOMAIN NodeOrder = 1..18
  BY DEF NodeOrder, Plain, Marked
<1>2. ASSUME NEW i \in 1..18, NEW j \in 1..18, i < j
      PROVE  /\ NodeOrder[j] # "merge_lora"
             /\ NodeOrder[i] = "cuda_graph_vit" => NodeOrder[j] \notin ChangesBackbone
             /\ NodeOrder[i] # "rear_view_refresh"
  <2>1. NodeOrder[j] = "merge_lora" <=> j = 1
    BY NodeOrderIs, TurnsAre DEF Marked
  <2>2. NodeOrder[i] = "rear_view_refresh" <=> i = 18
    BY NodeOrderIs, TurnsAre DEF Marked
  <2>3. NodeOrder[i] = "cuda_graph_vit" <=> i = 15
    BY NodeOrderIs, TurnsAre DEF Marked
  <2>4. j \in 16..18 => NodeOrder[j] \notin ChangesBackbone
    BY DEF NodeOrder, ChangesBackbone
  <2> QED BY <1>2, <2>1, <2>2, <2>3, <2>4
<1> QED BY <1>1, <1>2, KnownAre DEF WellOrdered

LEMMA DefaultInOrder == WellOrdered(BenchOrder)
<1>1. BenchOrder \in Seq(Plain \cup Marked) /\ DOMAIN BenchOrder = 1..18
  BY DEF BenchOrder, Plain, Marked
<1>2. ASSUME NEW i \in 1..18, NEW j \in 1..18, i < j
      PROVE  /\ BenchOrder[j] # "merge_lora"
             /\ BenchOrder[i] = "cuda_graph_vit" => BenchOrder[j] \notin ChangesBackbone
             /\ BenchOrder[i] # "rear_view_refresh"
  <2>1. BenchOrder[j] = "merge_lora" <=> j = 1
    BY DEF BenchOrder
  <2>2. BenchOrder[i] = "rear_view_refresh" <=> i = 18
    BY DEF BenchOrder
  <2>3. BenchOrder[i] = "cuda_graph_vit" <=> i = 14
    BY DEF BenchOrder
  <2>4. j \in 15..18 => BenchOrder[j] \notin ChangesBackbone
    BY DEF BenchOrder, ChangesBackbone
  <2> QED BY <1>2, <2>1, <2>2, <2>3, <2>4
<1> QED BY <1>1, <1>2, KnownAre DEF WellOrdered

\* What is in order stays so, and what comes up rules out what must not follow.
LEMMA TailInOrder ==
  ASSUME NEW list \in Seq(Plain \cup Marked), WellOrdered(list), list # <<>>
  PROVE  /\ WellOrdered(Tail(list))
         /\ \A i \in 1..Len(Tail(list)) :
              /\ Tail(list)[i] = "merge_lora" => Head(list) \notin ReplacesExperts \cup {"merge_lora"}
              /\ Head(list) = "cuda_graph_vit" => Tail(list)[i] \notin ChangesBackbone
<1> DEFINE rest == Tail(list)
<1>1. /\ rest \in Seq(Plain \cup Marked) /\ Len(list) \in Nat \ {0} /\ Len(rest) = Len(list) - 1
      /\ \A i \in 1..Len(list) - 1 : rest[i] = list[i + 1]
      /\ Head(list) = list[1]
      /\ DOMAIN list = 1..Len(list) /\ DOMAIN rest = 1..Len(rest)
  BY HeadTailProperties, EmptySeq, LenProperties
<1> HIDE DEF rest
<1>2. \A i, j \in 1..Len(list) : i < j =>
        /\ list[j] = "merge_lora" => list[i] \notin ReplacesExperts \cup {"merge_lora"}
        /\ list[i] = "cuda_graph_vit" => list[j] \notin ChangesBackbone
        /\ list[i] = "rear_view_refresh" => list[j] # "cuda_graph_vit"
  BY <1>1 DEF WellOrdered
<1>3. ASSUME NEW i \in 1..Len(rest), NEW j \in 1..Len(rest), i < j
      PROVE  /\ rest[j] = "merge_lora" => rest[i] \notin ReplacesExperts \cup {"merge_lora"}
             /\ rest[i] = "cuda_graph_vit" => rest[j] \notin ChangesBackbone
             /\ rest[i] = "rear_view_refresh" => rest[j] # "cuda_graph_vit"
  <2>1. i + 1 \in 1..Len(list) /\ j + 1 \in 1..Len(list) /\ i + 1 < j + 1
    BY <1>1, <1>3
  <2>2. rest[i] = list[i + 1] /\ rest[j] = list[j + 1]
    BY <1>1
  <2> QED BY <1>2, <2>1, <2>2
<1>4. ASSUME NEW i \in 1..Len(rest)
      PROVE  /\ rest[i] = "merge_lora" => list[1] \notin ReplacesExperts \cup {"merge_lora"}
             /\ list[1] = "cuda_graph_vit" => rest[i] \notin ChangesBackbone
  <2>1. 1 \in 1..Len(list) /\ i + 1 \in 1..Len(list) /\ 1 < i + 1 /\ rest[i] = list[i + 1]
    BY <1>1
  <2> QED BY <1>2, <2>1
<1>5. WellOrdered(rest)
  BY <1>1, <1>3, KnownAre DEF WellOrdered
<1> QED BY <1>1, <1>4, <1>5 DEF rest

LEMMA TakeNextIs ==
  ASSUME SpeedupsTyped, TakeNext
  PROVE  /\ stage = "apply" /\ user' = user
         /\ todo' \in Seq(Plain \cup Marked) /\ WellOrdered(todo')
         /\ Left \in Nat \ {0} /\ Left' = Left - 1
         /\ \A i \in 1..Left - 1 : todo'[i] = todo[i + 1]
         /\ Speedup = todo[1] /\ Speedup \in Plain \cup Marked /\ Coming(Speedup)
         /\ \A v : Coming(v)' => Coming(v)
         /\ Speedup \in ReplacesExperts \cup {"merge_lora"} => ~ Coming("merge_lora")'
         /\ Speedup = "cuda_graph_vit" => \A v \in ChangesBackbone : ~ Coming(v)'
<1>1. /\ stage = "apply" /\ user' = user /\ todo # <<>> /\ todo' = Tail(todo) /\ Speedup = Head(todo)
  BY DEF TakeNext, Speedup
<1>2. todo \in Seq(Plain \cup Marked) /\ WellOrdered(todo)
  BY DEF SpeedupsTyped
<1>3. /\ Left \in Nat \ {0} /\ Left' = Left - 1 /\ todo' \in Seq(Plain \cup Marked)
      /\ \A i \in 1..Left - 1 : todo'[i] = todo[i + 1]
      /\ Speedup = todo[1]
  BY <1>1, <1>2, HeadTailProperties, EmptySeq DEF Left
<1>4. /\ WellOrdered(todo')
      /\ \A i \in 1..Left' :
           /\ todo'[i] = "merge_lora" => Speedup \notin ReplacesExperts \cup {"merge_lora"}
           /\ Speedup = "cuda_graph_vit" => todo'[i] \notin ChangesBackbone
  BY <1>1, <1>2, TailInOrder DEF Left
<1>5. ASSUME NEW v, Coming(v)' PROVE Coming(v)
  <2>1. PICK i \in 1..Left' : todo'[i] = v
    BY <1>5 DEF Coming, Left
  <2>2. i + 1 \in 1..Left /\ todo[i + 1] = v
    BY <1>3, <2>1
  <2> QED BY <2>2 DEF Coming, Left
<1>6. 1 \in 1..Left
  BY <1>3
<1>7. Speedup \in Plain \cup Marked /\ Coming(Speedup)
  BY <1>2, <1>3, <1>6, ElementOfSeq DEF Coming, Left
<1>8. /\ Speedup \in ReplacesExperts \cup {"merge_lora"} => ~ Coming("merge_lora")'
      /\ Speedup = "cuda_graph_vit" => \A v \in ChangesBackbone : ~ Coming(v)'
  BY <1>4 DEF Coming, Left
<1> QED BY <1>1, <1>3, <1>4, <1>5, <1>7, <1>8

-----------------------------------------------------------------------------
(* the experts keep their weights, and the graph its backbone               *)

\* A module is called what it is, whatever is around its forward.
Bound(x, name) == x.fwd.on = name /\ (x.eager = Unset \/ x.eager.on = name)

OwnExperts(m) ==
  m.merged => /\ \A e \in Experts : Bound(m.llm[e], e)
              /\ \A c \in Calls : m.method[c].on = Owner[c]

Graphless(m) == ~ Has(m.vit.fwd, "graph") /\ m.pregraph = Unset

GraphSound(m) ==
  /\ Bound(m.vit, "vit") /\ (m.pregraph = Unset \/ m.pregraph.on = "vit")
  /\ ~ Has(m.vit.eager, "graph") /\ ~ Has(m.pregraph, "graph")
  /\ Has(m.vit.fwd, "graph") =>
       m.pregraph # Unset /\ \A g \in m.captured : g[2] = Present(m)

\* What must be for a speedup that can come only once.
Fits(v, m) ==
  /\ v = "merge_lora" => /\ ~ m.merged
                         /\ \A e \in Experts : m.llm[e] = Module("decision_expert")
                         /\ \A c \in Calls : m.method[c] = Bare("decision_expert")
  /\ v = "cuda_graph_vit" => Graphless(m)

LEMMA MarkedTransforms ==
  ASSUME NEW m
  PROVE  /\ Transform("merge_lora", m) = MergeLora(m)
         /\ Transform("compile:heads", m) = [m EXCEPT !.heads = CompileForward(@, "compile")]
         /\ Transform("compile:llm", m) = CompileLlm(m)
         /\ Transform("compile:vit", m) = CompileVit(m)
         /\ Transform("cuda_graph_heads", m) = [m EXCEPT !.heads = CompileForward(@, "graphs")]
         /\ Transform("cuda_graph_vit", m) = GraphVit(m)
         /\ Transform("logits_slice", m) = SliceDecisionLogits(m)
         /\ Transform("overlap_experts", m) = OverlapExperts(m)
         /\ Transform("rear_view_refresh", m) = InstallStaggeredViews(m)
BY DEF Transform, CompileHeads, GraphHeads

LEMMA TransformTyped ==
  ASSUME NEW m \in Models, NEW v \in Plain \cup Marked, Fits(v, m)
  PROVE  Transform(v, m) \in Models
<1>1. CASE v \in Plain
  BY <1>1, PlainTransforms
<1>2. CASE v = "merge_lora"
  <2>1. Transform(v, m) = MergeLora(m) /\ ~ m.merged
    BY <1>2, MarkedTransforms DEF Fits
  <2> QED BY <2>1, MergeLoraIs
<1>3. CASE v = "cuda_graph_vit"
  BY <1>3, MarkedTransforms, GraphVitIs DEF Fits, Graphless
<1>4. CASE v = "compile:heads" \/ v = "cuda_graph_heads"
  BY <1>4, MarkedTransforms, CompileHeadsIs
<1>5. CASE v = "compile:llm"
  BY <1>5, MarkedTransforms, CompileLlmIs
<1>6. CASE v = "compile:vit"
  BY <1>6, MarkedTransforms, CompileVitIs
<1>7. CASE v = "logits_slice"
  BY <1>7, MarkedTransforms, SliceDecisionLogitsIs
<1>8. CASE v = "overlap_experts"
  BY <1>8, MarkedTransforms, OverlapExpertsIs
<1>9. CASE v = "rear_view_refresh"
  BY <1>9, MarkedTransforms, InstallStaggeredViewsIs
<1> QED BY <1>1, <1>2, <1>3, <1>4, <1>5, <1>6, <1>7, <1>8, <1>9 DEF Marked

\* Which of them leave which part of the model alone.
LEMMA TransformsLeave ==
  ASSUME NEW m \in Models, NEW v \in Plain \cup Marked, Fits(v, m)
  PROVE  LET n == Transform(v, m) IN
         /\ v \notin {"compile:vit", "cuda_graph_vit", "rear_view_refresh"} => SameVit(m, n)
         /\ v \notin {"compile:heads", "cuda_graph_heads"} => SameHeads(m, n)
         /\ v \notin {"merge_lora", "compile:llm"} => SameLlm(m, n)
         /\ v \notin {"merge_lora", "logits_slice", "overlap_experts"} => SameCalls(m, n)
         /\ v \in Marked => SameBlocks(m, n)
<1> DEFINE n == Transform(v, m)
<1>a. v \in Plain => v \notin Marked
  BY DEF Plain, Marked
<1>1. CASE v \in Plain
  BY <1>1, <1>a, PlainTransforms DEF SameForwards
<1>2. CASE v = "merge_lora"
  <2>1. n = MergeLora(m) /\ ~ m.merged
    BY <1>2, MarkedTransforms DEF Fits
  <2> HIDE DEF n
  <2>2. SameBlocks(m, n) /\ SameVit(m, n) /\ SameHeads(m, n)
    BY <2>1, MergeLoraIs
  <2> QED BY <1>2, <2>2 DEF n
<1>3. CASE v = "cuda_graph_vit"
  <2>1. n = GraphVit(m) /\ m.pregraph = Unset /\ ~ Has(m.vit.fwd, "graph")
    BY <1>3, MarkedTransforms DEF Fits, Graphless
  <2> HIDE DEF n
  <2>2. SameBlocks(m, n) /\ SameHeads(m, n) /\ SameLlm(m, n) /\ SameCalls(m, n)
    BY <2>1, GraphVitIs
  <2> QED BY <1>3, <2>2 DEF n
<1>4. CASE v = "compile:heads" \/ v = "cuda_graph_heads"
  <2>1. PICK how \in {"compile", "graphs"} : n = [m EXCEPT !.heads = CompileForward(@, how)]
    BY <1>4, MarkedTransforms
  <2> HIDE DEF n
  <2>2. SameBlocks(m, n) /\ SameVit(m, n) /\ SameLlm(m, n) /\ SameCalls(m, n)
    BY <2>1, CompileHeadsIs
  <2> QED BY <1>4, <2>2 DEF n
<1>5. CASE v = "compile:llm"
  <2>1. n = CompileLlm(m)
    BY <1>5, MarkedTransforms
  <2> HIDE DEF n
  <2>2. SameBlocks(m, n) /\ SameVit(m, n) /\ SameHeads(m, n) /\ SameCalls(m, n)
    BY <2>1, CompileLlmIs
  <2> QED BY <1>5, <2>2 DEF n
<1>6. CASE v = "compile:vit"
  <2>1. n = CompileVit(m)
    BY <1>6, MarkedTransforms
  <2> HIDE DEF n
  <2>2. SameBlocks(m, n) /\ SameHeads(m, n) /\ SameLlm(m, n) /\ SameCalls(m, n)
    BY <2>1, CompileVitIs
  <2> QED BY <1>6, <2>2 DEF n
<1>7. CASE v = "logits_slice"
  <2>1. n = SliceDecisionLogits(m)
    BY <1>7, MarkedTransforms
  <2> HIDE DEF n
  <2>2. SameBlocks(m, n) /\ SameVit(m, n) /\ SameHeads(m, n) /\ SameLlm(m, n)
    BY <2>1, SliceDecisionLogitsIs
  <2> QED BY <1>7, <2>2 DEF n
<1>8. CASE v = "overlap_experts"
  <2>1. n = OverlapExperts(m)
    BY <1>8, MarkedTransforms
  <2> HIDE DEF n
  <2>2. SameBlocks(m, n) /\ SameVit(m, n) /\ SameHeads(m, n) /\ SameLlm(m, n)
    BY <2>1, OverlapExpertsIs
  <2> QED BY <1>8, <2>2 DEF n
<1>9. CASE v = "rear_view_refresh"
  <2>1. n = InstallStaggeredViews(m)
    BY <1>9, MarkedTransforms
  <2> HIDE DEF n
  <2>2. SameBlocks(m, n) /\ SameHeads(m, n) /\ SameLlm(m, n) /\ SameCalls(m, n)
    BY <2>1, InstallStaggeredViewsIs
  <2> QED BY <1>9, <2>2 DEF n
<1> QED BY <1>1, <1>2, <1>3, <1>4, <1>5, <1>6, <1>7, <1>8, <1>9 DEF Marked

LEMMA BoundStays ==
  ASSUME NEW x \in Modules, NEW name, name # "nothing", Bound(x, name)
  PROVE  /\ \A how \in Wrappers : Bound(CompileForward(x, how), name)
         /\ Bound(Saved(x), name) /\ Bound(Restored(x), name)
<1>1. x.fwd \in Wrapped /\ x.eager \in Wrapped
  BY DEF Modules
<1> DEFINE u == IF x.eager = Unset THEN x.fwd ELSE x.eager
<1>2. u \in Wrapped /\ u.on = name
  BY <1>1 DEF Bound
<1>3. ASSUME NEW how \in Wrappers PROVE Bound(CompileForward(x, how), name)
  <2>1. /\ CompileForward(x, how).eager = u
        /\ CompileForward(x, how).fwd = Wrap(u, how)
    BY CompiledIs
  <2> HIDE DEF u
  <2>2. Wrap(u, how).on = name
    BY <1>2, WrapIs
  <2> QED BY <1>2, <2>1, <2>2 DEF Bound
<1>4. Bound(Saved(x), name)
  BY <1>2, SavedIs DEF Bound
<1>5. Bound(Restored(x), name)
  BY <1>2, RestoredIs DEF Bound
<1> QED BY <1>3, <1>4, <1>5

LEMMA OwnKept ==
  ASSUME NEW m \in Models, NEW n \in Models, SameLlm(m, n), n.method = m.method, OwnExperts(m)
  PROVE  OwnExperts(n)
BY DEF SameLlm, OwnExperts

LEMMA OwnTimed ==
  ASSUME NEW m \in Models, OwnExperts(m)
  PROVE  OwnExperts(WrapLlm(m))
<1> DEFINE n == WrapLlm(m)
<1>1. /\ SameLlm(m, n) /\ \A c \in Calls : n.method[c] \in {m.method[c], Timed(m.method[c])}
  BY WrapLlmIs
<1>2. \A c \in Calls : m.method[c] \in Wrapped
  BY DEF Models
<1> HIDE DEF n
<1>3. \A c \in Calls : n.method[c].on = m.method[c].on
  BY <1>1, <1>2, TimedIs
<1> QED BY <1>1, <1>3 DEF OwnExperts, SameLlm, n

LEMMA OwnTransforms ==
  ASSUME NEW m \in Models, NEW v \in Plain \cup Marked, Fits(v, m), OwnExperts(m)
  PROVE  OwnExperts(Transform(v, m))
<1> DEFINE n == Transform(v, m)
<1>0. n \in Models /\ \A c \in Calls : m.method[c] \in Wrapped /\ \A e \in Experts : m.llm[e] \in Modules
  BY TransformTyped DEF Models
<1> HIDE DEF n
<1>1. CASE v \notin {"merge_lora", "compile:llm", "logits_slice", "overlap_experts"}
  <2>1. SameLlm(m, n) /\ SameCalls(m, n)
    BY <1>1, TransformsLeave DEF n
  <2> QED BY <1>0, <2>1, OwnKept DEF n, SameCalls
<1>2. CASE v = "merge_lora"
  <2>1. n = MergeLora(m) /\ ~ m.merged
    BY <1>2, MarkedTransforms DEF Fits, n
  <2>2. /\ \A e \in Experts : m.llm[e].fwd = Bare("decision_expert") /\ m.llm[e].eager = Unset
        /\ \A c \in Calls : m.method[c] = Bare("decision_expert")
    BY <1>2, BareIs DEF Fits, Names, Experts
  <2>3. /\ Copied(Bare("decision_expert")) = Bare("action_expert") /\ Copied(Unset) = Unset
        /\ Bare("decision_expert").on = "decision_expert" /\ Bare("action_expert").on = "action_expert"
    BY BareIs, CopiedIs DEF Names, Experts
  <2>4. n.llm["decision_expert"].fwd = Bare("decision_expert") /\ n.llm["decision_expert"].eager = Unset
    BY <2>1, <2>2, MergeLoraIs DEF Experts
  <2>5. n.llm["action_expert"].fwd = Bare("action_expert") /\ n.llm["action_expert"].eager = Unset
    <3>1. n.llm["action_expert"] = [fwd |-> Copied(m.llm["action_expert"].fwd),
                                    eager |-> Copied(m.llm["action_expert"].eager)]
      BY <2>1, MergeLoraIs
    <3>2. /\ m.llm["action_expert"].fwd = Bare("decision_expert")
          /\ m.llm["action_expert"].eager = Unset
      BY <2>2 DEF Experts
    <3> QED BY <2>3, <3>1, <3>2
  <2>6. /\ n.method["inference_action_distribution"] = Bare("decision_expert")
        /\ n.method["inference_waypoints"] = Bare("action_expert")
    BY <2>1, <2>2, <2>3, MergeLoraIs DEF Calls
  <2> QED BY <2>3, <2>4, <2>5, <2>6 DEF OwnExperts, Bound, Experts, Calls, Owner, n
<1>3. CASE v = "compile:llm"
  <2>1. n.merged = m.merged /\ n.method = m.method /\ n.llm = [e \in Experts |-> CompileForward(m.llm[e], "compile")]
    BY <1>3, MarkedTransforms, CompileLlmIs DEF SameCalls, n
  <2>2. ASSUME NEW e \in Experts, Bound(m.llm[e], e) PROVE Bound(n.llm[e], e)
    <3>1. e # "nothing" /\ "compile" \in Wrappers
      BY DEF Experts, Wrappers
    <3>2. m.llm[e] \in Modules /\ n.llm[e] = CompileForward(m.llm[e], "compile")
      BY <2>1 DEF Models
    <3> QED BY <2>2, <3>1, <3>2, BoundStays
  <2> QED BY <2>1, <2>2 DEF OwnExperts, n
<1>4. CASE v = "logits_slice"
  <2>1. /\ SameLlm(m, n) /\ n.method["inference_waypoints"] = m.method["inference_waypoints"]
        /\ n.method["inference_action_distribution"] = Wrap(Bare("decision_expert"), "slice")
    BY <1>4, MarkedTransforms, SliceDecisionLogitsIs DEF n
  <2>2. Wrap(Bare("decision_expert"), "slice").on = "decision_expert"
    BY WrapIs, BareIs DEF Names, Experts, Wrappers
  <2> QED BY <2>1, <2>2 DEF OwnExperts, SameLlm, Calls, Owner, n
<1>5. CASE v = "overlap_experts"
  <2>1. /\ SameLlm(m, n)
        /\ \A c \in Calls : n.method[c] = IF m.overlap THEN m.method[c] ELSE Wrap(m.method[c], "overlap")
    <3>1. n = OverlapExperts(m)
      BY <1>5, MarkedTransforms DEF n
    <3> QED BY <3>1, OverlapExpertsIs
  <2>2. \A c \in Calls : n.method[c].on = m.method[c].on
    BY <1>0, <2>1, WrapIs DEF Wrappers
  <2> QED BY <2>1, <2>2 DEF OwnExperts, SameLlm, n
<1> QED BY <1>1, <1>2, <1>3, <1>4, <1>5 DEF Marked

LEMMA GraphKept ==
  ASSUME NEW m \in Models, NEW n \in Models, GraphSound(m), SameVit(m, n),
         SameBlocks(m, n) \/ Graphless(m) \/ Present(n) = Present(m)
  PROVE  GraphSound(n) /\ (Graphless(m) => Graphless(n))
<1>1. SameBlocks(m, n) => Present(n) = Present(m)
  BY PresentIs DEF SameVit
<1> QED BY <1>1 DEF GraphSound, Graphless, SameVit

\* What is in a weight, or a head, is not in the graph.
LEMMA PlainPresent ==
  ASSUME NEW m \in Models, NEW v \in Plain \ ChangesBackbone
  PROVE  Present(Transform(v, m)) = Present(m)
<1>1. v \in {"llm_attn", "down_proj_t", "int8:llm", "map_head_slice"}
  BY DEF Plain, ChangesBackbone
<1>2. /\ Transform("llm_attn", m) = SetLlmAttention(m)
      /\ Transform("down_proj_t", m) = TransposeDownProj(m)
      /\ Transform("int8:llm", m) = QuantizeLlm(m)
      /\ Transform("map_head_slice", m) = SliceMapHead(m)
  BY DEF Transform
<1>3. /\ Present(SetLlmAttention(m)) = Present(m)
      /\ Present(SliceMapHead(m)) = Present(m)
  BY DEF Models, Present, SetLlmAttention, SliceMapHead
<1>4. Present(TransposeDownProj(m)) = Present(m)
  BY DEF Models, Linears, Present, TransposeDownProj
<1>5. Present(QuantizeLlm(m)) = Present(m)
  BY DEF Models, Linears, Present, QuantizeLlm
<1> QED BY <1>1, <1>2, <1>3, <1>4, <1>5

LEMMA GraphTransforms ==
  ASSUME NEW m \in Models, NEW v \in Plain \cup Marked, Fits(v, m), GraphSound(m),
         Graphless(m) \/ v \notin ChangesBackbone
  PROVE  /\ GraphSound(Transform(v, m))
         /\ Graphless(m) /\ v # "cuda_graph_vit" => Graphless(Transform(v, m))
<1> DEFINE n == Transform(v, m)
<1>0. n \in Models
  BY TransformTyped
<1>a. m.vit \in Modules /\ m.vit.fwd \in Wrapped /\ m.vit.eager \in Wrapped
  BY DEF Models, Modules
<1> HIDE DEF n
<1>1. CASE v \notin {"compile:vit", "cuda_graph_vit", "rear_view_refresh"}
  <2>1. SameVit(m, n) /\ (v \in Marked => SameBlocks(m, n))
    BY <1>1, TransformsLeave DEF n
  <2>2. SameBlocks(m, n) \/ Graphless(m) \/ Present(n) = Present(m)
    BY <2>1, PlainPresent DEF n
  <2> QED BY <1>0, <2>1, <2>2, GraphKept DEF n
<1>2. CASE v = "compile:vit"
  <2>0. Graphless(m)
    BY <1>2 DEF ChangesBackbone
  <2>1. n.vit = CompileForward(m.vit, "compile") /\ n.pregraph = m.pregraph /\ n.captured = m.captured
    BY <1>2, MarkedTransforms, CompileVitIs DEF n
  <2>2. Bound(n.vit, "vit")
    BY <1>a, <2>1, BoundStays DEF GraphSound, Wrappers
  <2> DEFINE u == IF m.vit.eager = Unset THEN m.vit.fwd ELSE m.vit.eager
  <2>3. u \in Wrapped /\ ~ Has(u, "graph")
    BY <1>a, <2>0 DEF Graphless, GraphSound
  <2>4. n.vit.eager = u /\ n.vit.fwd = Wrap(u, "compile")
    BY <1>a, <2>1, CompiledIs DEF Wrappers
  <2> HIDE DEF u
  <2>5. ~ Has(n.vit.fwd, "graph")
    BY <2>3, <2>4, WrapIs DEF Wrappers
  <2> QED BY <2>0, <2>1, <2>2, <2>3, <2>4, <2>5 DEF GraphSound, Graphless, n
<1>3. CASE v = "cuda_graph_vit"
  <2>0. Graphless(m)
    BY <1>3 DEF Fits
  <2>1. /\ n.vit.fwd = Wrap(m.vit.fwd, "graph") /\ n.vit.eager = m.vit.eager
        /\ n.pregraph = m.vit.fwd /\ n.captured = {}
    BY <1>3, <2>0, MarkedTransforms, GraphVitIs DEF n, Graphless
  <2>2. Wrap(m.vit.fwd, "graph").on = m.vit.fwd.on
    BY <1>a, WrapIs DEF Wrappers
  <2>3. m.vit.fwd # Unset
    BY DEF GraphSound, Bound, Unset
  <2> QED BY <1>3, <2>0, <2>1, <2>2, <2>3 DEF GraphSound, Graphless, Bound, n
<1>4. CASE v = "rear_view_refresh"
  <2>1. /\ SameBlocks(m, n) /\ n.vit.eager = m.vit.eager
        /\ n.vit.fwd = (IF m.stagger THEN m.vit.fwd ELSE Wrap(m.vit.fwd, "stagger"))
        /\ n.pregraph = m.pregraph /\ n.captured = m.captured
    <3>1. n = InstallStaggeredViews(m)
      BY <1>4, MarkedTransforms DEF n
    <3> QED BY <3>1, InstallStaggeredViewsIs
  <2>2. /\ n.vit.fwd.on = m.vit.fwd.on
        /\ \A w \in {"graph", "compile"} : Has(n.vit.fwd, w) <=> Has(m.vit.fwd, w)
    BY <1>a, <2>1, WrapIs DEF Wrappers
  <2>3. Present(n) = Present(m)
    BY <1>0, <2>1, <2>2, PresentIs
  <2> QED BY <2>1, <2>2, <2>3 DEF GraphSound, Graphless, Bound, n
<1> QED BY <1>1, <1>2, <1>3, <1>4 DEF Marked

\* The experts are as they were built until they are merged, and when the ViT
\* is captured nothing is to come that changes it.
Mergeable    == Coming("merge_lora") => Fits("merge_lora", model)
WeightsOwned == Mergeable /\ OwnExperts(model)
GraphCurrent ==
  /\ GraphSound(model)
  /\ Graphless(model) \/ \A v \in ChangesBackbone : ~ Coming(v)

SpeedupsInvariant == SpeedupsTyped /\ WeightsOwned /\ GraphCurrent

\* On the node, or in a bench whose lists are in order.
VariantsInOrder == \A list \in Variants : WellOrdered(list)
GivenInOrder    == user = "node" \/ VariantsInOrder

\* A transform has raised.
Raised(m) == {m, [m EXCEPT !.pipeline = 512], [m EXCEPT !.broken = TRUE]}

LEMMA RaisedIs ==
  ASSUME NEW m \in Models,
         NEW n \in Raised(m)
  PROVE  n \in Models /\ SameForwards(m, n) /\ SameBlocks(m, n)
<1>1. CASE n = m
  BY <1>1 DEF SameForwards, SameBlocks, SameVit, SameHeads, SameLlm, SameCalls
<1>2. CASE n = [m EXCEPT !.pipeline = 512]
  <2> DEFINE size == 512
  <2>1. size \in Nat /\ n = [m EXCEPT !.pipeline = size]
    BY <1>2
  <2> HIDE DEF size
  <2> QED BY <2>1 DEF Models, SameForwards, SameBlocks, SameVit, SameHeads, SameLlm, SameCalls
<1>3. CASE n = [m EXCEPT !.broken = TRUE]
  <2>1. n \in Models
    BY <1>3 DEF Models
  <2> QED BY <1>3, <2>1 DEF Models, SameForwards, SameBlocks, SameVit, SameHeads, SameLlm, SameCalls
<1> QED BY <1>1, <1>2, <1>3 DEF Raised

LEMMA OnlySavedIs ==
  ASSUME model \in Models, NEW v \in Compilations
  PROVE  LET n == OnlySaved(v) IN
         /\ n \in Models /\ SameBlocks(model, n) /\ SameCalls(model, n)
         /\ n.pregraph = model.pregraph /\ n.captured = model.captured /\ n.stagger = model.stagger
         /\ n.heads = IF v = "compile:heads" THEN Saved(model.heads) ELSE model.heads
         /\ n.vit = IF v = "compile:vit" THEN Saved(model.vit) ELSE model.vit
         /\ \A e \in Experts : n.llm[e] \in {model.llm[e], Saved(model.llm[e])}
<1> DEFINE n == OnlySaved(v)
<1>0. /\ Saved(model.heads) \in Modules /\ Saved(model.vit) \in Modules
      /\ \A e \in Experts : Saved(model.llm[e]) \in Modules
  BY SavedIs DEF Models
<1>1. CASE v = "compile:heads"
  <2>1. n = [model EXCEPT !.heads = Saved(@)]
    BY <1>1 DEF OnlySaved
  <2> HIDE DEF n
  <2>2. /\ n \in Models /\ SameBlocks(model, n) /\ SameCalls(model, n) /\ n.llm = model.llm
        /\ n.pregraph = model.pregraph /\ n.captured = model.captured /\ n.stagger = model.stagger
        /\ n.heads = Saved(model.heads) /\ n.vit = model.vit
    BY <1>0, <2>1 DEF Models, SameBlocks, SameCalls
  <2> QED BY <1>1, <2>2 DEF n
<1>2. CASE v = "compile:vit"
  <2>1. n = [model EXCEPT !.vit = Saved(@)]
    BY <1>2 DEF OnlySaved
  <2> HIDE DEF n
  <2>2. /\ n \in Models /\ SameBlocks(model, n) /\ SameCalls(model, n) /\ n.llm = model.llm
        /\ n.pregraph = model.pregraph /\ n.captured = model.captured /\ n.stagger = model.stagger
        /\ n.vit = Saved(model.vit) /\ n.heads = model.heads
    BY <1>0, <2>1 DEF Models, SameBlocks, SameCalls
  <2> QED BY <1>2, <2>2 DEF n
<1>3. CASE v = "compile:llm"
  <2> DEFINE a == Saved(model.llm["action_expert"])
             d == IF model.merged THEN model.llm["decision_expert"] ELSE Saved(model.llm["decision_expert"])
  <2>1. n = [model EXCEPT !.llm["action_expert"] = a, !.llm["decision_expert"] = d]
    <3>1. n = [model EXCEPT !.llm["action_expert"] = Saved(@),
                            !.llm["decision_expert"] = IF model.merged THEN @ ELSE Saved(@)]
      BY <1>3 DEF OnlySaved
    <3> QED BY <3>1 DEF Models, Experts
  <2>2. a \in Modules /\ d \in Modules
    BY <1>0 DEF Models, Experts
  <2>3. d \in {model.llm["decision_expert"], Saved(model.llm["decision_expert"])}
    OBVIOUS
  <2>4. a = Saved(model.llm["action_expert"])
    OBVIOUS
  <2> HIDE DEF n, a, d
  <2>5. /\ n \in Models /\ SameBlocks(model, n) /\ SameCalls(model, n)
        /\ n.pregraph = model.pregraph /\ n.captured = model.captured /\ n.stagger = model.stagger
        /\ n.heads = model.heads /\ n.vit = model.vit
        /\ n.llm["action_expert"] = a /\ n.llm["decision_expert"] = d
    BY <2>1, <2>2 DEF Models, SameBlocks, SameCalls, Experts
  <2> QED BY <1>3, <2>3, <2>4, <2>5 DEF n, Experts
<1> QED BY <1>1, <1>2, <1>3 DEF Compilations

\* All that a step can do with the model: go on without a change, change it as
\* the next speedup does, with a timer or without, or as part of one does, ...
Changed(v, n) ==
  n \in {Transform(v, model), WrapLlm(Transform(v, model))}

LEMMA StepsAre ==
  ASSUME SpeedupsTyped, SpeedupsNext
  PROVE  \/ TakeNext /\ stage' \in {"apply", "failed"} /\ applied' = applied /\ model' = model
         \/ /\ TakeNext /\ stage' \in {"run", "apply"} /\ (stage' = "run" <=> user = "bench")
            /\ Changed(Speedup, model') /\ applied' \in {applied, Append(applied, Speedup)}
         \/ /\ TakeNext /\ stage' = stage /\ applied' = applied
            /\ Speedup \in Compilations /\ model' = OnlySaved(Speedup)
         \/ /\ TakeNext /\ stage' \in {"apply", "failed"} /\ applied' = applied
            /\ model' \in Raised(model)
         \* ... or run it, on the node when all is done ...
         \/ /\ user = "node" /\ stage = "apply" /\ stage' = "ready" /\ todo = <<>>
            /\ UNCHANGED <<user, todo, applied>>
            /\ model' \in {model, WrapLlm(model), Captures(model), Captures(WrapLlm(model))}
         \* ... and in the bench now and then, which may take things back.
         \/ /\ stage = "run" /\ stage' = "apply" /\ UNCHANGED <<user, todo, applied>>
            /\ model' \in {model, Captures(model), UngraphVit(UncompileSubmodules(model))}
<1>1. CASE Skip
  BY <1>1 DEF Skip, TakeNext
<1>2. CASE Apply
  <2>1. TakeNext /\ stage' = (IF user = "bench" THEN "run" ELSE "apply")
    BY <1>2 DEF Apply, Asked
  <2>2. Changed(Speedup, model') /\ applied' \in {applied, Append(applied, Speedup)}
    BY <1>2 DEF Apply, Changed
  <2> QED BY <2>1, <2>2
<1>3. CASE CompileRaises
  BY <1>3 DEF CompileRaises, Asked
<1>4. CASE SpeedupRaises
  <2>1. TakeNext /\ stage' = (IF user = "node" THEN "failed" ELSE "apply") /\ applied' = applied
    BY <1>4 DEF SpeedupRaises, Asked
  <2>2. model' \in Raised(model)
    BY <1>4 DEF SpeedupRaises, Raised
  <2> QED BY <2>1, <2>2
<1>5. CASE WarmUp
  <2>1. model' \in {model, WrapLlm(model), Captures(model), Captures(WrapLlm(model))}
    BY <1>5 DEF WarmUp
  <2> QED BY <1>5, <2>1 DEF WarmUp
<1>6. CASE RunFrames
  BY <1>6 DEF RunFrames
<1>7. CASE RunFails
  BY <1>7 DEF RunFails
<1> QED BY <1>1, <1>2, <1>3, <1>4, <1>5, <1>6, <1>7 DEF SpeedupsNext

\* The sound models, and those an action makes of them.
Sound(m) == m \in Models /\ OwnExperts(m) /\ GraphSound(m)

LEMMA TimedSound ==
  ASSUME NEW m, Sound(m)
  PROVE  Sound(WrapLlm(m)) /\ (Graphless(m) => Graphless(WrapLlm(m)))
<1>1. m \in Models /\ OwnExperts(m) /\ GraphSound(m)
  BY DEF Sound
<1>2. WrapLlm(m) \in Models /\ SameVit(m, WrapLlm(m)) /\ SameBlocks(m, WrapLlm(m))
  BY <1>1, WrapLlmIs
<1> QED BY <1>1, <1>2, OwnTimed, GraphKept DEF Sound

LEMMA CapturedSound ==
  ASSUME NEW m, Sound(m)
  PROVE  Sound(Captures(m)) /\ (Graphless(m) => Graphless(Captures(m)))
<1> DEFINE n == Captures(m)
<1>1. m \in Models /\ OwnExperts(m) /\ GraphSound(m)
  BY DEF Sound
<1>2. /\ n \in Models /\ SameBlocks(m, n) /\ SameLlm(m, n) /\ SameCalls(m, n)
      /\ n.vit = m.vit /\ n.pregraph = m.pregraph
      /\ \A g \in n.captured : g \in m.captured \/ g[2] = Present(m)
  BY <1>1, CapturesIs
<1> HIDE DEF n
<1>3. Present(n) = Present(m)
  BY <1>1, <1>2, PresentIs
<1>4. OwnExperts(n)
  BY <1>1, <1>2, OwnKept DEF SameCalls
<1>5. GraphSound(n) /\ (Graphless(m) => Graphless(n))
  BY <1>1, <1>2, <1>3 DEF GraphSound, Graphless
<1> QED BY <1>2, <1>4, <1>5 DEF Sound, n

LEMMA TakenBackSound ==
  ASSUME NEW m, Sound(m)
  PROVE  /\ Sound(UngraphVit(UncompileSubmodules(m)))
         /\ Graphless(UngraphVit(UncompileSubmodules(m)))
<1> DEFINE n == UngraphVit(UncompileSubmodules(m))
<1>1. m \in Models /\ OwnExperts(m) /\ GraphSound(m)
  BY DEF Sound
<1>2. /\ n \in Models /\ SameCalls(m, n) /\ n.llm = [e \in Experts |-> Restored(m.llm[e])]
      /\ n.pregraph = Unset /\ n.vit.eager = Unset
      /\ n.vit.fwd = IF m.pregraph = Unset THEN Restored(m.vit).fwd ELSE m.pregraph
  BY <1>1, TakenBackIs
<1> HIDE DEF n
<1>3. m.vit \in Modules /\ \A e \in Experts : m.llm[e] \in Modules
  BY <1>1 DEF Models
<1>4. ASSUME NEW e \in Experts, Bound(m.llm[e], e) PROVE Bound(n.llm[e], e)
  <2>1. m.llm[e] \in Modules /\ n.llm[e] = Restored(m.llm[e]) /\ e # "nothing"
    BY <1>2, <1>3 DEF Experts
  <2> QED BY <1>4, <2>1, BoundStays
<1>5. OwnExperts(n)
  BY <1>1, <1>2, <1>4 DEF OwnExperts, SameCalls
<1>6. Restored(m.vit).fwd = IF m.vit.eager = Unset THEN m.vit.fwd ELSE m.vit.eager
  BY <1>3, RestoredIs
<1>7. ~ Has(Unset, "graph")
  BY BareIs DEF Names
<1>8. n.vit.fwd.on = "vit" /\ ~ Has(n.vit.fwd, "graph")
  BY <1>1, <1>2, <1>6 DEF GraphSound, Bound
<1> QED BY <1>2, <1>5, <1>7, <1>8 DEF Sound, GraphSound, Graphless, Bound, n

LEMMA SavedSound ==
  ASSUME Sound(model), NEW v \in Compilations, Graphless(model) \/ v # "compile:vit"
  PROVE  Sound(OnlySaved(v)) /\ (Graphless(model) => Graphless(OnlySaved(v)))
<1> DEFINE n == OnlySaved(v)
<1>1. model \in Models /\ OwnExperts(model) /\ GraphSound(model)
  BY DEF Sound
<1>2. /\ n \in Models /\ SameCalls(model, n) /\ SameBlocks(model, n)
      /\ n.pregraph = model.pregraph /\ n.captured = model.captured /\ n.stagger = model.stagger
      /\ n.vit = IF v = "compile:vit" THEN Saved(model.vit) ELSE model.vit
      /\ \A e \in Experts : n.llm[e] \in {model.llm[e], Saved(model.llm[e])}
  BY <1>1, OnlySavedIs
<1> HIDE DEF n
<1>3. model.vit \in Modules /\ \A e \in Experts : model.llm[e] \in Modules
  BY <1>1 DEF Models
<1>4. ASSUME NEW e \in Experts, Bound(model.llm[e], e) PROVE Bound(n.llm[e], e)
  <2>1. model.llm[e] \in Modules /\ n.llm[e] \in {model.llm[e], Saved(model.llm[e])} /\ e # "nothing"
    BY <1>2, <1>3 DEF Experts
  <2> QED BY <1>4, <2>1, BoundStays
<1>5. OwnExperts(n)
  BY <1>1, <1>2, <1>4 DEF OwnExperts, SameCalls
<1>6. /\ Saved(model.vit).fwd = model.vit.fwd
      /\ Saved(model.vit).eager \in {model.vit.fwd, model.vit.eager}
      /\ Bound(Saved(model.vit), "vit")
  BY <1>1, <1>3, SavedIs, BoundStays DEF GraphSound
<1>7. GraphSound(n) /\ (Graphless(model) => Graphless(n))
  <2>1. CASE v = "compile:vit"
    BY <1>1, <1>2, <1>6, <2>1 DEF GraphSound, Graphless
  <2>2. CASE v # "compile:vit"
    BY <1>1, <1>2, <2>2, GraphKept DEF SameVit
  <2> QED BY <2>1, <2>2
<1> QED BY <1>2, <1>5, <1>7 DEF Sound, n

LEMMA RaisedSound ==
  ASSUME NEW m, Sound(m),
         NEW n \in Raised(m)
  PROVE  Sound(n) /\ (Graphless(m) => Graphless(n))
<1>1. m \in Models /\ OwnExperts(m) /\ GraphSound(m)
  BY DEF Sound
<1>2. n \in Models /\ SameForwards(m, n) /\ SameBlocks(m, n)
  BY <1>1, RaisedIs
<1> QED BY <1>1, <1>2, OwnKept, GraphKept DEF Sound, SameForwards, SameCalls

\* The experts stay as they were built through everything that does not replace them.
LEMMA FitsKept ==
  ASSUME NEW m, NEW n, Fits("merge_lora", m), SameLlm(m, n), n.method = m.method
  PROVE  Fits("merge_lora", n)
BY DEF Fits, SameLlm

LEMMA FitsRest ==
  ASSUME NEW m \in Models, Fits("merge_lora", m)
  PROVE  /\ Fits("merge_lora", WrapLlm(m)) /\ Fits("merge_lora", Captures(m))
         /\ Fits("merge_lora", UngraphVit(UncompileSubmodules(m)))
         /\ \A n \in Raised(m) : Fits("merge_lora", n)
<1>0. ~ m.merged /\ \A e \in Experts : m.llm[e] = Module("decision_expert")
  BY DEF Fits
<1>1. Fits("merge_lora", WrapLlm(m))
  BY <1>0, WrapLlmIs, FitsKept
<1>2. Fits("merge_lora", Captures(m))
  BY CapturesIs, FitsKept DEF SameCalls
<1>3. ASSUME NEW n \in Raised(m) PROVE Fits("merge_lora", n)
  BY RaisedIs, FitsKept DEF SameForwards, SameCalls
<1>4. Fits("merge_lora", UngraphVit(UncompileSubmodules(m)))
  <2> DEFINE n == UngraphVit(UncompileSubmodules(m))
  <2>1. SameCalls(m, n) /\ n.llm = [e \in Experts |-> Restored(m.llm[e])]
    BY TakenBackIs
  <2> HIDE DEF n
  <2>2. Restored(Module("decision_expert")) = Module("decision_expert")
    BY DEF Restored, Module
  <2>3. \A e \in Experts : n.llm[e] = m.llm[e]
    BY <1>0, <2>1, <2>2
  <2> QED BY <2>1, <2>3 DEF Fits, SameCalls, n
<1> QED BY <1>1, <1>2, <1>3, <1>4

LEMMA FitsTransforms ==
  ASSUME NEW m \in Models, Fits("merge_lora", m), NEW v \in Plain \cup Marked, Fits(v, m),
         v \notin ReplacesExperts \cup {"merge_lora"}
  PROVE  Fits("merge_lora", Transform(v, m))
<1> DEFINE n == Transform(v, m)
<1>1. SameLlm(m, n) /\ SameCalls(m, n)
  BY TransformsLeave DEF ReplacesExperts
<1> HIDE DEF n
<1> QED BY <1>1, FitsKept DEF SameCalls, n

LEMMA FitsSaved ==
  ASSUME model \in Models, Fits("merge_lora", model), NEW v \in Compilations, v # "compile:llm"
  PROVE  Fits("merge_lora", OnlySaved(v))
<1> DEFINE n == OnlySaved(v)
<1>1. SameCalls(model, n)
  BY OnlySavedIs
<1>2. n.llm = model.llm
  BY DEF OnlySaved, Compilations
<1> HIDE DEF n
<1> QED BY <1>1, <1>2, FitsKept DEF SameCalls, SameLlm, n

LEMMA SpeedupsStart == SpeedupsInit /\ GivenInOrder => SpeedupsInvariant
<1> SUFFICES ASSUME SpeedupsInit, GivenInOrder PROVE SpeedupsInvariant
  OBVIOUS
<1>1. /\ stage = "apply" /\ applied = <<>>
      /\ \/ user = "node" /\ todo = NodeOrder /\ model = Built
         \/ user = "bench" /\ todo \in Variants /\ model = WrapLlm(Built)
  BY DEF SpeedupsInit
<1>2. WellOrdered(todo) /\ todo \in Seq(Plain \cup Marked)
  <2>1. WellOrdered(todo)
    BY <1>1, NodeInOrder DEF GivenInOrder, VariantsInOrder
  <2> QED BY <2>1, KnownAre DEF WellOrdered
<1>3. Fits("merge_lora", Built) /\ Graphless(Built) /\ OwnExperts(Built) /\ Built \in Models
  BY BuiltIs, BareIs DEF Fits, Graphless, OwnExperts, Names
<1>4. GraphSound(Built)
  BY BuiltIs, BareIs DEF GraphSound, Bound, Names
<1>5. Sound(model) /\ Graphless(model) /\ Fits("merge_lora", model)
  BY <1>1, <1>3, <1>4, TimedSound, FitsRest DEF Sound
<1>6. user = "node" => Left = 18 /\ \A i \in 1..18 : todo[i] = NodeOrder[18 - 18 + i]
  <2>1. Len(NodeOrder) = 18
    BY DEF NodeOrder
  <2> QED BY <1>1, <2>1 DEF Left
<1>7. applied \in Seq(Plain \cup Marked)
  BY <1>1
<1>8. user = "node" => Left \in 0..18 /\ \A i \in 1..Left : todo[i] = NodeOrder[18 - Left + i]
  BY <1>6
<1>9. SpeedupsTyped
  BY <1>1, <1>2, <1>5, <1>7, <1>8 DEF SpeedupsTyped, Sound
<1> QED BY <1>5, <1>9 DEF SpeedupsInvariant, WeightsOwned, Mergeable, GraphCurrent, Sound

\* On the node what is left is the end of its list.
LEMMA NodeRest ==
  ASSUME SpeedupsTyped, TakeNext, user = "node"
  PROVE  Left' \in 0..18 /\ \A i \in 1..Left' : todo'[i] = NodeOrder[18 - Left' + i]
<1> DEFINE n == Left
<1>1. n \in 1..18 /\ Left' = n - 1 /\ \A i \in 1..n - 1 : todo'[i] = todo[i + 1]
  BY TakeNextIs DEF SpeedupsTyped
<1>2. \A i \in 1..n : todo[i] = NodeOrder[18 - n + i]
  BY DEF SpeedupsTyped
<1> HIDE DEF n
<1>3. ASSUME NEW i \in 1..n - 1 PROVE todo'[i] = NodeOrder[18 - (n - 1) + i]
  <2>1. i + 1 \in 1..n /\ 18 - (n - 1) + i = 18 - n + (i + 1)
    BY <1>1
  <2> QED BY <1>1, <1>2, <2>1
<1> QED BY <1>1, <1>3

LEMMA SpeedupsStep == SpeedupsInvariant /\ [SpeedupsNext]_speedupsVars => SpeedupsInvariant'
<1> SUFFICES ASSUME SpeedupsInvariant, [SpeedupsNext]_speedupsVars PROVE SpeedupsInvariant'
  OBVIOUS
<1>a. /\ SpeedupsTyped /\ Sound(model) /\ Mergeable
      /\ Graphless(model) \/ \A v \in ChangesBackbone : ~ Coming(v)
  BY DEF SpeedupsInvariant, WeightsOwned, GraphCurrent, Sound, SpeedupsTyped
<1>b. SUFFICES ASSUME SpeedupsNext PROVE SpeedupsInvariant'
  <2>1. CASE UNCHANGED speedupsVars
    BY <2>1 DEF speedupsVars, SpeedupsInvariant, SpeedupsTyped, WeightsOwned, Mergeable, GraphCurrent,
                Coming, Left
  <2> QED BY <2>1
<1>c. user \in {"node", "bench"} /\ applied \in Seq(Plain \cup Marked) /\ model \in Models
  BY <1>a DEF SpeedupsTyped
\* A speedup has come up: the model stays mergeable if the merge is still to come.
<1>1. ASSUME TakeNext, Sound(model'), stage' \in {"apply", "failed", "run"}, user = "node" => stage' # "run",
             applied' \in {applied, Append(applied, Speedup)},
             Fits("merge_lora", model) /\ Speedup \notin ReplacesExperts \cup {"merge_lora"} =>
               Fits("merge_lora", model'),
             Graphless(model) /\ Speedup # "cuda_graph_vit" => Graphless(model')
      PROVE  SpeedupsInvariant'
  <2>1. /\ user' = user /\ todo' \in Seq(Plain \cup Marked) /\ WellOrdered(todo')
        /\ Speedup \in Plain \cup Marked
    BY <1>a, <1>1, TakeNextIs
  <2>2. applied' \in Seq(Plain \cup Marked)
    <3>1. applied \in Seq(Plain \cup Marked) /\ applied' \in {applied, Append(applied, Speedup)}
      BY <1>1, <1>c
    <3>2. Append(applied, Speedup) \in Seq(Plain \cup Marked)
      BY <2>1, <3>1, AppendProperties
    <3> QED BY <3>1, <3>2
  <2>3. SpeedupsTyped'
    <3>1. user = "node" => Left' \in 0..18 /\ \A i \in 1..Left' : todo'[i] = NodeOrder[18 - Left' + i]
      BY <1>a, <1>1, NodeRest
    <3> QED BY <1>1, <1>c, <2>1, <2>2, <3>1 DEF SpeedupsTyped, Sound
  <2>4. Mergeable'
    <3>1. SUFFICES ASSUME Coming("merge_lora")' PROVE Fits("merge_lora", model')
      BY DEF Mergeable
    <3>2. Coming("merge_lora") /\ Speedup \notin ReplacesExperts \cup {"merge_lora"}
      BY <1>a, <1>1, <3>1, TakeNextIs
    <3> QED BY <1>a, <1>1, <3>2 DEF Mergeable
  <2>5. Graphless(model') \/ \A v \in ChangesBackbone : ~ Coming(v)'
    BY <1>a, <1>1, TakeNextIs
  <2> QED BY <1>1, <2>3, <2>4, <2>5
          DEF SpeedupsInvariant, WeightsOwned, GraphCurrent, Sound
\* Frames are run.
<1>2. ASSUME UNCHANGED <<user, todo, applied>>, Sound(model'), Graphless(model) => Graphless(model'),
             stage' \in {"apply", "ready"}, Fits("merge_lora", model) => Fits("merge_lora", model')
      PROVE  SpeedupsInvariant'
  <2>1. SpeedupsTyped'
    BY <1>a, <1>2 DEF SpeedupsTyped, Left, Sound
  <2>2. \A v : Coming(v)' <=> Coming(v)
    BY <1>2 DEF Coming
  <2> QED BY <1>a, <1>2, <2>1, <2>2
          DEF SpeedupsInvariant, WeightsOwned, Mergeable, GraphCurrent, Sound
<1>3. CASE TakeNext /\ stage' \in {"apply", "failed"} /\ applied' = applied /\ model' = model
  BY <1>1, <1>3, <1>a, <1>c
<1>4. CASE /\ TakeNext /\ stage' \in {"run", "apply"} /\ (stage' = "run" <=> user = "bench")
           /\ Changed(Speedup, model') /\ applied' \in {applied, Append(applied, Speedup)}
  <2> DEFINE n == Transform(Speedup, model)
  <2>1. Speedup \in Plain \cup Marked /\ Coming(Speedup)
    BY <1>a, <1>4, TakeNextIs
  <2>2. Graphless(model) \/ Speedup \notin ChangesBackbone
    BY <1>a, <2>1
  <2>3. Fits(Speedup, model)
    <3>1. Speedup = "merge_lora" => Fits("merge_lora", model)
      BY <1>a, <2>1 DEF Mergeable
    <3>2. Speedup = "cuda_graph_vit" => Graphless(model)
      BY <2>2 DEF ChangesBackbone
    <3> QED BY <3>1, <3>2 DEF Fits
  <2> HIDE DEF n
  <2>4. Sound(n) /\ (Graphless(model) /\ Speedup # "cuda_graph_vit" => Graphless(n))
    BY <1>a, <2>1, <2>2, <2>3, TransformTyped, OwnTransforms, GraphTransforms DEF Sound, n
  <2>5. Sound(model') /\ (Graphless(n) => Graphless(model'))
    BY <1>4, <2>4, TimedSound DEF Changed, n
  <2>6. ASSUME Fits("merge_lora", model), Speedup \notin ReplacesExperts \cup {"merge_lora"}
        PROVE  Fits("merge_lora", model')
    <3>1. Fits("merge_lora", n)
      BY <1>c, <2>1, <2>3, <2>6, FitsTransforms DEF n
    <3>2. Fits("merge_lora", WrapLlm(n))
      BY <2>4, <3>1, FitsRest DEF Sound
    <3> QED BY <1>4, <3>1, <3>2 DEF Changed, n
  <2> QED BY <1>1, <1>4, <1>c, <2>4, <2>5, <2>6
<1>5. CASE /\ TakeNext /\ stage' = stage /\ applied' = applied
           /\ Speedup \in Compilations /\ model' = OnlySaved(Speedup)
  <2>1. stage = "apply" /\ Coming(Speedup)
    BY <1>a, <1>5, TakeNextIs
  <2>2. Graphless(model) \/ Speedup # "compile:vit"
    BY <1>a, <2>1 DEF ChangesBackbone
  <2>3. Sound(model') /\ (Graphless(model) => Graphless(model'))
    BY <1>a, <1>5, <2>2, SavedSound
  <2>4. ASSUME Fits("merge_lora", model), Speedup \notin ReplacesExperts \cup {"merge_lora"}
        PROVE  Fits("merge_lora", model')
    <3>1. Speedup # "compile:llm"
      BY <2>4 DEF ReplacesExperts
    <3> QED BY <1>5, <1>c, <2>4, <3>1, FitsSaved
  <2> QED BY <1>1, <1>5, <2>1, <2>3, <2>4
<1>6. CASE /\ TakeNext /\ stage' \in {"apply", "failed"} /\ applied' = applied
           /\ model' \in Raised(model)
  <2>1. Sound(model') /\ (Graphless(model) => Graphless(model'))
    BY <1>a, <1>6, RaisedSound
  <2>2. Fits("merge_lora", model) => Fits("merge_lora", model')
    BY <1>6, <1>c, FitsRest
  <2> QED BY <1>1, <1>6, <1>a, <1>c, <2>1, <2>2
<1>7. CASE /\ user = "node" /\ stage = "apply" /\ stage' = "ready" /\ todo = <<>>
           /\ UNCHANGED <<user, todo, applied>>
           /\ model' \in {model, WrapLlm(model), Captures(model), Captures(WrapLlm(model))}
  <2>1. Sound(WrapLlm(model)) /\ (Graphless(model) => Graphless(WrapLlm(model)))
    BY <1>a, TimedSound
  <2>2. Sound(model') /\ (Graphless(model) => Graphless(model'))
    BY <1>a, <1>7, <2>1, CapturedSound
  <2>3. ASSUME Fits("merge_lora", model) PROVE Fits("merge_lora", model')
    <3>1. WrapLlm(model) \in Models /\ Fits("merge_lora", WrapLlm(model)) /\ Fits("merge_lora", Captures(model))
      BY <1>c, <2>1, <2>3, FitsRest DEF Sound
    <3>2. Fits("merge_lora", Captures(WrapLlm(model)))
      BY <3>1, FitsRest
    <3> QED BY <1>7, <2>3, <3>1, <3>2
  <2> QED BY <1>2, <1>7, <2>2, <2>3
<1>8. CASE /\ stage = "run" /\ stage' = "apply" /\ UNCHANGED <<user, todo, applied>>
           /\ model' \in {model, Captures(model), UngraphVit(UncompileSubmodules(model))}
  <2>1. Sound(model') /\ (Graphless(model) => Graphless(model'))
    BY <1>a, <1>8, CapturedSound, TakenBackSound
  <2>2. Fits("merge_lora", model) => Fits("merge_lora", model')
    BY <1>8, <1>c, FitsRest
  <2> QED BY <1>2, <1>8, <2>1, <2>2
<1> QED BY <1>3, <1>4, <1>5, <1>6, <1>7, <1>8, <1>a, <1>b, StepsAre

\* The steps of the other parts leave the model alone, and none changes who applies them.
LEMMA OnlySpeedupsStep == PartNext => [SpeedupsNext]_speedupsVars
BY DEF PartNext

LEMMA SameUser == [SpeedupsNext]_speedupsVars => user' = user
BY DEF SpeedupsNext, Skip, Apply, CompileRaises, SpeedupRaises, Asked, TakeNext, WarmUp, RunFrames,
       RunFails, speedupsVars

\* The speedups of the node, and any of them in a bench whose lists are in order,
\* raising anywhere or taken back, leave the model object sound.
THEOREM SpeedupsInductive == PartSpec => [](GivenInOrder => SpeedupsInvariant)
<1> DEFINE Inv == GivenInOrder => SpeedupsInvariant
<1>1. PartInit => Inv
  BY SpeedupsStart DEF PartInit
<1>2. Inv /\ [PartNext]_allParts => Inv'
  <2>1. [PartNext]_allParts => [SpeedupsNext]_speedupsVars
    BY OnlySpeedupsStep DEF allParts
  <2>2. [SpeedupsNext]_speedupsVars => (GivenInOrder' => GivenInOrder)
    BY SameUser DEF GivenInOrder, VariantsInOrder
  <2> QED BY <2>1, <2>2, SpeedupsStep
<1> QED BY <1>1, <1>2, PTL DEF PartSpec

\* Whatever is applied, tried or taken back, in any lists that merge before they
\* replace the forwards and methods of the experts and capture the ViT after they
\* change it (the node's order and the default of the bench do), each expert
\* answers with its own weights, and a captured graph replays the backbone as it
\* now is ("either exact or a precision change").
THEOREM ExpertsKeepTheirModel ==
  ASSUME \A list \in Variants : WellOrdered(list)
  PROVE  PartSpec => []SameModel
<1>1. GivenInOrder
  BY DEF GivenInOrder, VariantsInOrder
<1>2. (GivenInOrder => SpeedupsInvariant) => SameModel
  BY <1>1 DEF SpeedupsInvariant, WeightsOwned, GraphCurrent, OwnExperts, GraphSound, Bound, SameModel
<1> QED BY <1>2, SpeedupsInductive, PTL

-----------------------------------------------------------------------------
(* what the node logs is in effect                                         *)

\* A speedup is not logged before its turn, ...
LoggedInTurn == \A v \in Marked : IsApplied(v) => Left < Turn(v)

\* ... and until then it finds its part of the model as it was built, or as the
\* ones before it have left it.
VitOnNode ==
  /\ Left >= 6 => model.vit = Module("vit")
  /\ Left >= 1 => model.stagger = FALSE
  /\ model.vit.fwd.wraps = VitWraps
HeadsOnNode ==
  /\ Left >= 5 /\ ~ IsApplied("compile:heads") =>
       model.heads.fwd = Bare("heads") /\ model.heads.eager \in {Unset, Bare("heads")}
  /\ model.heads.fwd.wraps = HeadsWraps
LlmOnNode ==
  /\ Left >= 7 => \A e \in Experts : model.llm[e].eager.wraps = <<>>
  /\ \A e \in Experts : model.llm[e].fwd.wraps = By("compile:llm", "compile")
CallsOnNode ==
  /\ Left >= 2 => model.overlap = FALSE
  /\ stage = "apply" =>
       \A c \in Calls : model.outer[c] = Unset /\ model.method[c].wraps = CallWraps(c)
  /\ \A c \in Calls : Path(model, c).wraps \in {CallWraps(c), Append(CallWraps(c), "timer")}

NodeInvariant ==
  user = "node" /\ stage # "failed" =>
    LoggedInTurn /\ VitOnNode /\ HeadsOnNode /\ LlmOnNode /\ CallsOnNode

LEMMA AppliedIs ==
  ASSUME applied \in Seq(Plain \cup Marked), NEW v,
         applied' = applied \/ (applied' = Append(applied, v) /\ v \in Plain \cup Marked)
  PROVE  \A u : IsApplied(u)' <=> IsApplied(u) \/ (u = v /\ applied' # applied)
<1>1. Len(applied) \in Nat /\ DOMAIN applied = 1..Len(applied)
  BY LenProperties
<1>2. CASE applied' = applied
  BY <1>2 DEF IsApplied
<1>3. CASE applied' = Append(applied, v) /\ v \in Plain \cup Marked
  <2> DEFINE longer == Append(applied, v)
  <2>0. /\ Len(longer) = Len(applied) + 1 /\ longer[Len(applied) + 1] = v
        /\ longer \in Seq(Plain \cup Marked)
        /\ \A i \in 1..Len(applied) : longer[i] = applied[i]
    BY <1>3, AppendProperties
  <2>a. DOMAIN longer = 1..Len(longer)
    BY <2>0, LenProperties
  <2> HIDE DEF longer
  <2>b. applied' = longer
    BY <1>3 DEF longer
  <2>1. /\ DOMAIN applied' = 1..Len(applied) + 1 /\ applied'[Len(applied) + 1] = v
        /\ \A i \in 1..Len(applied) : applied'[i] = applied[i]
    BY <2>0, <2>a, <2>b
  <2>2. DOMAIN applied' = DOMAIN applied \cup {Len(applied) + 1}
    BY <1>1, <2>1
  <2>3. Len(applied) + 1 \notin DOMAIN applied
    BY <1>1
  <2>4. applied' # applied
    BY <2>2, <2>3
  <2>5. ASSUME NEW u PROVE IsApplied(u)' <=> IsApplied(u) \/ u = v
    BY <1>1, <2>1, <2>2 DEF IsApplied
  <2> QED BY <2>4, <2>5
<1> QED BY <1>2, <1>3

\* The steps of the node that do not end in a failure.
NodeApplies ==
  /\ TakeNext /\ stage' = "apply" /\ model' = Transform(Speedup, model)
  /\ applied' = IF model' # model THEN Append(applied, Speedup) ELSE applied
  /\ Speedup = "cuda_graph_heads" => ~ IsApplied("compile:heads")
NodeOnlySaves ==
  /\ TakeNext /\ stage' = "apply" /\ applied' = applied
  /\ Speedup \in Compilations /\ model' = OnlySaved(Speedup)
NodeSkips == TakeNext /\ stage' = "apply" /\ applied' = applied /\ model' = model
NodeWarms ==
  /\ stage = "apply" /\ stage' = "ready" /\ todo = <<>> /\ UNCHANGED <<user, todo, applied>>
  /\ model' \in {model, WrapLlm(model), Captures(model), Captures(WrapLlm(model))}

LEMMA NodeSteps ==
  ASSUME SpeedupsTyped, SpeedupsNext, user = "node", stage' # "failed"
  PROVE  stage = "apply" /\ (NodeApplies \/ NodeOnlySaves \/ NodeSkips \/ NodeWarms)
<1>0. user # "bench" /\ stage # "run"
  BY DEF SpeedupsTyped
<1>1. CASE Skip
  BY <1>1 DEF Skip, TakeNext, NodeSkips
<1>2. CASE Apply
  <2>1. TakeNext /\ stage = "apply" /\ stage' = "apply" /\ model' = Transform(Speedup, model)
    BY <1>0, <1>2 DEF Apply, Asked, TakeNext
  <2>2. applied' = IF model' # model THEN Append(applied, Speedup) ELSE applied
    BY <1>0, <1>2 DEF Apply
  <2>3. Speedup = "cuda_graph_heads" => ~ IsApplied("compile:heads")
    BY <1>2 DEF Apply, Asked, IsApplied
  <2> QED BY <2>1, <2>2, <2>3 DEF NodeApplies
<1>3. CASE CompileRaises
  BY <1>3 DEF CompileRaises, Asked, TakeNext, NodeOnlySaves
<1>4. CASE SpeedupRaises
  BY <1>4 DEF SpeedupRaises
<1>5. CASE WarmUp
  <2>1. model' \in {model, WrapLlm(model), Captures(model), Captures(WrapLlm(model))}
    BY <1>5 DEF WarmUp
  <2> QED BY <1>5, <2>1 DEF WarmUp, NodeWarms
<1>6. CASE RunFrames \/ RunFails
  BY <1>0, <1>6 DEF RunFrames, RunFails
<1> QED BY <1>1, <1>2, <1>3, <1>4, <1>5, <1>6 DEF SpeedupsNext

LEMMA ByIs ==
  ASSUME NEW v, NEW w
  PROVE  /\ IsApplied(v) => By(v, w) = <<w>>
         /\ ~ IsApplied(v) => By(v, w) = <<>>
BY DEF By

\* The wrappers on a part stay what they are if nothing of its own is logged.
LEMMA SameWraps ==
  ASSUME applied \in Seq(Plain \cup Marked), applied' = applied
  PROVE  /\ VitWraps' = VitWraps /\ HeadsWraps' = HeadsWraps
         /\ By("compile:llm", "compile")' = By("compile:llm", "compile")
         /\ \A c \in Calls : CallWraps(c)' = CallWraps(c)
         /\ \A v : IsApplied(v)' <=> IsApplied(v)
BY DEF VitWraps, HeadsWraps, CallWraps, By, IsApplied

\* When a speedup of the node comes up.
LEMMA NodeTurns ==
  ASSUME SpeedupsTyped, TakeNext, user = "node"
  PROVE  /\ Left \in 1..18 /\ Left' = Left - 1 /\ user' = "node"
         /\ Speedup \in Plain \cup Marked
         /\ Speedup \in Plain => Left \in 9..17
         /\ Speedup = "merge_lora" <=> Left = 18
         /\ Speedup = "compile:heads" <=> Left = 8
         /\ Speedup = "compile:llm" <=> Left = 7
         /\ Speedup = "compile:vit" <=> Left = 6
         /\ Speedup = "cuda_graph_heads" <=> Left = 5
         /\ Speedup = "cuda_graph_vit" <=> Left = 4
         /\ Speedup = "logits_slice" <=> Left = 3
         /\ Speedup = "overlap_experts" <=> Left = 2
         /\ Speedup = "rear_view_refresh" <=> Left = 1
         /\ \A v \in Marked : Turn(v)' = Turn(v) /\ Turn(v) \in Nat
         /\ \A v \in Marked : Speedup = v => Left = Turn(v)
<1> DEFINE n == Left
<1>1. n \in 1..18 /\ Left' = n - 1 /\ user' = "node" /\ Speedup = todo[1]
  BY TakeNextIs DEF SpeedupsTyped
<1>2. \A i \in 1..n : todo[i] = NodeOrder[18 - n + i]
  BY DEF SpeedupsTyped
<1> HIDE DEF n
<1>3. Speedup = NodeOrder[19 - n] /\ 19 - n \in 1..18 /\ 19 - (19 - n) = n
  <2>1. 1 \in 1..n /\ 18 - n + 1 = 19 - n /\ 19 - n \in 1..18 /\ 19 - (19 - n) = n
    BY <1>1
  <2> QED BY <1>1, <1>2, <2>1
<1>4. /\ Speedup \in Plain \cup Marked
      /\ Speedup \in Plain => 19 - n \in 2..10
      /\ \A v \in Marked : Speedup = v <=> n = Turn(v)
  BY <1>3, NodeOrderIs
<1>5. Speedup \in Plain => n \in 9..17
  BY <1>1, <1>4
<1>6. \A v \in Marked : Turn(v)' = Turn(v) /\ Turn(v) \in Nat
  BY DEF Turn, Marked
<1> QED BY <1>1, <1>4, <1>5, <1>6, TurnsAre DEF Marked, n

\* The ViT of the node is not captured before the turn of its graph.
LEMMA NodeGraphless ==
  ASSUME SpeedupsTyped, GraphCurrent, user = "node", Left >= Turn("cuda_graph_vit")
  PROVE  Graphless(model)
<1>1. Left \in 4..18 /\ \A i \in 1..Left : todo[i] = NodeOrder[18 - Left + i]
  BY TurnsAre DEF SpeedupsTyped
<1> DEFINE i == Left - 3
<1>2. i \in 1..Left /\ 18 - Left + i = 15
  BY <1>1
<1> HIDE DEF i
<1>3. todo[i] = NodeOrder[15] /\ NodeOrder[15] = "cuda_graph_vit"
  BY <1>1, <1>2 DEF NodeOrder
<1>4. Coming("cuda_graph_vit") /\ "cuda_graph_vit" \in ChangesBackbone
  BY <1>2, <1>3 DEF Coming, Left, ChangesBackbone
<1> QED BY <1>4 DEF GraphCurrent

LEMMA NotLogged ==
  ASSUME SpeedupsTyped, LoggedInTurn, user = "node"
  PROVE  /\ Left >= 8 => ~ IsApplied("compile:heads")
         /\ Left >= 7 => ~ IsApplied("compile:llm")
         /\ Left >= 6 => ~ IsApplied("compile:vit")
         /\ Left >= 5 => ~ IsApplied("cuda_graph_heads")
         /\ Left >= 4 => ~ IsApplied("cuda_graph_vit")
         /\ Left >= 3 => ~ IsApplied("logits_slice")
         /\ Left >= 2 => ~ IsApplied("overlap_experts")
         /\ Left >= 1 => ~ IsApplied("rear_view_refresh")
<1>0. Left \in 0..18
  BY DEF SpeedupsTyped
<1> QED BY <1>0, TurnsAre DEF LoggedInTurn, Marked

\* One speedup is applied, and it is logged if the model is not what it was.
Applies(v, n) ==
  /\ SpeedupsTyped /\ user = "node"
  /\ LoggedInTurn /\ VitOnNode /\ HeadsOnNode /\ LlmOnNode /\ CallsOnNode
  /\ Left >= Turn("cuda_graph_vit") => Graphless(model)
  /\ TakeNext /\ stage' = "apply" /\ Speedup = v /\ model' = n /\ n = Transform(v, model)
  /\ Fits(v, model) /\ model \in Models /\ n \in Models
  /\ v \in Plain \cup Marked
  /\ \A u : IsApplied(u)' <=> IsApplied(u) \/ (u = v /\ n # model)
  /\ v = "cuda_graph_heads" => ~ IsApplied("compile:heads")

LEMMA AppliesIs ==
  ASSUME SpeedupsInvariant, NodeInvariant, user = "node", stage = "apply", NodeApplies
  PROVE  Applies(Speedup, model')
<1>1. /\ SpeedupsTyped /\ GraphCurrent /\ Mergeable
      /\ LoggedInTurn /\ VitOnNode /\ HeadsOnNode /\ LlmOnNode /\ CallsOnNode
  BY DEF SpeedupsInvariant, WeightsOwned, NodeInvariant
<1>2. /\ TakeNext /\ stage' = "apply" /\ model' = Transform(Speedup, model)
      /\ Speedup = "cuda_graph_heads" => ~ IsApplied("compile:heads")
      /\ applied' = IF model' # model THEN Append(applied, Speedup) ELSE applied
  BY DEF NodeApplies
<1>3. model \in Models /\ applied \in Seq(Plain \cup Marked) /\ Speedup \in Plain \cup Marked
  BY <1>1, <1>2, NodeTurns DEF SpeedupsTyped
<1>4. Fits(Speedup, model)
  <2>1. Speedup = "merge_lora" => Fits("merge_lora", model)
    BY <1>1, <1>2, TakeNextIs DEF Mergeable
  <2>2. Speedup = "cuda_graph_vit" => Graphless(model)
    <3>1. Speedup = "cuda_graph_vit" => Left >= Turn("cuda_graph_vit")
      BY <1>1, <1>2, NodeTurns, TurnsAre
    <3> QED BY <1>1, <3>1, NodeGraphless
  <2> QED BY <2>1, <2>2 DEF Fits
<1>5. \A u : IsApplied(u)' <=> IsApplied(u) \/ (u = Speedup /\ applied' # applied)
  BY <1>2, <1>3, AppliedIs
<1>6. applied' # applied <=> model' # model
  <2>1. Append(applied, Speedup) # applied
    <3>1. Len(Append(applied, Speedup)) = Len(applied) + 1 /\ Len(applied) \in Nat
      BY <1>3, AppendProperties, LenProperties
    <3> QED BY <3>1
  <2> QED BY <1>2, <2>1
<1>7. model' \in Models
  BY <1>2, <1>3, <1>4, TransformTyped
<1>8. Left >= Turn("cuda_graph_vit") => Graphless(model)
  BY <1>1, NodeGraphless
<1> QED BY <1>1, <1>2, <1>3, <1>4, <1>5, <1>6, <1>7, <1>8 DEF Applies

LEMMA VitApplies ==
  ASSUME NEW v, NEW n, Applies(v, n)
  PROVE  VitOnNode'
<1>1. /\ model \in Models /\ n \in Models /\ model' = n /\ n = Transform(v, model) /\ Fits(v, model)
      /\ v \in Plain \cup Marked /\ user = "node" /\ LoggedInTurn /\ SpeedupsTyped
      /\ \A u : IsApplied(u)' <=> IsApplied(u) \/ (u = v /\ n # model)
  BY DEF Applies
<1>2. /\ Left \in 1..18 /\ Left' = Left - 1
      /\ v = "compile:vit" <=> Left = 6
      /\ v = "cuda_graph_vit" <=> Left = 4
      /\ v = "rear_view_refresh" <=> Left = 1
  BY NodeTurns DEF Applies
<1>3. /\ Left >= 6 => model.vit = Module("vit")
      /\ model.stagger = FALSE
      /\ model.vit.fwd.wraps = VitWraps
  BY <1>2 DEF Applies, VitOnNode
<1>4. VitWraps = By("compile:vit", "compile") \o By("cuda_graph_vit", "graph")
                   \o By("rear_view_refresh", "stagger")
  BY DEF VitWraps
<1>5. VitWraps' = By("compile:vit", "compile")' \o By("cuda_graph_vit", "graph")'
                    \o By("rear_view_refresh", "stagger")'
  BY DEF VitWraps
<1>v. model.vit.fwd \in Wrapped
  BY <1>1 DEF Models, Modules
<1>6. CASE v \notin {"compile:vit", "cuda_graph_vit", "rear_view_refresh"}
  <2>1. n.vit = model.vit /\ n.stagger = model.stagger
    BY <1>1, <1>6, TransformsLeave DEF SameVit
  <2>2. /\ By("compile:vit", "compile")' = By("compile:vit", "compile")
        /\ By("cuda_graph_vit", "graph")' = By("cuda_graph_vit", "graph")
        /\ By("rear_view_refresh", "stagger")' = By("rear_view_refresh", "stagger")
    BY <1>1, <1>6 DEF By
  <2>3. VitWraps' = VitWraps
    BY <1>4, <1>5, <2>2
  <2>4. Left' >= 6 => Left >= 6
    BY <1>2
  <2> QED BY <1>1, <1>3, <2>1, <2>3, <2>4 DEF VitOnNode
<1>7. CASE v = "compile:vit"
  <2>1. Left = 6 /\ Left' = 5 /\ model.vit = Module("vit")
    BY <1>2, <1>3, <1>7
  <2>2. ~ IsApplied("compile:vit") /\ ~ IsApplied("cuda_graph_vit") /\ ~ IsApplied("rear_view_refresh")
    BY <1>1, <2>1, NotLogged
  <2>3. n.vit = CompileForward(model.vit, "compile") /\ n.stagger = model.stagger
    <3>1. n = CompileVit(model)
      BY <1>1, <1>7, MarkedTransforms
    <3> QED BY <1>1, <3>1, CompileVitIs
  <2>4. /\ model.vit \in Modules /\ model.vit.fwd = Bare("vit") /\ model.vit.eager = Unset
        /\ Bare("vit").wraps = <<>> /\ Bare("vit") \in Wrapped
    BY <2>1, BareIs DEF Names
  <2>5. n.vit.fwd = Wrap(Bare("vit"), "compile")
    BY <2>3, <2>4, CompiledIs DEF Wrappers
  <2>6. n.vit.fwd.wraps = <<"compile">>
    BY <2>4, <2>5, WrapIs DEF Wrappers
  <2>7. n # model
    <3>1. <<"compile">> # <<>>
      OBVIOUS
    <3>2. model.vit.fwd.wraps = <<>>
      BY <2>4
    <3> QED BY <2>6, <3>1, <3>2
  <2>8. /\ IsApplied("compile:vit")' /\ ~ IsApplied("cuda_graph_vit")' /\ ~ IsApplied("rear_view_refresh")'
    BY <1>1, <1>7, <2>2, <2>7
  <2>9. VitWraps' = <<"compile">> \o <<>> \o <<>>
    BY <1>5, <2>8 DEF By
  <2> QED BY <1>1, <1>3, <2>1, <2>3, <2>6, <2>9 DEF VitOnNode
<1>8. CASE v = "cuda_graph_vit"
  <2>1. Left = 4 /\ Left' = 3
    BY <1>2, <1>8
  <2>2. ~ IsApplied("cuda_graph_vit") /\ ~ IsApplied("rear_view_refresh")
    BY <1>1, <2>1, NotLogged
  <2>3. n.vit.fwd = Wrap(model.vit.fwd, "graph") /\ n.stagger = model.stagger
    <3>1. n = GraphVit(model) /\ model.pregraph = Unset /\ ~ Has(model.vit.fwd, "graph")
      BY <1>1, <1>8, MarkedTransforms DEF Fits, Graphless
    <3> QED BY <1>1, <3>1, GraphVitIs
  <2>4. n.vit.fwd.wraps = Append(VitWraps, "graph")
    BY <1>3, <1>v, <2>3, WrapIs DEF Wrappers
  <2>5. VitWraps = By("compile:vit", "compile") \o <<>> \o <<>>
    BY <1>4, <2>2 DEF By
  <2>6. By("compile:vit", "compile") \in {<<>>, <<"compile">>}
    BY DEF By
  <2>7. n.vit.fwd.wraps = By("compile:vit", "compile") \o <<"graph">> \o <<>> /\ n.vit.fwd.wraps # VitWraps
    BY <2>4, <2>5, <2>6
  <2>8. n # model
    BY <1>3, <2>7
  <2>9. /\ IsApplied("compile:vit")' <=> IsApplied("compile:vit")
        /\ IsApplied("cuda_graph_vit")' /\ ~ IsApplied("rear_view_refresh")'
    BY <1>1, <1>8, <2>2, <2>8
  <2>10. VitWraps' = By("compile:vit", "compile") \o <<"graph">> \o <<>>
    BY <1>5, <2>9 DEF By
  <2> QED BY <1>1, <1>3, <2>1, <2>3, <2>7, <2>10 DEF VitOnNode
<1>9. CASE v = "rear_view_refresh"
  <2>1. Left = 1 /\ Left' = 0
    BY <1>2, <1>9
  <2>2. ~ IsApplied("rear_view_refresh")
    BY <1>1, <2>1, NotLogged
  <2>3. n.vit.fwd = Wrap(model.vit.fwd, "stagger") /\ n.stagger
    <3>1. n = InstallStaggeredViews(model)
      BY <1>1, <1>9, MarkedTransforms
    <3> QED BY <1>1, <1>3, <3>1, InstallStaggeredViewsIs
  <2>4. n.vit.fwd.wraps = Append(VitWraps, "stagger")
    BY <1>3, <1>v, <2>3, WrapIs DEF Wrappers
  <2>5. VitWraps = By("compile:vit", "compile") \o By("cuda_graph_vit", "graph") \o <<>>
    BY <1>4, <2>2 DEF By
  <2>6. By("compile:vit", "compile") \in {<<>>, <<"compile">>} /\ By("cuda_graph_vit", "graph") \in {<<>>, <<"graph">>}
    BY DEF By
  <2>7. n.vit.fwd.wraps = By("compile:vit", "compile") \o By("cuda_graph_vit", "graph") \o <<"stagger">>
    BY <2>4, <2>5, <2>6
  <2>8. n # model
    BY <1>3, <2>3
  <2>9. /\ IsApplied("compile:vit")' <=> IsApplied("compile:vit")
        /\ IsApplied("cuda_graph_vit")' <=> IsApplied("cuda_graph_vit")
        /\ IsApplied("rear_view_refresh")'
    BY <1>1, <1>9, <2>8
  <2>10. VitWraps' = By("compile:vit", "compile") \o By("cuda_graph_vit", "graph") \o <<"stagger">>
    BY <1>5, <2>9 DEF By
  <2> QED BY <1>1, <2>1, <2>7, <2>10 DEF VitOnNode
<1> QED BY <1>6, <1>7, <1>8, <1>9

LEMMA HeadsApply ==
  ASSUME NEW v, NEW n, Applies(v, n)
  PROVE  HeadsOnNode'
<1>1. /\ model \in Models /\ n \in Models /\ model' = n /\ n = Transform(v, model) /\ Fits(v, model)
      /\ v \in Plain \cup Marked /\ user = "node" /\ LoggedInTurn /\ SpeedupsTyped
      /\ \A u : IsApplied(u)' <=> IsApplied(u) \/ (u = v /\ n # model)
  BY DEF Applies
<1>2. /\ Left \in 1..18 /\ Left' = Left - 1
      /\ v = "compile:heads" <=> Left = 8
      /\ v = "cuda_graph_heads" <=> Left = 5
  BY NodeTurns DEF Applies
<1>3. /\ Left >= 5 /\ ~ IsApplied("compile:heads") =>
           model.heads.fwd = Bare("heads") /\ model.heads.eager \in {Unset, Bare("heads")}
      /\ model.heads.fwd.wraps = HeadsWraps
  BY DEF Applies, HeadsOnNode
<1>4. HeadsWraps' = By("compile:heads", "compile")' \o By("cuda_graph_heads", "graphs")'
  BY DEF HeadsWraps
<1>5. CASE v \notin {"compile:heads", "cuda_graph_heads"}
  <2>1. n.heads = model.heads
    BY <1>1, <1>5, TransformsLeave DEF SameHeads
  <2>2. /\ IsApplied("compile:heads")' <=> IsApplied("compile:heads")
        /\ IsApplied("cuda_graph_heads")' <=> IsApplied("cuda_graph_heads")
    BY <1>1, <1>5
  <2>3. HeadsWraps' = HeadsWraps
    BY <1>4, <2>2 DEF By, HeadsWraps
  <2>4. Left' >= 5 => Left >= 5
    BY <1>2
  <2> QED BY <1>1, <1>3, <2>1, <2>2, <2>3, <2>4 DEF HeadsOnNode
<1> DEFINE how == IF v = "compile:heads" THEN "compile" ELSE "graphs"
<1>6. CASE v \in {"compile:heads", "cuda_graph_heads"}
  <2>1. Left \in {8, 5} /\ (Left = 8 => v = "compile:heads") /\ (Left' >= 5 => v = "compile:heads")
    BY <1>2, <1>6
  <2>2. ~ IsApplied("compile:heads") /\ ~ IsApplied("cuda_graph_heads")
    <3>1. ~ IsApplied("cuda_graph_heads") /\ (Left >= 8 => ~ IsApplied("compile:heads"))
      BY <1>1, <2>1, NotLogged
    <3>2. v = "cuda_graph_heads" => ~ IsApplied("compile:heads")
      BY DEF Applies
    <3> QED BY <1>2, <1>6, <3>1, <3>2
  <2>3. model.heads.fwd = Bare("heads") /\ model.heads.eager \in {Unset, Bare("heads")}
    BY <1>3, <2>1, <2>2
  <2>4. n.heads = CompileForward(model.heads, how)
    <3>1. n = [model EXCEPT !.heads = CompileForward(@, how)]
      BY <1>1, <1>6, MarkedTransforms
    <3> QED BY <1>1, <3>1, CompileHeadsIs
  <2>5. how \in Wrappers /\ Bare("heads").wraps = <<>> /\ Bare("heads") \in Wrapped /\ model.heads \in Modules
    BY <1>1, BareIs DEF Names, Wrappers, Models
  <2> HIDE DEF how
  <2>6. n.heads.fwd = Wrap(Bare("heads"), how)
    <3>1. (IF model.heads.eager = Unset THEN model.heads.fwd ELSE model.heads.eager) = Bare("heads")
      BY <2>3
    <3> QED BY <2>4, <2>5, <3>1, CompiledIs
  <2>7. n.heads.fwd.wraps = <<how>>
    BY <2>5, <2>6, WrapIs
  <2>8. n # model
    <3>1. <<how>> # <<>>
      OBVIOUS
    <3>2. model.heads.fwd.wraps = <<>>
      BY <2>3, <2>5
    <3> QED BY <2>7, <3>1, <3>2
  <2>9. /\ IsApplied("compile:heads")' <=> v = "compile:heads"
        /\ IsApplied("cuda_graph_heads")' <=> v = "cuda_graph_heads"
    BY <1>1, <1>6, <2>2, <2>8
  <2>10. HeadsWraps' = <<how>>
    <3>1. CASE v = "compile:heads"
      <4>1. HeadsWraps' = <<"compile">> \o <<>> /\ how = "compile"
        BY <1>4, <2>9, <3>1 DEF By, how
      <4> QED BY <4>1
    <3>2. CASE v = "cuda_graph_heads"
      <4>1. HeadsWraps' = <<>> \o <<"graphs">> /\ how = "graphs"
        BY <1>4, <2>9, <3>2 DEF By, how
      <4> QED BY <4>1
    <3> QED BY <1>6, <3>1, <3>2
  <2> QED BY <1>1, <2>1, <2>7, <2>9, <2>10 DEF HeadsOnNode
<1> QED BY <1>5, <1>6

LEMMA LlmApplies ==
  ASSUME NEW v, NEW n, Applies(v, n)
  PROVE  LlmOnNode'
<1>1. /\ model \in Models /\ n \in Models /\ model' = n /\ n = Transform(v, model) /\ Fits(v, model)
      /\ v \in Plain \cup Marked /\ user = "node" /\ LoggedInTurn /\ SpeedupsTyped
      /\ \A u : IsApplied(u)' <=> IsApplied(u) \/ (u = v /\ n # model)
  BY DEF Applies
<1>2. /\ Left \in 1..18 /\ Left' = Left - 1
      /\ v = "merge_lora" <=> Left = 18
      /\ v = "compile:llm" <=> Left = 7
  BY NodeTurns DEF Applies
<1>3. /\ Left >= 7 => \A e \in Experts : model.llm[e].eager.wraps = <<>>
      /\ \A e \in Experts : model.llm[e].fwd.wraps = By("compile:llm", "compile")
  BY DEF Applies, LlmOnNode
<1>m. \A e \in Experts : model.llm[e] \in Modules /\ model.llm[e].fwd \in Wrapped /\ model.llm[e].eager \in Wrapped
  BY <1>1 DEF Models, Modules
<1>4. CASE v # "compile:llm"
  <2>1. \A e \in Experts : /\ n.llm[e].fwd.wraps = model.llm[e].fwd.wraps
                           /\ n.llm[e].eager.wraps = model.llm[e].eager.wraps
    <3>1. CASE v # "merge_lora"
      BY <1>1, <1>4, <3>1, TransformsLeave DEF SameLlm
    <3>2. CASE v = "merge_lora"
      <4>1. n = MergeLora(model) /\ ~ model.merged
        BY <1>1, <3>2, MarkedTransforms DEF Fits
      <4>2. /\ n.llm["decision_expert"] = model.llm["decision_expert"]
            /\ n.llm["action_expert"] = [fwd |-> Copied(model.llm["action_expert"].fwd),
                                         eager |-> Copied(model.llm["action_expert"].eager)]
        BY <1>1, <4>1, MergeLoraIs
      <4>3. \A e \in Experts : /\ Copied(model.llm[e].fwd).wraps = model.llm[e].fwd.wraps
                               /\ Copied(model.llm[e].eager).wraps = model.llm[e].eager.wraps
        BY <1>m, CopiedIs
      <4> QED BY <4>2, <4>3 DEF Experts
    <3> QED BY <3>1, <3>2
  <2>2. By("compile:llm", "compile")' = By("compile:llm", "compile")
    BY <1>1, <1>4 DEF By
  <2>3. Left' >= 7 => Left >= 7
    BY <1>2
  <2> QED BY <1>1, <1>3, <2>1, <2>2, <2>3 DEF LlmOnNode
<1>5. CASE v = "compile:llm"
  <2>1. Left = 7 /\ ~ (Left' >= 7)
    BY <1>2, <1>5
  <2>2. ~ IsApplied("compile:llm")
    BY <1>1, <2>1, NotLogged
  <2>3. \A e \in Experts : model.llm[e].fwd.wraps = <<>> /\ model.llm[e].eager.wraps = <<>>
    BY <1>3, <2>1, <2>2 DEF By
  <2>4. \A e \in Experts : n.llm[e] = CompileForward(model.llm[e], "compile")
    <3>1. n = CompileLlm(model)
      BY <1>1, <1>5, MarkedTransforms
    <3>2. model \in Models
      BY <1>1
    <3>3. n.llm = [e \in Experts |-> CompileForward(model.llm[e], "compile")]
      BY <3>1, <3>2, CompileLlmIs
    <3> QED BY <3>3
  <2>5. ASSUME NEW e \in Experts PROVE n.llm[e].fwd.wraps = <<"compile">>
    <3> DEFINE u == IF model.llm[e].eager = Unset THEN model.llm[e].fwd ELSE model.llm[e].eager
    <3>1. u \in Wrapped /\ u.wraps = <<>>
      BY <1>m, <2>3
    <3>2. n.llm[e].fwd = Wrap(u, "compile")
      BY <1>m, <2>4, CompiledIs DEF Wrappers
    <3> HIDE DEF u
    <3> QED BY <3>1, <3>2, WrapIs DEF Wrappers
  <2>6. n # model
    BY <2>3, <2>5 DEF Experts
  <2>7. By("compile:llm", "compile")' = <<"compile">>
    BY <1>1, <1>5, <2>6 DEF By
  <2> QED BY <1>1, <2>1, <2>5, <2>7 DEF LlmOnNode
<1> QED BY <1>4, <1>5

\* Without a timer on the PeftModel, the methods are what is called.
LEMMA PathIs ==
  ASSUME NEW m \in Models, NEW c \in Calls, m.outer[c] = Unset
  PROVE  Path(m, c) = m.method[c]
BY DEF Path

LEMMA CallsApply ==
  ASSUME NEW v, NEW n, Applies(v, n), stage = "apply"
  PROVE  CallsOnNode'
<1>1. /\ model \in Models /\ n \in Models /\ model' = n /\ n = Transform(v, model) /\ Fits(v, model)
      /\ v \in Plain \cup Marked /\ user = "node" /\ LoggedInTurn /\ SpeedupsTyped
      /\ \A u : IsApplied(u)' <=> IsApplied(u) \/ (u = v /\ n # model)
  BY DEF Applies
<1>2. /\ Left \in 1..18 /\ Left' = Left - 1
      /\ v = "merge_lora" <=> Left = 18
      /\ v = "logits_slice" <=> Left = 3
      /\ v = "overlap_experts" <=> Left = 2
  BY NodeTurns DEF Applies
<1>3. /\ Left >= 2 => model.overlap = FALSE
      /\ \A c \in Calls : model.outer[c] = Unset /\ model.method[c].wraps = CallWraps(c)
  BY DEF Applies, CallsOnNode
<1>m. \A c \in Calls : model.method[c] \in Wrapped
  BY <1>1 DEF Models
<1>4. SUFFICES /\ Left' >= 2 => n.overlap = FALSE
               /\ \A c \in Calls : n.outer[c] = Unset /\ n.method[c].wraps = CallWraps(c)'
  BY <1>1, PathIs DEF CallsOnNode, CallWraps
<1>5. CASE v \notin {"logits_slice", "overlap_experts"}
  <2>1. \A c \in Calls : CallWraps(c)' = CallWraps(c)
    BY <1>1, <1>5 DEF CallWraps, By
  <2>2. n.overlap = model.overlap /\ \A c \in Calls : n.outer[c] = Unset /\ n.method[c].wraps = model.method[c].wraps
    <3>1. CASE v # "merge_lora"
      BY <1>1, <1>3, <1>5, <3>1, TransformsLeave DEF SameCalls
    <3>2. CASE v = "merge_lora"
      <4>1. n = MergeLora(model) /\ ~ model.merged
        BY <1>1, <3>2, MarkedTransforms DEF Fits
      <4>2. /\ n.overlap = model.overlap /\ \A c \in Calls : n.outer[c] = Unset
            /\ n.method["inference_action_distribution"] = model.method["inference_action_distribution"]
            /\ n.method["inference_waypoints"] = Copied(model.method["inference_waypoints"])
        <5>1. model \in Models
          BY <1>1
        <5> QED BY <4>1, <5>1, MergeLoraIs
      <4>3. \A c \in Calls : Copied(model.method[c]).wraps = model.method[c].wraps
        BY <1>m, CopiedIs
      <4> QED BY <4>2, <4>3 DEF Calls
    <3> QED BY <3>1, <3>2
  <2>3. Left' >= 2 => Left >= 2
    BY <1>2
  <2> QED BY <1>3, <2>1, <2>2, <2>3
<1>6. CASE v = "logits_slice"
  <2>1. Left = 3 /\ Left' = 2
    BY <1>2, <1>6
  <2>2. ~ IsApplied("logits_slice") /\ ~ IsApplied("overlap_experts")
    BY <1>1, <2>1, NotLogged
  <2>3. /\ n.outer = model.outer /\ n.overlap = model.overlap
        /\ n.method["inference_waypoints"] = model.method["inference_waypoints"]
        /\ n.method["inference_action_distribution"] = Wrap(Bare("decision_expert"), "slice")
    <3>1. n = SliceDecisionLogits(model)
      BY <1>1, <1>6, MarkedTransforms
    <3> QED BY <1>1, <3>1, SliceDecisionLogitsIs
  <2>4. Wrap(Bare("decision_expert"), "slice").wraps = <<"slice">>
    <3>1. Bare("decision_expert") \in Wrapped /\ Bare("decision_expert").wraps = <<>>
      BY BareIs DEF Names, Experts
    <3> QED BY <3>1, WrapIs DEF Wrappers
  <2>5. CallWraps("inference_action_distribution") = <<>> \o <<>> /\ CallWraps("inference_waypoints") = <<>>
    BY <2>2 DEF CallWraps, By
  <2>6. n # model
    <3>1. model.method["inference_action_distribution"].wraps = <<>>
      BY <1>3, <2>5 DEF Calls
    <3> QED BY <2>3, <2>4, <3>1
  <2>7. IsApplied("logits_slice")' /\ ~ IsApplied("overlap_experts")'
    BY <1>1, <1>6, <2>2, <2>6
  <2>8. /\ CallWraps("inference_action_distribution")' = <<"slice">> \o <<>>
        /\ CallWraps("inference_waypoints")' = <<>>
    BY <2>7 DEF CallWraps, By
  <2>9. n.method["inference_action_distribution"].wraps = <<"slice">> \o <<>>
        /\ n.method["inference_waypoints"].wraps = <<>>
    BY <1>3, <2>3, <2>4, <2>5 DEF Calls
  <2> QED BY <1>3, <2>1, <2>3, <2>8, <2>9 DEF Calls
<1>7. CASE v = "overlap_experts"
  <2>1. Left = 2 /\ ~ (Left' >= 2) /\ model.overlap = FALSE
    BY <1>2, <1>3, <1>7
  <2>2. ~ IsApplied("overlap_experts")
    BY <1>1, <2>1, NotLogged
  <2>3. /\ n.outer = model.outer /\ n.overlap
        /\ \A c \in Calls : n.method[c] = Wrap(model.method[c], "overlap")
    <3>1. n = OverlapExperts(model)
      BY <1>1, <1>7, MarkedTransforms
    <3>2. model \in Models
      BY <1>1
    <3> QED BY <2>1, <3>1, <3>2, OverlapExpertsIs
  <2>4. \A c \in Calls : n.method[c].wraps = Append(CallWraps(c), "overlap")
    <3>1. ASSUME NEW c \in Calls
          PROVE  model.method[c] \in Wrapped /\ model.method[c].wraps = CallWraps(c)
                 /\ n.method[c] = Wrap(model.method[c], "overlap")
      BY <1>3, <1>m, <2>3
    <3> QED BY <3>1, WrapIs DEF Wrappers
  <2>5. n # model
    BY <2>1, <2>3
  <2>6. IsApplied("overlap_experts")' /\ (IsApplied("logits_slice")' <=> IsApplied("logits_slice"))
    BY <1>1, <1>7, <2>5
  <2>7. By("logits_slice", "slice") \in {<<>>, <<"slice">>}
    BY DEF By
  <2>8. /\ CallWraps("inference_waypoints") = <<>> /\ CallWraps("inference_waypoints")' = <<"overlap">>
        /\ CallWraps("inference_action_distribution") = By("logits_slice", "slice") \o <<>>
        /\ CallWraps("inference_action_distribution")' = By("logits_slice", "slice") \o <<"overlap">>
    BY <2>2, <2>6 DEF CallWraps, By
  <2>9. \A c \in Calls : CallWraps(c)' = Append(CallWraps(c), "overlap")
    <3>1. CallWraps("inference_waypoints")' = Append(CallWraps("inference_waypoints"), "overlap")
      <4>1. Append(<<>>, "overlap") = <<"overlap">>
        OBVIOUS
      <4> QED BY <2>8, <4>1
    <3>2. CallWraps("inference_action_distribution")' = Append(CallWraps("inference_action_distribution"), "overlap")
      BY <2>7, <2>8
    <3> QED BY <3>1, <3>2 DEF Calls
  <2> QED BY <1>3, <2>1, <2>3, <2>4, <2>9
<1> QED BY <1>5, <1>6, <1>7

LEMMA LoggedStays ==
  ASSUME SpeedupsTyped, TakeNext, user = "node", LoggedInTurn,
         \A u : IsApplied(u)' => IsApplied(u) \/ u = Speedup
  PROVE  LoggedInTurn'
<1>1. /\ Left \in 1..18 /\ Left' = Left - 1
      /\ \A v \in Marked : Turn(v)' = Turn(v) /\ Turn(v) \in Nat
      /\ \A v \in Marked : Speedup = v => Left = Turn(v)
  BY NodeTurns
<1>2. ASSUME NEW v \in Marked, IsApplied(v)' PROVE Left' < Turn(v)'
  <2>1. Left < Turn(v) \/ Left = Turn(v)
    BY <1>1, <1>2 DEF LoggedInTurn
  <2>2. Turn(v)' = Turn(v) /\ Turn(v) \in Nat
    BY <1>1
  <2> QED BY <1>1, <2>1, <2>2
<1> QED BY <1>2 DEF LoggedInTurn

\* A speedup that is left out, or raises when its forward has been saved.
LEMMA NodeLeavesOut ==
  ASSUME SpeedupsInvariant, user = "node", stage = "apply",
         LoggedInTurn, VitOnNode, HeadsOnNode, LlmOnNode, CallsOnNode,
         NodeSkips \/ NodeOnlySaves
  PROVE  LoggedInTurn' /\ VitOnNode' /\ HeadsOnNode' /\ LlmOnNode' /\ CallsOnNode'
<1>1. /\ TakeNext /\ stage' = "apply" /\ applied' = applied
      /\ model' = model \/ (Speedup \in Compilations /\ model' = OnlySaved(Speedup))
  BY DEF NodeSkips, NodeOnlySaves
<1>2. SpeedupsTyped /\ model \in Models /\ applied \in Seq(Plain \cup Marked)
  BY DEF SpeedupsInvariant, SpeedupsTyped
<1>3. /\ Left \in 1..18 /\ Left' = Left - 1
      /\ Speedup = "compile:heads" <=> Left = 8
      /\ Speedup = "compile:llm" <=> Left = 7
      /\ Speedup = "compile:vit" <=> Left = 6
  BY <1>1, <1>2, NodeTurns
<1>4. /\ VitWraps' = VitWraps /\ HeadsWraps' = HeadsWraps
      /\ By("compile:llm", "compile")' = By("compile:llm", "compile")
      /\ \A c \in Calls : CallWraps(c)' = CallWraps(c)
      /\ \A v : IsApplied(v)' <=> IsApplied(v)
  BY <1>1, <1>2, SameWraps
<1>5. LoggedInTurn'
  BY <1>1, <1>2, <1>4, LoggedStays
<1>6. CASE model' = model
  <2>1. VitOnNode'
    <3>1. (Left' >= 6 => Left >= 6) /\ (Left' >= 1 => Left >= 1)
      BY <1>3
    <3> QED BY <1>4, <1>6, <3>1 DEF VitOnNode
  <2>2. HeadsOnNode'
    <3>1. Left' >= 5 => Left >= 5
      BY <1>3
    <3> QED BY <1>4, <1>6, <3>1 DEF HeadsOnNode
  <2>3. LlmOnNode'
    <3>1. Left' >= 7 => Left >= 7
      BY <1>3
    <3> QED BY <1>4, <1>6, <3>1 DEF LlmOnNode
  <2>4. CallsOnNode'
    <3>1. Left' >= 2 => Left >= 2
      BY <1>3
    <3>2. \A c \in Calls : Path(model, c)' = Path(model, c)
      BY <1>6 DEF Path
    <3> QED BY <1>1, <1>4, <1>6, <3>1, <3>2 DEF CallsOnNode
  <2> QED BY <1>5, <2>1, <2>2, <2>3, <2>4
<1>7. CASE Speedup \in Compilations /\ model' = OnlySaved(Speedup)
  <2> DEFINE n == OnlySaved(Speedup)
  <2>1. /\ n \in Models /\ SameCalls(model, n) /\ n.stagger = model.stagger
        /\ n.heads = IF Speedup = "compile:heads" THEN Saved(model.heads) ELSE model.heads
        /\ n.vit = IF Speedup = "compile:vit" THEN Saved(model.vit) ELSE model.vit
        /\ \A e \in Experts : n.llm[e] \in {model.llm[e], Saved(model.llm[e])}
    BY <1>2, <1>7, OnlySavedIs
  <2>2. model' = n
    BY <1>7
  <2>3. model.vit \in Modules /\ model.heads \in Modules /\ \A e \in Experts : model.llm[e] \in Modules
    BY <1>2 DEF Models
  <2> HIDE DEF n
  <2>4. VitOnNode'
    <3>1. n.vit.fwd = model.vit.fwd
      BY <2>1, <2>3, SavedIs
    <3>2. Left' >= 6 => Left >= 6 /\ Speedup # "compile:vit"
      BY <1>3
    <3>3. Left >= 1 /\ model.stagger = FALSE
      BY <1>3 DEF VitOnNode
    <3> QED BY <1>4, <2>1, <2>2, <3>1, <3>2, <3>3 DEF VitOnNode
  <2>5. HeadsOnNode'
    <3>1. n.heads.fwd = model.heads.fwd /\ n.heads.eager \in {model.heads.eager, model.heads.fwd}
      BY <2>1, <2>3, SavedIs
    <3>2. Left' >= 5 => Left >= 5
      BY <1>3
    <3>3. Left >= 5 /\ ~ IsApplied("compile:heads") => n.heads.eager \in {Unset, Bare("heads")}
      BY <3>1 DEF HeadsOnNode
    <3> QED BY <1>4, <2>2, <3>1, <3>2, <3>3 DEF HeadsOnNode
  <2>6. LlmOnNode'
    <3>1. \A e \in Experts : /\ n.llm[e].fwd = model.llm[e].fwd
                             /\ n.llm[e].eager \in {model.llm[e].eager, model.llm[e].fwd}
      BY <2>1, <2>3, SavedIs
    <3>2. Left' >= 7 => Left >= 7
      BY <1>3
    <3>3. Left >= 7 => By("compile:llm", "compile") = <<>>
      BY <1>2, NotLogged, ByIs
    <3>4. Left >= 7 => \A e \in Experts : n.llm[e].eager.wraps = <<>>
      BY <3>1, <3>3 DEF LlmOnNode
    <3> QED BY <1>4, <2>2, <3>1, <3>2, <3>4 DEF LlmOnNode
  <2>7. CallsOnNode'
    <3>1. Left' >= 2 => Left >= 2
      BY <1>3
    <3>2. \A c \in Calls : Path(model, c)' = Path(model, c)
      BY <2>1, <2>2 DEF Path, SameCalls
    <3> QED BY <1>1, <1>4, <2>1, <2>2, <3>1, <3>2 DEF CallsOnNode, SameCalls
  <2> QED BY <1>5, <2>4, <2>5, <2>6, <2>7
<1> QED BY <1>1, <1>6, <1>7

LEMMA TimedPath ==
  ASSUME NEW m \in Models, NEW c \in Calls, m.outer[c] = Unset
  PROVE  Path(WrapLlm(m), c).wraps \in {m.method[c].wraps, Append(m.method[c].wraps, "timer")}
<1> DEFINE n == WrapLlm(m)
<1>1. /\ n.merged = m.merged /\ n.method[c] \in {m.method[c], Timed(m.method[c])}
      /\ ~ m.merged => n.method[c] = m.method[c]
      /\ n.outer[c] = IF m.merged THEN Unset ELSE Timed(m.method[c])
  BY WrapLlmIs DEF SameLlm
<1> HIDE DEF n
<1>2. m.method[c] \in Wrapped
  BY DEF Models
<1>3. Path(n, c) \in {m.method[c], Timed(m.method[c])}
  BY <1>1 DEF Path
<1>4. Path(n, c).wraps \in {m.method[c].wraps, Append(m.method[c].wraps, "timer")}
  BY <1>2, <1>3, TimedIs
<1> QED BY <1>4 DEF n

\* The timer and the warm-up.
LEMMA NodeReady ==
  ASSUME SpeedupsInvariant, user = "node", stage = "apply",
         LoggedInTurn, VitOnNode, HeadsOnNode, LlmOnNode, CallsOnNode, NodeWarms
  PROVE  LoggedInTurn' /\ VitOnNode' /\ HeadsOnNode' /\ LlmOnNode' /\ CallsOnNode'
<1>1. /\ stage' = "ready" /\ todo = <<>> /\ UNCHANGED <<user, todo, applied>>
      /\ model' \in {model, WrapLlm(model), Captures(model), Captures(WrapLlm(model))}
  BY DEF NodeWarms
<1>2. model \in Models /\ applied \in Seq(Plain \cup Marked)
  BY DEF SpeedupsInvariant, SpeedupsTyped
<1>3. Left = 0 /\ Left' = 0 /\ \A v : Turn(v)' = Turn(v)
  BY <1>1 DEF Left, Turn
<1>4. /\ VitWraps' = VitWraps /\ HeadsWraps' = HeadsWraps
      /\ By("compile:llm", "compile")' = By("compile:llm", "compile")
      /\ \A c \in Calls : CallWraps(c)' = CallWraps(c)
      /\ \A v : IsApplied(v)' <=> IsApplied(v)
  BY <1>1, <1>2, SameWraps
<1>5. PICK k \in {model, WrapLlm(model)} : model' = k \/ model' = Captures(k)
  BY <1>1
<1>6. k \in Models /\ SameVit(model, k) /\ SameHeads(model, k) /\ SameLlm(model, k)
  <2>1. CASE k = model
    BY <1>2, <2>1 DEF SameVit, SameHeads, SameLlm
  <2>2. CASE k = WrapLlm(model)
    BY <1>2, <2>2, WrapLlmIs
  <2> QED BY <2>1, <2>2
<1>7. /\ model'.vit = k.vit /\ model'.heads = k.heads /\ model'.llm = k.llm
      /\ SameCalls(k, model')
  <2>1. CASE model' = k
    BY <2>1 DEF SameCalls
  <2>2. CASE model' = Captures(k)
    BY <1>6, <2>2, CapturesIs DEF SameHeads, SameLlm
  <2> QED BY <1>5, <2>1, <2>2
<1>8. /\ model'.vit = model.vit /\ model'.heads = model.heads /\ model'.llm = model.llm
  BY <1>6, <1>7 DEF SameVit, SameHeads, SameLlm
<1>9. ASSUME NEW c \in Calls
      PROVE  Path(model', c).wraps \in {CallWraps(c), Append(CallWraps(c), "timer")}
  <2>1. model.outer[c] = Unset /\ model.method[c].wraps = CallWraps(c)
    BY DEF CallsOnNode
  <2>2. Path(model', c) = Path(k, c)
    BY <1>7 DEF Path, SameCalls
  <2>3. CASE k = model
    BY <1>2, <2>1, <2>2, <2>3, PathIs
  <2>4. CASE k = WrapLlm(model)
    BY <1>2, <2>1, <2>2, <2>4, TimedPath
  <2> QED BY <2>3, <2>4
<1>10. LoggedInTurn' /\ VitOnNode'
  BY <1>3, <1>4, <1>8 DEF LoggedInTurn, VitOnNode
<1>11. HeadsOnNode' /\ LlmOnNode'
  BY <1>3, <1>4, <1>8 DEF HeadsOnNode, LlmOnNode
<1>12. CallsOnNode'
  <2>1. \A c \in Calls : Path(model, c)' = Path(model', c)
    BY DEF Path
  <2> QED BY <1>1, <1>3, <1>4, <1>9, <2>1 DEF CallsOnNode
<1> QED BY <1>10, <1>11, <1>12

LEMMA NodeStarts == SpeedupsInit => NodeInvariant
<1> SUFFICES ASSUME SpeedupsInit, user = "node" PROVE NodeInvariant
  BY DEF NodeInvariant
<1>1. model = Built /\ stage = "apply" /\ applied = <<>> /\ todo = NodeOrder
  BY DEF SpeedupsInit
<1>2. \A v : ~ IsApplied(v)
  <2>1. DOMAIN applied = {}
    BY <1>1
  <2> QED BY <2>1 DEF IsApplied
<1>3. \A v, w : By(v, w) = <<>>
  BY <1>2 DEF By
<1>4. /\ Bare("vit").wraps = <<>> /\ Bare("heads").wraps = <<>> /\ Bare("decision_expert").wraps = <<>>
      /\ Unset.wraps = <<>>
      /\ Module("vit").fwd = Bare("vit") /\ Module("vit").eager = Unset
      /\ Module("heads").fwd = Bare("heads") /\ Module("heads").eager = Unset
      /\ Module("decision_expert").fwd = Bare("decision_expert") /\ Module("decision_expert").eager = Unset
  BY BareIs DEF Names, Experts
<1>5. <<>> \o <<>> \o <<>> = <<>> /\ <<>> \o <<>> = <<>>
  OBVIOUS
<1>6. VitOnNode
  BY <1>1, <1>3, <1>4, <1>5, BuiltIs DEF VitOnNode, VitWraps
<1>7. HeadsOnNode
  BY <1>1, <1>3, <1>4, <1>5, BuiltIs DEF HeadsOnNode, HeadsWraps
<1>8. LlmOnNode
  BY <1>1, <1>3, <1>4, BuiltIs DEF LlmOnNode
<1>9. CallsOnNode
  <2>1. \A c \in Calls : CallWraps(c) = <<>>
    BY <1>3, <1>5 DEF CallWraps
  <2>2. \A c \in Calls : Path(model, c) = model.method[c]
    BY <1>1, BuiltIs, PathIs
  <2> QED BY <1>1, <1>4, <2>1, <2>2, BuiltIs DEF CallsOnNode
<1> QED BY <1>2, <1>6, <1>7, <1>8, <1>9 DEF NodeInvariant, LoggedInTurn

LEMMA NodeStep ==
  SpeedupsInvariant /\ NodeInvariant /\ [SpeedupsNext]_speedupsVars => NodeInvariant'
<1> SUFFICES ASSUME SpeedupsInvariant, NodeInvariant, [SpeedupsNext]_speedupsVars,
                    user' = "node", stage' # "failed"
             PROVE  LoggedInTurn' /\ VitOnNode' /\ HeadsOnNode' /\ LlmOnNode' /\ CallsOnNode'
  BY DEF NodeInvariant
<1>1. CASE UNCHANGED speedupsVars
  <2>1. user = "node" /\ stage # "failed"
    BY <1>1 DEF speedupsVars
  <2>2. LoggedInTurn /\ VitOnNode /\ HeadsOnNode /\ LlmOnNode /\ CallsOnNode
    BY <2>1 DEF NodeInvariant
  <2> QED BY <1>1, <2>2 DEF speedupsVars, LoggedInTurn, VitOnNode, HeadsOnNode, LlmOnNode, CallsOnNode,
               Left, Turn, IsApplied, By, VitWraps, HeadsWraps, CallWraps, Path
<1>2. CASE SpeedupsNext
  <2>1. user = "node"
    BY <1>2 DEF SpeedupsNext, Skip, Apply, CompileRaises, SpeedupRaises, Asked, TakeNext, WarmUp,
                RunFrames, RunFails
  <2>2. SpeedupsTyped
    BY DEF SpeedupsInvariant
  <2>3. stage = "apply" /\ (NodeApplies \/ NodeOnlySaves \/ NodeSkips \/ NodeWarms)
    BY <1>2, <2>1, <2>2, NodeSteps
  <2>4. LoggedInTurn /\ VitOnNode /\ HeadsOnNode /\ LlmOnNode /\ CallsOnNode
    BY <2>1, <2>3 DEF NodeInvariant
  <2>5. CASE NodeApplies
    <3>1. Applies(Speedup, model')
      BY <2>1, <2>3, <2>5, AppliesIs
    <3>2. LoggedInTurn'
      <4>1. TakeNext /\ \A u : IsApplied(u)' => IsApplied(u) \/ u = Speedup
        BY <3>1 DEF Applies
      <4> QED BY <2>1, <2>2, <2>4, <4>1, LoggedStays
    <3> QED BY <2>3, <3>1, <3>2, VitApplies, HeadsApply, LlmApplies, CallsApply
  <2>6. CASE NodeSkips \/ NodeOnlySaves
    BY <2>1, <2>3, <2>4, <2>6, NodeLeavesOut
  <2>7. CASE NodeWarms
    BY <2>1, <2>3, <2>4, <2>7, NodeReady
  <2> QED BY <2>3, <2>5, <2>6, <2>7
<1> QED BY <1>1, <1>2

\* What the node logs as applied is what its forwards go through, whichever
\* speedups raised, did nothing or were left out.
THEOREM LoggedIsInEffect == PartSpec => []AppliedInEffect
<1> DEFINE Inv == user = "node" => SpeedupsInvariant /\ NodeInvariant
<1>1. PartInit => Inv
  BY SpeedupsStart, NodeStarts DEF PartInit, GivenInOrder
<1>2. Inv /\ [PartNext]_allParts => Inv'
  <2>1. [PartNext]_allParts => [SpeedupsNext]_speedupsVars
    BY OnlySpeedupsStep DEF allParts
  <2>2. [SpeedupsNext]_speedupsVars => user' = user
    BY SameUser
  <2> QED BY <2>1, <2>2, SpeedupsStep, NodeStep
<1>3. Inv => AppliedInEffect
  BY DEF NodeInvariant, AppliedInEffect, VitOnNode, HeadsOnNode, LlmOnNode, CallsOnNode
<1> QED BY <1>1, <1>2, <1>3, PTL DEF PartSpec
==============================================================================
