---------------------------- MODULE StreamsProofs ----------------------------
(***************************************************************************)
(* What every client of a stream was written, however the upstream, the    *)
(* runner, the bounded buffer and the client interleave, and for the       *)
(* streams that are simulated from a Crynux result; and what the result of *)
(* a Crynux job is.                                                        *)
(***************************************************************************)
EXTENDS RequestsProofs, SequenceTheorems
-----------------------------------------------------------------------------
(* Sequences and their concatenation. *)

\* A set that has the empty sequence and is closed under Append has all sequences.
LEMMA AllSequences ==
  ASSUME NEW S, NEW T, <<>> \in T, \A s \in Seq(S) \cap T : \A x \in S : Append(s, x) \in T
  PROVE  Seq(S) \subseteq T
<1> DEFINE B == Seq(S) \ T
           m == [s \in Seq(S) |-> Len(s)]
<1> SUFFICES ASSUME B # {} PROVE FALSE
  OBVIOUS
<1>1. PICK s \in B : \A t \in B : m[s] <= m[t]
  <2>1. m \in [Seq(S) -> Nat] /\ B \in SUBSET Seq(S)
    BY LenProperties
  <2> HIDE DEF B, m
  <2> QED
    BY <2>1, LeastBy
<1>2. s \in Seq(S) /\ s \notin T /\ s # <<>>
  BY <1>1
<1>3. PICK t \in Seq(S), x \in S : s = Append(t, x)
  BY <1>2, SequenceEmptyOrAppend
<1>4. Len(s) = Len(t) + 1 /\ Len(t) \in Nat
  BY <1>3, AppendProperties, LenProperties
<1>5. t \in T
  BY <1>1, <1>2, <1>4
<1> QED
  BY <1>2, <1>3, <1>5

\* Appending behind a concatenation.
LEMMA ConcatAppend ==
  ASSUME NEW Z, NEW s \in Seq(Z), NEW t \in Seq(Z), NEW x \in Z
  PROVE  s \o Append(t, x) = Append(s \o t, x)
<1>1. <<x>> \in Seq(Z)
  OBVIOUS
<1>2. Append(t, x) = t \o <<x>> /\ s \o t \in Seq(Z)
  BY AppendIsConcat, ConcatProperties
<1>3. Append(s \o t, x) = (s \o t) \o <<x>>
  BY <1>2, AppendIsConcat
<1> QED
  BY <1>1, <1>2, <1>3, ConcatAssociative

\* What FlattenSeq computes, place by place.
Flattens(A, f) == f = [i \in 1..Len(A) |-> IF i = 1 THEN A[i] ELSE f[i - 1] \o A[i]]

\* It exists.
LEMMA FlattenExists ==
  ASSUME NEW A, Len(A) \in Nat
  PROVE  \E f : Flattens(A, f)
<1> DEFINE Upto(n, g) == g = [i \in 1..n |-> IF i = 1 THEN A[i] ELSE g[i - 1] \o A[i]]
           B == {n \in Nat : ~\E g : Upto(n, g)}
<1> SUFFICES ASSUME B # {} PROVE FALSE
  BY DEF Flattens
<1>1. PICK n \in B : \A k \in B : n <= k
  <2>1. B \in SUBSET Nat
    OBVIOUS
  <2> HIDE DEF B
  <2> QED
    BY <2>1, Least
<1>2. n # 0
  <2>1. Upto(0, [i \in 1..0 |-> i])
    OBVIOUS
  <2> QED
    BY <1>1, <2>1
<1>3. PICK g : Upto(n - 1, g)
  <2>1. n - 1 \in Nat /\ ~(n <= n - 1)
    BY <1>1, <1>2
  <2> QED
    BY <1>1, <2>1
<1> DEFINE h == [i \in 1..n |-> IF i = 1 THEN A[i] ELSE g[i - 1] \o A[i]]
<1>4. \A i \in 1..n : i # n => h[i] = g[i]
  <2>1. \A i \in 1..n : i # n => i \in 1..(n - 1)
    BY <1>1
  <2>2. \A i \in 1..(n - 1) : g[i] = IF i = 1 THEN A[i] ELSE g[i - 1] \o A[i]
    BY <1>3
  <2> QED
    BY <2>1, <2>2
<1>5. Upto(n, h)
  <2>1. \A i \in 1..n : i # 1 => h[i - 1] = g[i - 1]
    BY <1>1, <1>4
  <2>2. \A i \in 1..n : h[i] = IF i = 1 THEN A[i] ELSE h[i - 1] \o A[i]
    BY <2>1
  <2>3. h = [i \in 1..n |-> h[i]]
    OBVIOUS
  <2> HIDE DEF h
  <2> QED
    BY <2>2, <2>3
<1> QED
  BY <1>1, <1>5

\* It is FlattenSeq.
LEMMA FlattenIs ==
  ASSUME NEW A, Len(A) \in Nat
  PROVE  \E f : /\ \A i \in 1..Len(A) : f[i] = IF i = 1 THEN A[i] ELSE f[i - 1] \o A[i]
                /\ FlattenSeq(A) = IF Len(A) = 0 THEN A ELSE f[Len(A)]
<1> DEFINE f == CHOOSE f : Flattens(A, f)
<1>1. Flattens(A, f)
  BY FlattenExists
<1>2. FlattenSeq(A) = IF Len(A) = 0 THEN A ELSE f[Len(A)]
  BY DEF FlattenSeq, Flattens
<1> HIDE DEF f
<1>3. \A i \in 1..Len(A) : f[i] = IF i = 1 THEN A[i] ELSE f[i - 1] \o A[i]
  BY <1>1 DEF Flattens
<1> QED
  BY <1>2, <1>3

\* The last part comes last.
LEMMA FlattenAppend ==
  ASSUME NEW S, NEW A \in Seq(Seq(S)), NEW x \in Seq(S)
  PROVE  FlattenSeq(Append(A, x)) = IF A = <<>> THEN x ELSE FlattenSeq(A) \o x
<1> DEFINE E == Append(A, x)
           n == Len(A)
<1>1. n \in Nat /\ Len(E) = n + 1 /\ (\A i \in 1..n : E[i] = A[i]) /\ E[n + 1] = x /\ (n = 0 <=> A = <<>>)
  BY AppendProperties, LenProperties, EmptySeq
<1>2. PICK f : /\ \A i \in 1..n : f[i] = IF i = 1 THEN A[i] ELSE f[i - 1] \o A[i]
               /\ FlattenSeq(A) = IF n = 0 THEN A ELSE f[n]
  BY <1>1, FlattenIs
<1> HIDE DEF E, n
<1>3. PICK g : /\ \A i \in 1..(n + 1) : g[i] = IF i = 1 THEN E[i] ELSE g[i - 1] \o E[i]
               /\ FlattenSeq(E) = g[n + 1]
  <2>1. Len(E) \in Nat /\ Len(E) # 0
    BY <1>1
  <2>2. PICK g : /\ \A i \in 1..Len(E) : g[i] = IF i = 1 THEN E[i] ELSE g[i - 1] \o E[i]
                 /\ FlattenSeq(E) = IF Len(E) = 0 THEN E ELSE g[Len(E)]
    BY <2>1, FlattenIs
  <2>3. FlattenSeq(E) = g[n + 1]
    BY <1>1, <2>1, <2>2
  <2> QED
    BY <1>1, <2>2, <2>3
<1>4. \A i \in 1..n : f[i] = g[i]
  <2> DEFINE B == {i \in 1..n : f[i] # g[i]}
  <2> SUFFICES ASSUME B # {} PROVE FALSE
    OBVIOUS
  <2>1. PICK i \in B : \A k \in B : i <= k
    <3>1. B \in SUBSET Nat
      BY <1>1
    <3> HIDE DEF B
    <3> QED
      BY <3>1, Least
  <2>2. i \in 1..n /\ i \in 1..(n + 1) /\ E[i] = A[i]
    BY <1>1, <2>1
  <2>3. i # 1
    BY <1>2, <1>3, <2>1, <2>2
  <2>4. i - 1 \in 1..n /\ ~(i <= i - 1)
    BY <1>1, <2>2, <2>3
  <2>5. f[i - 1] = g[i - 1]
    BY <2>1, <2>4
  <2> QED
    BY <1>2, <1>3, <2>1, <2>2, <2>3, <2>5
<1>5. CASE n = 0
  BY <1>1, <1>3, <1>5 DEF E
<1>6. CASE n # 0
  <2>1. n \in 1..n /\ n + 1 \in 1..(n + 1) /\ n + 1 # 1 /\ (n + 1) - 1 = n
    BY <1>1, <1>6
  <2>2. g[n + 1] = g[n] \o E[n + 1]
    BY <1>3, <2>1
  <2> QED
    BY <1>1, <1>2, <1>3, <1>4, <1>6, <2>1, <2>2 DEF E
<1> QED
  BY <1>5, <1>6

\* Nothing flattens to nothing.
LEMMA FlattenEmpty == FlattenSeq(<<>>) = <<>>
BY DEF FlattenSeq

\* A flattened sequence is a sequence, and the last part comes last.
LEMMA FlattenTyped ==
  ASSUME NEW S
  PROVE  /\ \A A \in Seq(Seq(S)) : FlattenSeq(A) \in Seq(S)
         /\ \A A \in Seq(Seq(S)) : \A x \in Seq(S) : FlattenSeq(Append(A, x)) = FlattenSeq(A) \o x
<1> DEFINE T == {A \in Seq(Seq(S)) : FlattenSeq(A) \in Seq(S)}
<1>1. ASSUME NEW A \in Seq(Seq(S)), NEW x \in Seq(S) PROVE FlattenSeq(Append(A, x)) = FlattenSeq(A) \o x
  <2>1. CASE A = <<>>
    BY <2>1, FlattenAppend, FlattenEmpty, ConcatEmptySeq
  <2> QED
    BY <2>1, FlattenAppend
<1>2. <<>> \in T
  BY FlattenEmpty, EmptySeq
<1>3. ASSUME NEW A \in Seq(Seq(S)) \cap T, NEW x \in Seq(S) PROVE Append(A, x) \in T
  BY <1>1, AppendProperties, ConcatProperties
<1> HIDE DEF T
<1>4. Seq(Seq(S)) \subseteq T
  BY <1>2, <1>3, AllSequences
<1> QED
  BY <1>1, <1>4 DEF T

\* Flattening two sequences one after the other.
LEMMA FlattenConcat ==
  ASSUME NEW S, NEW A \in Seq(Seq(S)), NEW B \in Seq(Seq(S))
  PROVE  FlattenSeq(A \o B) = FlattenSeq(A) \o FlattenSeq(B)
<1> DEFINE Z == Seq(S)
           T == {C \in Seq(Z) : FlattenSeq(A \o C) = FlattenSeq(A) \o FlattenSeq(C)}
<1>1. <<>> \in T
  BY FlattenEmpty, FlattenTyped, ConcatEmptySeq, EmptySeq
<1>2. ASSUME NEW C \in Seq(Z) \cap T, NEW x \in Z PROVE Append(C, x) \in T
  <2>1. A \o Append(C, x) = Append(A \o C, x)
    <3> HIDE DEF Z
    <3> QED
      BY ConcatAppend
  <2>2. A \o C \in Seq(Z) /\ FlattenSeq(A) \in Z /\ FlattenSeq(C) \in Z
    BY ConcatProperties, FlattenTyped
  <2>3. FlattenSeq(Append(A \o C, x)) = FlattenSeq(A \o C) \o x /\ FlattenSeq(Append(C, x)) = FlattenSeq(C) \o x
    BY <2>2, FlattenTyped
  <2>4. (FlattenSeq(A) \o FlattenSeq(C)) \o x = FlattenSeq(A) \o (FlattenSeq(C) \o x)
    BY <2>2, ConcatAssociative
  <2>5. Append(C, x) \in Seq(Z)
    BY AppendProperties
  <2> QED
    BY <2>1, <2>3, <2>4, <2>5
<1> HIDE DEF T
<1>3. Seq(Z) \subseteq T
  BY <1>1, <1>2, AllSequences
<1> QED
  BY <1>3 DEF T

-----------------------------------------------------------------------------
(* What a sequence of events, or of frames, says. *)

Kinds ==
  {"created", "content", "tool_start", "tool_args", "tool_done", "finish", "final_usage", "error", "done",
   "role", "text", "tool", "args", "args_done", "usage", "completed"}
Words ==
  {"", "stop", "length", "tool_calls", "none", "auto", "call_google_0",
   "usage_missing", "stream_interrupted", "provider_error"}
Data == Pieces \cup CallIds \cup STRING \cup Words
Events == [kind : Kinds, index : Nat, data : Seq(Data)]
ToolCalls == [id : Data, args : Seq(Data), open : BOOLEAN]

Places(s, kind) == {i \in DOMAIN s : s[i].kind = kind}

\* The data of one kind and index, joined.
Parts(s, kind, index) ==
  [i \in DOMAIN s |-> IF s[i].kind = kind /\ (kind = "content" \/ s[i].index = index) THEN s[i].data ELSE <<>>]
Said(s, kind, index) == FlattenSeq(Parts(s, kind, index))

\* The indices that the events of a kind have.
Named(s, kind) == {s[i].index : i \in Places(s, kind)}

\* Arguments follow the start of their tool, in s or in what was said before.
InOrder(s, known) ==
  \A j \in DOMAIN s : s[j].kind \in {"tool_args", "tool_done"} =>
    s[j].index \in known \/ \E k \in 1..(j - 1) : s[k].kind = "tool_start" /\ s[k].index = s[j].index

EndKinds == {"final_usage", "done"}

\* Behind the usage and the end there is nothing but the end.
EndsLast(s) == \A j, k \in DOMAIN s : j < k /\ s[j].kind \in EndKinds => s[k].kind = "done"
OnlyDone(s) == \A j \in DOMAIN s : s[j].kind = "done"
NoEnd(s) == \A j \in DOMAIN s : s[j].kind \notin EndKinds

-----------------------------------------------------------------------------
(* The invariant of a stream: u is its call, o its outbox, ch its channel, cl its client. *)

\* The events a client has still to read: those in its channel, and while it is registered those to be published.
Coming(o, ch) == IF ch.registered THEN ch.events \o o ELSE ch.events

TypedMessage(m) ==
  /\ DOMAIN m = DOMAIN NoMessage
  /\ m.text \in Seq(Data) /\ m.tools \in Seq(ToolCalls) /\ m.finish \in Data

TypedCall(u) == DOMAIN u = DOMAIN NoCall /\ TypedMessage(u.message)
TypedChannel(ch) ==
  /\ DOMAIN ch = DOMAIN NoChannel /\ ch.events \in Seq(Events)
  /\ ch.registered \in BOOLEAN /\ ch.open = ch.registered
TypedClient(cl) == DOMAIN cl = DOMAIN NoClient /\ cl.roleSent \in BOOLEAN /\ cl.frames \in Seq(Events)

StreamTyped(u, o, ch, cl) == TypedCall(u) /\ o \in Seq(Events) /\ TypedChannel(ch) /\ TypedClient(cl)

\* What was written: the conjuncts of StreamIsWellFormed, by the frames.
Ends == {"error", "done", "completed"}
RoleFirst(frames) ==
  /\ \A i, j \in Places(frames, "role") : i = j
  /\ \A i \in Places(frames, "text") \cup Places(frames, "tool") : \E j \in Places(frames, "role") : j < i
ArgsFollow(frames) ==
  \A i \in Places(frames, "args") \cup Places(frames, "args_done") :
    \E j \in Places(frames, "tool") : j < i /\ frames[j].index = frames[i].index
EndIsLast(frames) == \A i \in DOMAIN frames : frames[i].kind \in Ends => i = Len(frames)
TellsEnd(frames) == \E i \in DOMAIN frames : frames[i].kind \in {"done", "completed", "usage"}

FramesKept(u, cl) ==
  /\ cl.api = "chat" => RoleFirst(cl.frames)
  /\ ArgsFollow(cl.frames) /\ EndIsLast(cl.frames)
  /\ TellsEnd(cl.frames) => u.at = "settled"

\* Where the events of the end may be.
EndKept(u, o, ch) ==
  /\ u.at \in {"none", "queued"} => o = <<>>
  /\ \A i \in DOMAIN ch.events : ch.events[i].kind \in EndKinds => u.at = "settled"
  /\ \A i \in DOMAIN o : /\ o[i].kind = "done" => u.at = "settled"
                         /\ o[i].kind = "final_usage" => u.at \in {"confirmed", "settled"}

\* What a client that reads has got, and the events it has still to read.
ReadingKept(cl, events) ==
  /\ EndsLast(events) /\ InOrder(events, Named(cl.frames, "tool"))
  /\ Places(cl.frames, "error") = {} /\ Places(cl.frames, "done") = {}
  /\ Places(cl.frames, "completed") # {} => cl.api = "responses" /\ OnlyDone(events)
  /\ cl.api = "chat" => (cl.roleSent <=> Places(cl.frames, "role") # {})

\* Every tool of the message was told to a registered client, or is about to be.
ToolsTold(u, cl, events) == DOMAIN u.message.tools \subseteq Named(cl.frames, "tool") \cup Named(events, "tool_start")

StreamKeeps(u, o, ch, cl) ==
  /\ StreamTyped(u, o, ch, cl) /\ FramesKept(u, cl)
  /\ IF u.service # "crynux"
     THEN /\ EndKept(u, o, ch)
          /\ ch.registered => cl.at = "reading" /\ ToolsTold(u, cl, Coming(o, ch))
          /\ cl.at = "reading" => ReadingKept(cl, Coming(o, ch))
     ELSE u.at = "settled" /\ cl.at # "reading"

StreamInv == StreamKeeps(upstream, outbox, channel, client)

\* The arguments of a tool of the message.
ArgsOf(m, i) == IF i \in DOMAIN m.tools THEN m.tools[i].args ELSE <<>>

-----------------------------------------------------------------------------
(* Two sequences of events, one after the other. *)

\* The places of a concatenation.
LEMMA ConcatPlaces ==
  ASSUME NEW E, NEW s \in Seq(E), NEW t \in Seq(E)
  PROVE  /\ s \o t \in Seq(E) /\ Len(s \o t) = Len(s) + Len(t) /\ Len(s) \in Nat /\ Len(t) \in Nat
         /\ DOMAIN s = 1..Len(s) /\ DOMAIN t = 1..Len(t) /\ DOMAIN (s \o t) = 1..(Len(s) + Len(t))
         /\ \A i \in DOMAIN s : i \in DOMAIN (s \o t) /\ (s \o t)[i] = s[i]
         /\ \A j \in DOMAIN t : Len(s) + j \in DOMAIN (s \o t) /\ (s \o t)[Len(s) + j] = t[j]
         /\ \A i \in DOMAIN (s \o t) : i \in DOMAIN s \/ \E j \in DOMAIN t : i = Len(s) + j
<1>1. /\ s \o t \in Seq(E) /\ Len(s \o t) = Len(s) + Len(t) /\ Len(s) \in Nat /\ Len(t) \in Nat
      /\ DOMAIN s = 1..Len(s) /\ DOMAIN t = 1..Len(t) /\ DOMAIN (s \o t) = 1..(Len(s) + Len(t))
  BY ConcatProperties, LenProperties
<1>2. \A i \in 1..Len(s) + Len(t) : (s \o t)[i] = IF i <= Len(s) THEN s[i] ELSE t[i - Len(s)]
  BY ConcatProperties
<1>3. \A i \in DOMAIN s : i \in DOMAIN (s \o t) /\ (s \o t)[i] = s[i]
  BY <1>1, <1>2
<1>4. ASSUME NEW j \in DOMAIN t PROVE Len(s) + j \in DOMAIN (s \o t) /\ (s \o t)[Len(s) + j] = t[j]
  <2>1. j \in 1..Len(t) /\ Len(s) + j \in 1..(Len(s) + Len(t)) /\ ~(Len(s) + j <= Len(s)) /\ (Len(s) + j) - Len(s) = j
    BY <1>1
  <2> QED
    BY <1>1, <1>2, <2>1
<1>5. ASSUME NEW i \in DOMAIN (s \o t), i \notin DOMAIN s PROVE \E j \in DOMAIN t : i = Len(s) + j
  <2>1. i - Len(s) \in DOMAIN t /\ i = Len(s) + (i - Len(s))
    BY <1>1, <1>5
  <2> QED
    BY <2>1
<1> QED
  BY <1>1, <1>3, <1>4, <1>5

\* What is joined are sequences of data.
LEMMA PartsTyped ==
  ASSUME NEW s \in Seq(Events), NEW kind, NEW index
  PROVE  Parts(s, kind, index) \in Seq(Seq(Data))
<1>1. Len(s) \in Nat /\ DOMAIN s = 1..Len(s) /\ \A i \in DOMAIN s : s[i] \in Events
  BY LenProperties, ElementOfSeq
<1>2. \A i \in DOMAIN s : s[i].data \in Seq(Data)
  BY <1>1 DEF Events
<1>3. <<>> \in Seq(Data)
  BY EmptySeq
<1> DEFINE p == Parts(s, kind, index)
<1>4. p \in [1..Len(s) -> Seq(Data)]
  BY <1>1, <1>2, <1>3 DEF Parts
<1> HIDE DEF p
<1>5. p \in Seq(Seq(Data))
  BY <1>1, <1>4, SeqDef
<1> QED
  BY <1>5 DEF p

\* What two sequences of events say is said one after the other.
LEMMA SaidConcat ==
  ASSUME NEW s \in Seq(Events), NEW t \in Seq(Events), NEW kind, NEW index
  PROVE  /\ Said(s \o t, kind, index) = Said(s, kind, index) \o Said(t, kind, index)
         /\ Said(s, kind, index) \in Seq(Data)
<1> DEFINE p == Parts(s, kind, index)
           q == Parts(t, kind, index)
           r == Parts(s \o t, kind, index)
<1>0. s \o t \in Seq(Events)
  BY ConcatProperties
<1>1. p \in Seq(Seq(Data)) /\ q \in Seq(Seq(Data)) /\ r \in Seq(Seq(Data))
  BY <1>0, PartsTyped
<1>2. DOMAIN p = DOMAIN s /\ DOMAIN q = DOMAIN t /\ DOMAIN r = DOMAIN (s \o t)
  BY DEF Parts
<1>3. /\ \A i \in DOMAIN s : r[i] = p[i]
      /\ \A j \in DOMAIN t : r[Len(s) + j] = q[j]
  BY ConcatPlaces DEF Parts
<1> HIDE DEF p, q, r
<1>4. Len(p) = Len(s) /\ Len(q) = Len(t) /\ Len(r) = Len(s) + Len(t)
  BY <1>1, <1>2, ConcatPlaces, LenProperties
<1>5. Len(p \o q) = Len(p) + Len(q) /\ p \o q \in Seq(Seq(Data)) /\ DOMAIN (p \o q) = 1..(Len(p) + Len(q))
      /\ (\A i \in DOMAIN p : (p \o q)[i] = p[i]) /\ (\A j \in DOMAIN q : (p \o q)[Len(p) + j] = q[j])
      /\ \A i \in DOMAIN (p \o q) : i \in DOMAIN p \/ \E j \in DOMAIN q : i = Len(p) + j
  BY <1>1, ConcatPlaces
<1>6. ASSUME NEW i \in 1..Len(r) PROVE r[i] = (p \o q)[i]
  <2>1. i \in DOMAIN (p \o q)
    BY <1>4, <1>5
  <2>2. CASE i \in DOMAIN p
    BY <1>2, <1>3, <1>5, <2>2
  <2>3. CASE \E j \in DOMAIN q : i = Len(p) + j
    BY <1>2, <1>3, <1>4, <1>5, <2>3
  <2> QED
    BY <1>5, <2>1, <2>2, <2>3
<1>7. r = p \o q
  <2> DEFINE Z == Seq(Data)
             v == p \o q
  <2>1. r \in Seq(Z) /\ v \in Seq(Z) /\ Len(r) = Len(v) /\ \A i \in 1..Len(r) : r[i] = v[i]
    BY <1>1, <1>4, <1>5, <1>6
  <2> HIDE DEF Z, v
  <2>2. r = v
    BY <2>1, SeqEqual
  <2> QED
    BY <2>2 DEF v
<1>8. FlattenSeq(r) = FlattenSeq(p) \o FlattenSeq(q) /\ FlattenSeq(p) \in Seq(Data)
  BY <1>1, <1>7, FlattenConcat, FlattenTyped
<1> QED
  BY <1>8 DEF Said, p, q, r

\* What one event says.
LEMMA SaidOne ==
  ASSUME NEW e \in Events, NEW kind, NEW index
  PROVE  /\ Said(<<e>>, kind, index) = IF e.kind = kind /\ (kind = "content" \/ e.index = index) THEN e.data ELSE <<>>
         /\ Said(<<>>, kind, index) = <<>>
<1> DEFINE p == Parts(<<e>>, kind, index)
           x == IF e.kind = kind /\ (kind = "content" \/ e.index = index) THEN e.data ELSE <<>>
<1>1. x \in Seq(Data)
  BY EmptySeq DEF Events
<1>2. p = <<x>>
  BY DEF Parts
<1> HIDE DEF p, x
<1>3. <<x>> = Append(<<>>, x) /\ <<>> \in Seq(Seq(Data))
  BY EmptySeq
<1>4. FlattenSeq(<<x>>) = x
  BY <1>1, <1>3, FlattenAppend
<1>5. Said(<<e>>, kind, index) = x
  BY <1>2, <1>4 DEF Said, p
<1>6. Said(<<>>, kind, index) = <<>>
  <2>1. Parts(<<>>, kind, index) = <<>>
    BY DEF Parts
  <2> QED
    BY <2>1, FlattenEmpty DEF Said
<1> QED
  BY <1>5, <1>6 DEF x

\* Events of other kinds say nothing.
LEMMA SaidNothing ==
  ASSUME NEW s \in Seq(Events), NEW kind, NEW index, \A i \in DOMAIN s : s[i].kind # kind \/ (kind # "content" /\ s[i].index # index)
  PROVE  Said(s, kind, index) = <<>>
<1> DEFINE Others(t) == \A i \in DOMAIN t : t[i].kind # kind \/ (kind # "content" /\ t[i].index # index)
           T == {t \in Seq(Events) : Others(t) => Said(t, kind, index) = <<>>}
<1>0. \A u, v \in Seq(Events) : Said(u \o v, kind, index) = Said(u, kind, index) \o Said(v, kind, index)
  BY SaidConcat
<1>1. <<>> \in T
  <2>1. Parts(<<>>, kind, index) = <<>>
    BY DEF Parts
  <2> QED
    BY <2>1, FlattenEmpty, EmptySeq DEF Said
<1>2. ASSUME NEW t \in Seq(Events) \cap T, NEW e \in Events PROVE Append(t, e) \in T
  <2>0. t \in Seq(Events) /\ <<e>> \in Seq(Events) /\ DOMAIN <<e>> = {1} /\ <<e>>[1] = e
    OBVIOUS
  <2>1. Append(t, e) = t \o <<e>> /\ <<e>> \in Seq(Events) /\ Append(t, e) \in Seq(Events)
    BY <2>0, AppendIsConcat, AppendProperties
  <2>2. ASSUME Others(t \o <<e>>) PROVE Others(t) /\ (e.kind # kind \/ (kind # "content" /\ e.index # index))
    <3> DEFINE u == t \o <<e>>
    <3>1. /\ \A i \in DOMAIN t : i \in DOMAIN u /\ u[i] = t[i]
          /\ \A j \in DOMAIN <<e>> : Len(t) + j \in DOMAIN u /\ u[Len(t) + j] = <<e>>[j]
      BY <2>0, ConcatPlaces
    <3>2. \A i \in DOMAIN u : u[i].kind # kind \/ (kind # "content" /\ u[i].index # index)
      BY <2>2
    <3> HIDE DEF u
    <3>3. Others(t)
      BY <3>1, <3>2
    <3>4. Len(t) + 1 \in DOMAIN u /\ u[Len(t) + 1] = e
      BY <2>0, <3>1
    <3> QED
      BY <3>2, <3>3, <3>4
  <2>3. ASSUME Others(t \o <<e>>) PROVE Said(t \o <<e>>, kind, index) = <<>>
    <3>0. Others(t) => Said(t, kind, index) = <<>>
      OBVIOUS
    <3>1. Said(t, kind, index) = <<>> /\ Said(<<e>>, kind, index) = <<>>
      BY <2>2, <2>3, <3>0, SaidOne
    <3>2. <<>> \o <<>> = <<>>
      OBVIOUS
    <3>3. Said(t \o <<e>>, kind, index) = Said(t, kind, index) \o Said(<<e>>, kind, index)
      BY <1>0, <2>0
    <3> QED
      BY <3>1, <3>2, <3>3
  <2> QED
    BY <2>1, <2>3
<1> HIDE DEF T
<1>3. Seq(Events) \subseteq T
  BY <1>1, <1>2, AllSequences
<1> QED
  BY <1>3 DEF T

\* The places of a kind add up, and the indices of a kind come together.
LEMMA PlacesConcat ==
  ASSUME NEW s \in Seq(Events), NEW t \in Seq(Events), NEW kind
  PROVE  /\ IsFiniteSet(Places(s, kind)) /\ Cardinality(Places(s, kind)) \in Nat
         /\ Cardinality(Places(s \o t, kind)) = Cardinality(Places(s, kind)) + Cardinality(Places(t, kind))
         /\ Named(s \o t, kind) = Named(s, kind) \cup Named(t, kind)
<1> DEFINE P == Places(s, kind)
           Q == Places(t, kind)
           U == Places(s \o t, kind)
           n == Len(s)
           R == {n + j : j \in Q}
<1>1. /\ n \in Nat /\ Len(t) \in Nat /\ DOMAIN s = 1..n /\ DOMAIN t = 1..Len(t)
      /\ \A i \in DOMAIN s : i \in DOMAIN (s \o t) /\ (s \o t)[i] = s[i]
      /\ \A j \in DOMAIN t : n + j \in DOMAIN (s \o t) /\ (s \o t)[n + j] = t[j]
      /\ \A i \in DOMAIN (s \o t) : i \in DOMAIN s \/ \E j \in DOMAIN t : i = n + j
  BY ConcatPlaces
<1> HIDE DEF n
<1>2. P \subseteq 1..n /\ Q \subseteq 1..Len(t) /\ IsFiniteSet(1..n) /\ IsFiniteSet(1..Len(t))
  <2>1. P \subseteq DOMAIN s /\ Q \subseteq DOMAIN t
    BY DEF Places
  <2>2. IsFiniteSet(1..n) /\ IsFiniteSet(1..Len(t))
    BY <1>1, FS_Interval
  <2> QED
    BY <1>1, <2>1, <2>2
<1>3. IsFiniteSet(P) /\ IsFiniteSet(Q) /\ Cardinality(P) \in Nat /\ Cardinality(Q) \in Nat
  BY <1>2, FS_Subset, FS_CardinalityType
<1>4. U = P \cup R
  <2>1. \A i \in DOMAIN s : i \in U <=> i \in P
    BY <1>1 DEF Places
  <2>2. \A j \in DOMAIN t : n + j \in U <=> j \in Q
    BY <1>1 DEF Places
  <2>3. P \subseteq DOMAIN s /\ Q \subseteq DOMAIN t /\ U \subseteq DOMAIN (s \o t)
    BY DEF Places
  <2> HIDE DEF P, Q, U
  <2> QED
    BY <1>1, <2>1, <2>2, <2>3
<1>5. IsFiniteSet(R) /\ Cardinality(R) = Cardinality(Q)
  <2> DEFINE f == [j \in Q |-> n + j]
  <2>1. f \in Bijection(Q, R)
    <3>1. \A j, k \in Q : f[j] = f[k] => j = k
      BY <1>1, <1>2
    <3>2. f \in [Q -> R] /\ DOMAIN f = Q /\ \A r \in R : \E j \in Q : f[j] = r
      OBVIOUS
    <3> HIDE DEF f, Q, R
    <3> QED
      BY <3>1, <3>2 DEF Bijection, Injection, Surjection, IsInjective
  <2> HIDE DEF f, Q, R
  <2>2. ExistsBijection(Q, R)
    BY <2>1 DEF ExistsBijection
  <2> QED
    BY <1>3, <2>2, FS_Bijection, FS_SameCardinalityBij
<1>6. P \cap R = {}
  BY <1>1, <1>2
<1>7. Cardinality(U) = Cardinality(P) + Cardinality(Q)
  <2> HIDE DEF P, Q, R, U
  <2>1. Cardinality(P \cap R) = 0
    BY <1>6, FS_EmptySet
  <2>2. Cardinality(P \cup R) = Cardinality(P) + Cardinality(R) - Cardinality(P \cap R)
    BY <1>3, <1>5, FS_Union
  <2>3. Cardinality(P \cup R) = Cardinality(P) + Cardinality(Q)
    BY <1>3, <1>5, <2>1, <2>2
  <2> QED
    BY <1>4, <2>3
<1>8. Named(s \o t, kind) = Named(s, kind) \cup Named(t, kind)
  <2>1. \A i \in P : (s \o t)[i].index = s[i].index
    BY <1>1, <1>2
  <2>2. \A j \in Q : (s \o t)[n + j].index = t[j].index
    BY <1>1, <1>2
  <2>3. ASSUME NEW x PROVE x \in Named(s \o t, kind) <=> x \in Named(s, kind) \cup Named(t, kind)
    <3>1. x \in Named(s \o t, kind) <=> \E i \in U : x = (s \o t)[i].index
      BY DEF Named
    <3>2. x \in Named(s, kind) \cup Named(t, kind) <=> (\E i \in P : x = s[i].index) \/ (\E j \in Q : x = t[j].index)
      BY DEF Named
    <3>3. (\E i \in U : x = (s \o t)[i].index) <=>
            (\E i \in P : x = (s \o t)[i].index) \/ (\E j \in Q : x = (s \o t)[n + j].index)
      <4> HIDE DEF P, Q, U
      <4> QED
        BY <1>4
    <3> HIDE DEF P, Q, U
    <3> QED
      BY <2>1, <2>2, <3>1, <3>2, <3>3
  <2> QED
    BY <2>3
<1> QED
  BY <1>3, <1>7, <1>8

\* The places of one event.
LEMMA PlacesOne ==
  ASSUME NEW e \in Events, NEW kind
  PROVE  /\ Places(<<e>>, kind) = IF e.kind = kind THEN {1} ELSE {}
         /\ Cardinality(Places(<<e>>, kind)) = IF e.kind = kind THEN 1 ELSE 0
         /\ Named(<<e>>, kind) = IF e.kind = kind THEN {e.index} ELSE {}
         /\ Places(<<>>, kind) = {} /\ Cardinality(Places(<<>>, kind)) = 0 /\ Named(<<>>, kind) = {}
<1>1. DOMAIN <<e>> = {1} /\ <<e>>[1] = e /\ DOMAIN <<>> = {}
  OBVIOUS
<1>2. Places(<<e>>, kind) = (IF e.kind = kind THEN {1} ELSE {}) /\ Places(<<>>, kind) = {}
  BY <1>1 DEF Places
<1>3. Cardinality({1}) = 1 /\ Cardinality({}) = 0
  BY FS_Singleton, FS_EmptySet
<1> QED
  BY <1>1, <1>2, <1>3 DEF Named

\* The order of the events of two sequences, of which the first may be known already.
LEMMA OrderConcat ==
  ASSUME NEW s \in Seq(Events), NEW t \in Seq(Events), NEW known
  PROVE  InOrder(s \o t, known) <=> InOrder(s, known) /\ InOrder(t, known \cup Named(s, "tool_start"))
<1> DEFINE n == Len(s)
           Follow(u, j) == u[j].kind \in {"tool_args", "tool_done"} =>
             u[j].index \in known \/ \E k \in 1..(j - 1) : u[k].kind = "tool_start" /\ u[k].index = u[j].index
<1>1. /\ n \in Nat /\ Len(t) \in Nat /\ DOMAIN s = 1..n /\ DOMAIN t = 1..Len(t)
      /\ \A i \in DOMAIN s : i \in DOMAIN (s \o t) /\ (s \o t)[i] = s[i]
      /\ \A j \in DOMAIN t : n + j \in DOMAIN (s \o t) /\ (s \o t)[n + j] = t[j]
      /\ \A i \in DOMAIN (s \o t) : i \in DOMAIN s \/ \E j \in DOMAIN t : i = n + j
  BY ConcatPlaces
<1>2. ASSUME NEW i \in DOMAIN s PROVE Follow(s \o t, i) <=> Follow(s, i)
  <2>1. \A k \in 1..(i - 1) : k \in DOMAIN s
    BY <1>1
  <2> QED
    BY <1>1, <2>1
<1>3. ASSUME NEW j \in DOMAIN t
      PROVE  Follow(s \o t, n + j) <=>
               (t[j].kind \in {"tool_args", "tool_done"} =>
                  t[j].index \in known \cup Named(s, "tool_start")
                  \/ \E k \in 1..(j - 1) : t[k].kind = "tool_start" /\ t[k].index = t[j].index)
  <2> DEFINE Starts(u, k) == u[k].kind = "tool_start" /\ u[k].index = t[j].index
  <2>1. (s \o t)[n + j] = t[j]
    BY <1>1
  <2>2. (\E k \in DOMAIN s : Starts(s, k)) <=> t[j].index \in Named(s, "tool_start")
    BY DEF Named, Places
  <2>3. (\E k \in 1..(n + j - 1) : Starts(s \o t, k)) <=>
          (\E k \in DOMAIN s : Starts(s, k)) \/ (\E k \in 1..(j - 1) : Starts(t, k))
    <3>0. j \in 1..Len(t)
      BY <1>1
    <3>1. ASSUME NEW k \in DOMAIN s PROVE k \in 1..(n + j - 1) /\ (Starts(s \o t, k) <=> Starts(s, k))
      BY <1>1, <3>0
    <3>2. ASSUME NEW k \in 1..(j - 1) PROVE n + k \in 1..(n + j - 1) /\ (Starts(s \o t, n + k) <=> Starts(t, k))
      <4>1. k \in DOMAIN t /\ n + k \in 1..(n + j - 1)
        BY <1>1, <3>0
      <4>2. (s \o t)[n + k] = t[k]
        BY <1>1, <4>1
      <4> QED
        BY <4>1, <4>2
    <3>3. ASSUME NEW k \in 1..(n + j - 1), k \notin DOMAIN s PROVE \E i \in 1..(j - 1) : k = n + i
      <4>1. k - n \in 1..(j - 1) /\ k = n + (k - n)
        BY <1>1, <3>0, <3>3
      <4> QED
        BY <4>1
    <3> HIDE DEF Starts
    <3> QED
      BY <3>1, <3>2, <3>3
  <2>4. (n + j) - 1 = n + j - 1
    OBVIOUS
  <2> QED
    BY <2>1, <2>2, <2>3, <2>4
<1>4. InOrder(s \o t, known) <=> \A i \in DOMAIN (s \o t) : Follow(s \o t, i)
  BY DEF InOrder
<1>5. InOrder(s, known) <=> \A i \in DOMAIN s : Follow(s, i)
  BY DEF InOrder
<1> HIDE DEF Follow, n
<1>6. InOrder(s \o t, known) <=> (\A i \in DOMAIN s : Follow(s \o t, i)) /\ \A j \in DOMAIN t : Follow(s \o t, n + j)
  BY <1>1, <1>4
<1> QED
  BY <1>2, <1>3, <1>5, <1>6 DEF InOrder

\* Ends of two sequences.
LEMMA EndsConcat ==
  ASSUME NEW s \in Seq(Events), NEW t \in Seq(Events)
  PROVE  /\ EndsLast(s \o t) => EndsLast(s) /\ EndsLast(t) /\ (NoEnd(s) \/ OnlyDone(t))
         /\ EndsLast(s) /\ EndsLast(t) /\ (NoEnd(s) \/ OnlyDone(t)) => EndsLast(s \o t)
         /\ OnlyDone(s \o t) <=> OnlyDone(s) /\ OnlyDone(t)
         /\ NoEnd(s \o t) <=> NoEnd(s) /\ NoEnd(t)
<1> DEFINE n == Len(s)
           u == s \o t
<1>1. /\ n \in Nat /\ Len(t) \in Nat /\ DOMAIN s = 1..n /\ DOMAIN t = 1..Len(t) /\ DOMAIN u = 1..(n + Len(t))
      /\ \A i \in DOMAIN s : i \in DOMAIN u /\ u[i] = s[i]
      /\ \A j \in DOMAIN t : n + j \in DOMAIN u /\ u[n + j] = t[j]
      /\ \A i \in DOMAIN u : i \in DOMAIN s \/ \E j \in DOMAIN t : i = n + j
  BY ConcatPlaces
<1> HIDE DEF u, n
<1>2. (OnlyDone(u) <=> OnlyDone(s) /\ OnlyDone(t)) /\ (NoEnd(u) <=> NoEnd(s) /\ NoEnd(t))
  BY <1>1 DEF OnlyDone, NoEnd
<1>3. ASSUME EndsLast(u) PROVE EndsLast(s) /\ EndsLast(t) /\ (NoEnd(s) \/ OnlyDone(t))
  <2>1. EndsLast(s)
    BY <1>1, <1>3 DEF EndsLast
  <2>2. ASSUME NEW j \in DOMAIN t, NEW k \in DOMAIN t, j < k, t[j].kind \in EndKinds PROVE t[k].kind = "done"
    <3>1. n + j \in DOMAIN u /\ n + k \in DOMAIN u /\ n + j < n + k
      BY <1>1, <2>2
    <3> QED
      BY <1>1, <1>3, <2>2, <3>1 DEF EndsLast
  <2>3. ASSUME NEW i \in DOMAIN s, s[i].kind \in EndKinds, NEW j \in DOMAIN t PROVE t[j].kind = "done"
    <3>1. i < n + j
      BY <1>1
    <3> QED
      BY <1>1, <1>3, <2>3, <3>1 DEF EndsLast
  <2> QED
    BY <2>1, <2>2, <2>3 DEF EndsLast, NoEnd, OnlyDone
<1>4. ASSUME EndsLast(s), EndsLast(t), NoEnd(s) \/ OnlyDone(t) PROVE EndsLast(u)
  <2> SUFFICES ASSUME NEW i \in DOMAIN u, NEW k \in DOMAIN u, i < k, u[i].kind \in EndKinds PROVE u[k].kind = "done"
    BY DEF EndsLast
  <2>1. CASE i \in DOMAIN s /\ k \in DOMAIN s
    BY <1>1, <1>4, <2>1 DEF EndsLast
  <2>2. CASE i \in DOMAIN s /\ k \notin DOMAIN s
    BY <1>1, <1>4, <2>2 DEF NoEnd, OnlyDone
  <2>3. CASE i \notin DOMAIN s
    <3>1. PICK j \in DOMAIN t : i = n + j
      BY <1>1, <2>3
    <3>2. k \notin DOMAIN s
      BY <1>1, <2>3
    <3>3. PICK l \in DOMAIN t : k = n + l
      BY <1>1, <3>2
    <3>4. j < l
      BY <1>1, <3>1, <3>3
    <3> QED
      BY <1>1, <1>4, <3>1, <3>3, <3>4 DEF EndsLast
  <2> QED
    BY <2>1, <2>2, <2>3
<1> QED
  BY <1>2, <1>3, <1>4 DEF u

-----------------------------------------------------------------------------
(* What a chunk of any provider says is what it adds to the message. *)

ChunkKinds == {"content", "tool_start", "tool_args", "tool_done", "finish"}

\* c continues the calls of m, as CallsAreOnlyContinued asks.
Continues(m, n) == \A i \in DOMAIN m.tools : IsPrefix(m.tools[i].args, n.tools[i].args)

Adds(m, c) ==
  /\ TypedMessage(c.message) /\ c.events \in Seq(Events)
  /\ \A j \in DOMAIN c.events : c.events[j].kind \in ChunkKinds
  /\ InOrder(c.events, DOMAIN m.tools)
  /\ DOMAIN c.message.tools \subseteq DOMAIN m.tools \cup Named(c.events, "tool_start")
  /\ Len(c.message.tools) = Len(m.tools) + Cardinality(Places(c.events, "tool_start"))
  /\ c.message.text = m.text \o Said(c.events, "content", 0)
  /\ Continues(m, c.message) =>
       \A i \in Nat : ArgsOf(c.message, i) = ArgsOf(m, i) \o Said(c.events, "tool_args", i)

\* The fields of an event.
LEMMA EventIs ==
  ASSUME NEW kind \in Kinds, NEW index \in Nat, NEW data \in Seq(Data)
  PROVE  /\ Event(kind, index, data) \in Events /\ <<Event(kind, index, data)>> \in Seq(Events)
         /\ Event(kind, index, data).kind = kind /\ Event(kind, index, data).index = index
         /\ Event(kind, index, data).data = data
BY DEF Event, Events

\* One event in order.
LEMMA OneInOrder ==
  ASSUME NEW e \in Events, NEW known
  PROVE  /\ InOrder(<<e>>, known) <=> (e.kind \in {"tool_args", "tool_done"} => e.index \in known)
         /\ InOrder(<<>>, known)
         /\ <<>> \in Seq(Events)
<1>1. DOMAIN <<e>> = {1} /\ <<e>>[1] = e /\ DOMAIN <<>> = {}
  OBVIOUS
<1>2. ~\E k \in 1..(1 - 1) : TRUE
  OBVIOUS
<1> QED
  BY <1>1, <1>2 DEF InOrder

\* The fields of a message.
LEMMA MessageIs ==
  ASSUME NEW m, TypedMessage(m)
  PROVE  /\ DOMAIN m = {"text", "tools", "finish", "usage"}
         /\ Len(m.tools) \in Nat /\ DOMAIN m.tools = 1..Len(m.tools)
         /\ \A i \in DOMAIN m.tools : /\ m.tools[i] \in ToolCalls /\ m.tools[i].args \in Seq(Data)
                                      /\ m.tools[i].id \in Data /\ DOMAIN m.tools[i] = {"id", "args", "open"}
         /\ \A i : ArgsOf(m, i) \in Seq(Data)
<1>1. DOMAIN m = {"text", "tools", "finish", "usage"} /\ m.tools \in Seq(ToolCalls)
  BY MessageFields DEF TypedMessage
<1>2. Len(m.tools) \in Nat /\ DOMAIN m.tools = 1..Len(m.tools) /\ \A i \in DOMAIN m.tools : m.tools[i] \in ToolCalls
  BY <1>1, LenProperties, ElementOfSeq
<1>3. \A i \in DOMAIN m.tools : m.tools[i].args \in Seq(Data) /\ m.tools[i].id \in Data
                                /\ DOMAIN m.tools[i] = {"id", "args", "open"}
  BY <1>2 DEF ToolCalls
<1>4. \A i : ArgsOf(m, i) \in Seq(Data)
  BY <1>3, EmptySeq DEF ArgsOf
<1> QED
  BY <1>1, <1>2, <1>3, <1>4

\* The fields of a chunk.
LEMMA ChunkIs == \A m, events : Chunk(m, events).message = m /\ Chunk(m, events).events = events
BY DEF Chunk

\* A chunk that says nothing and changes nothing of the text and the arguments.
LEMMA SilentAdds ==
  ASSUME NEW m, TypedMessage(m), NEW n, TypedMessage(n), n.text = m.text, Len(n.tools) = Len(m.tools),
         \A i \in DOMAIN m.tools : n.tools[i].args = m.tools[i].args,
         NEW events \in Seq(Events),
         \A j \in DOMAIN events :
           events[j].kind = "finish" \/ (events[j].kind = "tool_done" /\ events[j].index \in DOMAIN m.tools)
  PROVE  Adds(m, Chunk(n, events))
<1>1. /\ DOMAIN m.tools = DOMAIN n.tools /\ m.text \in Seq(Data) /\ Len(m.tools) \in Nat
      /\ \A i : ArgsOf(m, i) \in Seq(Data)
  BY MessageIs DEF TypedMessage
<1>2. \A i : ArgsOf(n, i) = ArgsOf(m, i)
  BY <1>1 DEF ArgsOf
<1>3. Said(events, "content", 0) = <<>> /\ \A i : Said(events, "tool_args", i) = <<>>
  BY SaidNothing
<1>4. Places(events, "tool_start") = {} /\ Cardinality({}) = 0
  BY FS_EmptySet DEF Places
<1>5. InOrder(events, DOMAIN m.tools)
  BY DEF InOrder
<1>6. m.text \o <<>> = m.text /\ \A i : ArgsOf(m, i) \o <<>> = ArgsOf(m, i)
  BY <1>1, ConcatEmptySeq
<1>7. \A j \in DOMAIN events : events[j].kind \in ChunkKinds
  BY DEF ChunkKinds
<1> DEFINE c == Chunk(n, events)
<1>8. c.message = n /\ c.events = events
  BY ChunkIs
<1> HIDE DEF c
<1> QED
  <2>1. Named(events, "tool_start") = {}
    BY <1>4 DEF Named
  <2>2. /\ TypedMessage(c.message) /\ c.events \in Seq(Events)
        /\ \A j \in DOMAIN c.events : c.events[j].kind \in ChunkKinds
        /\ InOrder(c.events, DOMAIN m.tools)
    BY <1>5, <1>7, <1>8
  <2>3. /\ DOMAIN c.message.tools \subseteq DOMAIN m.tools \cup Named(c.events, "tool_start")
        /\ Len(c.message.tools) = Len(m.tools) + Cardinality(Places(c.events, "tool_start"))
    <3>1. Cardinality(Places(events, "tool_start")) = 0
      BY <1>4, FS_EmptySet
    <3> QED
      BY <1>1, <1>8, <3>1
  <2>4. c.message.text = m.text \o Said(c.events, "content", 0)
    BY <1>3, <1>6, <1>8
  <2>5. \A i \in Nat : ArgsOf(c.message, i) = ArgsOf(m, i) \o Said(c.events, "tool_args", i)
    BY <1>2, <1>3, <1>6, <1>8
  <2> QED
    BY <2>2, <2>3, <2>4, <2>5 DEF Adds, c

\* A piece of text.
LEMMA TextAdds ==
  ASSUME NEW m, TypedMessage(m), NEW text, NEW emitted \in Seq(Data), text = m.text \o emitted
  PROVE  Adds(m, TextDelta(m, text, emitted))
<1> DEFINE n == [m EXCEPT !.text = text]
           e == Event("content", 0, emitted)
           events == IF emitted = <<>> THEN <<>> ELSE <<e>>
           c == TextDelta(m, text, emitted)
<1>1. /\ DOMAIN m = {"text", "tools", "finish", "usage"} /\ m.text \in Seq(Data) /\ Len(m.tools) \in Nat
      /\ \A i : ArgsOf(m, i) \in Seq(Data)
  BY MessageIs DEF TypedMessage
<1>2. DOMAIN n = DOMAIN m /\ n.text = text /\ n.tools = m.tools /\ n.finish = m.finish
  BY <1>1
<1>3. c.message = n /\ c.events = events
  BY ChunkIs DEF TextDelta
<1>4. e \in Events /\ e.kind = "content" /\ e.index = 0 /\ e.data = emitted /\ <<e>> \in Seq(Events)
  <2>1. "content" \in Kinds /\ 0 \in Nat
    BY DEF Kinds
  <2> QED
    BY <2>1, EventIs
<1> HIDE DEF n, e, c
<1>5. TypedMessage(n)
  BY <1>1, <1>2, ConcatProperties DEF TypedMessage
<1>6. /\ events \in Seq(Events) /\ \A j \in DOMAIN events : events[j].kind \in ChunkKinds
      /\ InOrder(events, DOMAIN m.tools)
      /\ Named(events, "tool_start") = {} /\ Cardinality(Places(events, "tool_start")) = 0
      /\ Said(events, "content", 0) = emitted /\ \A i : Said(events, "tool_args", i) = <<>>
  <2>1. CASE emitted = <<>>
    <3>1. events = <<>> /\ DOMAIN <<>> = {}
      BY <2>1
    <3> QED
      BY <1>4, <2>1, <3>1, OneInOrder, PlacesOne, SaidOne
  <2>2. CASE emitted # <<>>
    <3>1. events = <<e>> /\ DOMAIN <<e>> = {1} /\ <<e>>[1] = e
      BY <2>2
    <3>2. "content" \in ChunkKinds
      BY DEF ChunkKinds
    <3> HIDE DEF events
    <3> QED
      BY <1>4, <3>1, <3>2, OneInOrder, PlacesOne, SaidOne
  <2> QED
    BY <2>1, <2>2
<1>7. \A i : ArgsOf(n, i) = ArgsOf(m, i) /\ ArgsOf(m, i) \o <<>> = ArgsOf(m, i)
  BY <1>1, <1>2, ConcatEmptySeq DEF ArgsOf
<1> HIDE DEF events
<1> QED
  BY <1>1, <1>2, <1>3, <1>5, <1>6, <1>7 DEF Adds, c

\* Arguments that are emitted.
LEMMA ArgsAre ==
  ASSUME NEW i \in Nat, NEW args \in Seq(Data)
  PROVE  /\ ArgsDelta(i, args) \in Seq(Events)
         /\ \A j \in DOMAIN ArgsDelta(i, args) : ArgsDelta(i, args)[j].kind = "tool_args"
         /\ \A known : i \in known => InOrder(ArgsDelta(i, args), known)
         /\ Named(ArgsDelta(i, args), "tool_start") = {} /\ Cardinality(Places(ArgsDelta(i, args), "tool_start")) = 0
         /\ Said(ArgsDelta(i, args), "content", 0) = <<>>
         /\ \A k : Said(ArgsDelta(i, args), "tool_args", k) = IF k = i THEN args ELSE <<>>
<1> DEFINE e == Event("tool_args", i, args)
           events == ArgsDelta(i, args)
<1>1. e \in Events /\ e.kind = "tool_args" /\ e.index = i /\ e.data = args /\ <<e>> \in Seq(Events)
  <2>1. "tool_args" \in Kinds
    BY DEF Kinds
  <2> QED
    BY <2>1, EventIs
<1>2. events = IF args = <<>> THEN <<>> ELSE <<e>>
  BY DEF ArgsDelta
<1> HIDE DEF e, events
<1>3. CASE args = <<>>
  <2>1. events = <<>> /\ DOMAIN <<>> = {}
    BY <1>2, <1>3
  <2> QED
    <3>1. /\ events \in Seq(Events) /\ \A known : InOrder(events, known)
          /\ Named(events, "tool_start") = {} /\ Cardinality(Places(events, "tool_start")) = 0
          /\ Said(events, "content", 0) = <<>> /\ \A k : Said(events, "tool_args", k) = <<>>
      BY <1>1, <2>1, OneInOrder, PlacesOne, SaidOne
    <3>2. \A j \in DOMAIN events : FALSE
      BY <2>1
    <3> QED
      BY <1>3, <3>1, <3>2 DEF events
<1>4. CASE args # <<>>
  <2>1. events = <<e>> /\ DOMAIN <<e>> = {1} /\ <<e>>[1] = e
    BY <1>2, <1>4
  <2>2. /\ events \in Seq(Events) /\ \A j \in DOMAIN events : events[j].kind = "tool_args"
        /\ \A known : i \in known => InOrder(events, known)
    BY <1>1, <2>1, OneInOrder
  <2>3. Named(events, "tool_start") = {} /\ Cardinality(Places(events, "tool_start")) = 0
    BY <1>1, <2>1, PlacesOne
  <2>4. Said(events, "content", 0) = <<>> /\ \A k : Said(events, "tool_args", k) = IF k = i THEN args ELSE <<>>
    BY <1>1, <2>1, SaidOne
  <2> QED
    BY <2>2, <2>3, <2>4 DEF events
<1> QED
  BY <1>3, <1>4

\* A tool that is opened with its first arguments.
LEMMA ToolAdds ==
  ASSUME NEW m, TypedMessage(m), NEW id \in Data, NEW args \in Seq(Data)
  PROVE  Adds(m, OpenTool(m, id, args))
<1> DEFINE tool == [id |-> id, args |-> args, open |-> TRUE]
           tools == Append(m.tools, tool)
           n == [m EXCEPT !.tools = tools]
           l == Len(m.tools) + 1
           e == Event("tool_start", l, <<id>>)
           a == ArgsDelta(l, args)
           events == <<e>> \o a
           c == OpenTool(m, id, args)
<1>1. /\ DOMAIN m = {"text", "tools", "finish", "usage"} /\ m.text \in Seq(Data) /\ m.finish \in Data
      /\ m.tools \in Seq(ToolCalls) /\ Len(m.tools) \in Nat /\ DOMAIN m.tools = 1..Len(m.tools)
      /\ \A i : ArgsOf(m, i) \in Seq(Data)
  BY MessageIs DEF TypedMessage
<1>2. tool \in ToolCalls /\ tool.args = args
  BY DEF ToolCalls
<1>3. c.message = n /\ c.events = events
  BY ChunkIs DEF OpenTool
<1>4. l \in Nat /\ <<id>> \in Seq(Data)
  BY <1>1
<1>5. e \in Events /\ e.kind = "tool_start" /\ e.index = l /\ <<e>> \in Seq(Events)
  <2>1. "tool_start" \in Kinds
    BY DEF Kinds
  <2>2. \A k \in Nat : \A data \in Seq(Data) :
          /\ Event("tool_start", k, data) \in Events /\ <<Event("tool_start", k, data)>> \in Seq(Events)
          /\ Event("tool_start", k, data).kind = "tool_start" /\ Event("tool_start", k, data).index = k
    BY <2>1, EventIs
  <2> QED
    BY <1>4, <2>2
<1> HIDE DEF tool, e, c
<1>6. /\ tools \in Seq(ToolCalls) /\ Len(tools) = l /\ DOMAIN tools = 1..l /\ tools[l] = tool
      /\ \A i \in DOMAIN m.tools : tools[i] = m.tools[i]
  <2>1. tools \in Seq(ToolCalls) /\ Len(tools) = l /\ tools[l] = tool /\ \A i \in DOMAIN m.tools : tools[i] = m.tools[i]
    BY <1>1, <1>2, AppendProperties
  <2> HIDE DEF tools, l
  <2> QED
    BY <2>1, LenProperties
<1> HIDE DEF tools
<1>7. DOMAIN n = DOMAIN m /\ n.text = m.text /\ n.tools = tools /\ n.finish = m.finish
  BY <1>1
<1>8. TypedMessage(n)
  BY <1>1, <1>6, <1>7 DEF TypedMessage
<1>9. /\ a \in Seq(Events) /\ \A j \in DOMAIN a : a[j].kind = "tool_args"
      /\ InOrder(a, (DOMAIN m.tools) \cup {l})
      /\ Named(a, "tool_start") = {} /\ Cardinality(Places(a, "tool_start")) = 0
      /\ Said(a, "content", 0) = <<>> /\ \A k : Said(a, "tool_args", k) = IF k = l THEN args ELSE <<>>
  BY <1>4, ArgsAre
<1> HIDE DEF n, a
<1>10. /\ Named(<<e>>, "tool_start") = {l} /\ Cardinality(Places(<<e>>, "tool_start")) = 1
       /\ Said(<<e>>, "content", 0) = <<>> /\ \A k : Said(<<e>>, "tool_args", k) = <<>>
       /\ InOrder(<<e>>, DOMAIN m.tools)
  BY <1>5, PlacesOne, SaidOne, OneInOrder
<1>11. /\ events \in Seq(Events) /\ InOrder(events, DOMAIN m.tools)
       /\ Named(events, "tool_start") = {l} /\ Cardinality(Places(events, "tool_start")) = 1
  <2>1. Named(events, "tool_start") = {l} \cup {} /\ Cardinality(Places(events, "tool_start")) = 1 + 0
    <3>1. \A u, v \in Seq(Events) :
            /\ Cardinality(Places(u \o v, "tool_start")) = Cardinality(Places(u, "tool_start")) + Cardinality(Places(v, "tool_start"))
            /\ Named(u \o v, "tool_start") = Named(u, "tool_start") \cup Named(v, "tool_start")
      BY PlacesConcat
    <3> QED
      BY <1>5, <1>9, <1>10, <3>1
  <2>2. InOrder(events, DOMAIN m.tools)
    BY <1>5, <1>9, <1>10, OrderConcat
  <2>3. events \in Seq(Events)
    BY <1>5, <1>9, ConcatProperties
  <2> QED
    BY <2>1, <2>2, <2>3
<1>12. Said(events, "content", 0) = <<>> /\ \A k : Said(events, "tool_args", k) = IF k = l THEN args ELSE <<>>
  <2>1. \A kind, k : Said(events, kind, k) = Said(<<e>>, kind, k) \o Said(a, kind, k)
    <3>1. \A u, v \in Seq(Events) : \A kind, k : Said(u \o v, kind, k) = Said(u, kind, k) \o Said(v, kind, k)
      BY SaidConcat
    <3> QED
      BY <1>5, <1>9, <3>1
  <2>2. <<>> \o <<>> = <<>> /\ <<>> \o args = args
    BY ConcatEmptySeq
  <2> HIDE DEF events
  <2> QED
    <3>1. Said(events, "content", 0) = <<>> \o <<>>
      BY <1>9, <1>10, <2>1
    <3>2. \A k : Said(events, "tool_args", k) = <<>> \o Said(a, "tool_args", k)
      BY <1>10, <2>1
    <3>3. ASSUME NEW k PROVE Said(events, "tool_args", k) = IF k = l THEN args ELSE <<>>
      <4>1. CASE k = l
        BY <1>9, <2>2, <3>2, <4>1
      <4>2. CASE k # l
        BY <1>9, <2>2, <3>2, <4>2
      <4> QED
        BY <4>1, <4>2
    <3> QED
      BY <2>2, <3>1, <3>3
<1>13. \A j \in DOMAIN events : events[j].kind \in ChunkKinds
  <2>1. /\ \A j \in DOMAIN events : j \in DOMAIN <<e>> \/ \E k \in DOMAIN a : j = Len(<<e>>) + k
        /\ \A j \in DOMAIN <<e>> : events[j] = <<e>>[j]
        /\ \A k \in DOMAIN a : events[Len(<<e>>) + k] = a[k]
    <3>1. \A u, v \in Seq(Events) :
            /\ \A i \in DOMAIN u : (u \o v)[i] = u[i]
            /\ \A j \in DOMAIN v : (u \o v)[Len(u) + j] = v[j]
            /\ \A i \in DOMAIN (u \o v) : i \in DOMAIN u \/ \E j \in DOMAIN v : i = Len(u) + j
      BY ConcatPlaces
    <3> QED
      BY <1>5, <1>9, <3>1
  <2>2. DOMAIN <<e>> = {1} /\ <<e>>[1] = e
    OBVIOUS
  <2>3. \A j \in DOMAIN <<e>> : <<e>>[j].kind = "tool_start"
    BY <1>5, <2>2
  <2> HIDE DEF events
  <2> QED
    BY <1>9, <2>1, <2>3 DEF ChunkKinds
<1>14. \A i \in Nat : ArgsOf(n, i) = ArgsOf(m, i) \o IF i = l THEN args ELSE <<>>
  <2>1. \A i : ArgsOf(m, i) \o <<>> = ArgsOf(m, i)
    BY <1>1, ConcatEmptySeq
  <2>2. <<>> \o args = args
    BY ConcatEmptySeq
  <2>3. ArgsOf(m, l) = <<>> /\ ArgsOf(n, l) = args
    BY <1>1, <1>2, <1>4, <1>6, <1>7 DEF ArgsOf
  <2>4. \A i \in Nat : i # l => ArgsOf(n, i) = ArgsOf(m, i)
    BY <1>1, <1>4, <1>6, <1>7 DEF ArgsOf
  <2> QED
    BY <2>1, <2>2, <2>3, <2>4
<1>15. DOMAIN n.tools = (DOMAIN m.tools) \cup {l} /\ Len(n.tools) = Len(m.tools) + 1
  BY <1>1, <1>6, <1>7
<1>16. m.text \o <<>> = m.text
  BY <1>1, ConcatEmptySeq
<1> HIDE DEF events, l
<1> QED
  BY <1>3, <1>7, <1>8, <1>11, <1>12, <1>13, <1>14, <1>15, <1>16 DEF Adds, c

\* Arguments that replace those of a call, by the ones before and what is emitted when they continue them.
LEMMA ArgsAdd ==
  ASSUME NEW m, TypedMessage(m), NEW i \in DOMAIN m.tools, NEW args \in Seq(Data), NEW emitted \in Seq(Data),
         IsPrefix(m.tools[i].args, args) => args = m.tools[i].args \o emitted
  PROVE  Adds(m, MoreArgs(m, i, args, emitted))
<1> DEFINE tool == [m.tools[i] EXCEPT !.args = args]
           tools == [m.tools EXCEPT ![i] = tool]
           n == [m EXCEPT !.tools = tools]
           events == ArgsDelta(i, emitted)
           c == MoreArgs(m, i, args, emitted)
<1>1. /\ DOMAIN m = {"text", "tools", "finish", "usage"} /\ m.text \in Seq(Data) /\ m.finish \in Data
      /\ m.tools \in Seq(ToolCalls) /\ Len(m.tools) \in Nat /\ DOMAIN m.tools = 1..Len(m.tools)
      /\ m.tools[i] \in ToolCalls /\ \A k : ArgsOf(m, k) \in Seq(Data)
  BY MessageIs DEF TypedMessage
<1>2. tool \in ToolCalls /\ tool.args = args
  BY <1>1 DEF ToolCalls
<1>3. c.message = n /\ c.events = events
  BY <1>1, ChunkIs DEF MoreArgs
<1>4. i \in Nat /\ i \in 1..Len(m.tools)
  BY <1>1
<1> HIDE DEF tool, c
<1>5. /\ tools \in Seq(ToolCalls) /\ Len(tools) = Len(m.tools) /\ DOMAIN tools = DOMAIN m.tools
      /\ \A k \in DOMAIN m.tools : tools[k] = IF k = i THEN tool ELSE m.tools[k]
  BY <1>1, <1>2, <1>4, ExceptSeq
<1> HIDE DEF tools
<1>6. DOMAIN n = DOMAIN m /\ n.text = m.text /\ n.tools = tools /\ n.finish = m.finish
  BY <1>1
<1> HIDE DEF n
<1>7. TypedMessage(n)
  BY <1>1, <1>5, <1>6 DEF TypedMessage
<1>8. /\ events \in Seq(Events) /\ (\A j \in DOMAIN events : events[j].kind = "tool_args")
      /\ InOrder(events, DOMAIN m.tools)
      /\ Named(events, "tool_start") = {} /\ Cardinality(Places(events, "tool_start")) = 0
      /\ Said(events, "content", 0) = <<>> /\ \A k : Said(events, "tool_args", k) = IF k = i THEN emitted ELSE <<>>
  BY <1>4, ArgsAre
<1> HIDE DEF events
<1>9. ASSUME Continues(m, n), NEW k \in Nat PROVE ArgsOf(n, k) = ArgsOf(m, k) \o Said(events, "tool_args", k)
  <2>1. CASE k = i
    <3>1. n.tools[i].args = args
      BY <1>2, <1>5, <1>6
    <3>2. args = m.tools[i].args \o emitted
      BY <1>9, <3>1 DEF Continues
    <3>3. ArgsOf(n, k) = args /\ ArgsOf(m, k) = m.tools[i].args
      BY <1>5, <1>6, <2>1, <3>1 DEF ArgsOf
    <3> QED
      BY <1>8, <2>1, <3>2, <3>3
  <2>2. CASE k # i
    <3>1. ArgsOf(n, k) = ArgsOf(m, k)
      BY <1>5, <1>6, <2>2 DEF ArgsOf
    <3>2. ArgsOf(m, k) \o <<>> = ArgsOf(m, k)
      BY <1>1, ConcatEmptySeq
    <3> QED
      BY <1>8, <2>2, <3>1, <3>2
  <2> QED
    BY <2>1, <2>2
<1>10. m.text \o <<>> = m.text
  BY <1>1, ConcatEmptySeq
<1>11. "tool_args" \in ChunkKinds
  BY DEF ChunkKinds
<1>12. /\ TypedMessage(c.message) /\ c.events \in Seq(Events)
       /\ \A j \in DOMAIN c.events : c.events[j].kind \in ChunkKinds
       /\ InOrder(c.events, DOMAIN m.tools)
  BY <1>3, <1>7, <1>8, <1>11
<1>13. /\ DOMAIN c.message.tools \subseteq DOMAIN m.tools \cup Named(c.events, "tool_start")
       /\ Len(c.message.tools) = Len(m.tools) + Cardinality(Places(c.events, "tool_start"))
  BY <1>1, <1>3, <1>5, <1>6, <1>8
<1>14. c.message.text = m.text \o Said(c.events, "content", 0)
  BY <1>3, <1>6, <1>8, <1>10
<1>15. Continues(m, c.message) =>
         \A k \in Nat : ArgsOf(c.message, k) = ArgsOf(m, k) \o Said(c.events, "tool_args", k)
  BY <1>3, <1>9
<1> QED
  BY <1>12, <1>13, <1>14, <1>15 DEF Adds, c

-----------------------------------------------------------------------------
(* The chunks of the providers. *)

\* What is between a sequence and a longer one that it begins.
LEMMA PrefixRest ==
  ASSUME NEW S, NEW s \in Seq(S), NEW t \in Seq(S), IsPrefix(s, t)
  PROVE  t = s \o NewText(s, t)
<1>1. Len(s) \in Nat /\ Len(t) \in Nat /\ Len(s) <= Len(t) /\ SubSeq(s, 1, Len(s)) = SubSeq(t, 1, Len(s))
  BY LenProperties DEF IsPrefix
<1>2. SubSeq(s, 1, Len(s)) = s /\ SubSeq(t, 1, Len(t)) = t
  BY SubSeqFull
<1>3. 1 \in 1..(Len(t) + 1) /\ Len(s) \in (1 - 1)..Len(t) /\ Len(t) \in Len(s)..Len(t)
  BY <1>1
<1>4. SubSeq(t, 1, Len(s)) \o SubSeq(t, Len(s) + 1, Len(t)) = SubSeq(t, 1, Len(t))
  BY <1>3, ConcatAdjacentSubSeq
<1> QED
  BY <1>1, <1>2, <1>4 DEF NewText

\* The rest is a sequence, whether the first begins the second or not.
LEMMA RestTyped ==
  ASSUME NEW S, NEW s \in Seq(S), NEW t \in Seq(S)
  PROVE  NewText(s, t) \in Seq(S)
<1>1. Len(s) \in Nat /\ Len(t) \in Nat /\ \A i \in 1..Len(t) : t[i] \in S
  BY LenProperties, ElementOfSeq
<1>2. Len(s) + 1 \in Int /\ Len(t) \in Int /\ \A i \in (Len(s) + 1)..Len(t) : t[i] \in S
  BY <1>1
<1> QED
  BY <1>2, SubSeqProperties DEF NewText

\* Pieces, call ids and their sequences are data.
LEMMA PiecesAreData ==
  /\ Pieces \subseteq Data /\ CallIds \subseteq Data /\ "call_google_0" \in Data
  /\ Args \subseteq Seq(Data) /\ Texts \subseteq Seq(Data) /\ \A p \in Pieces : <<p>> \in Seq(Data)
<1>1. Pieces \subseteq Data /\ CallIds \subseteq Data /\ "call_google_0" \in Data
  BY DEF Data, Words
<1>2. \A p, q \in Data : <<p>> \in Seq(Data) /\ <<p, q>> \in Seq(Data)
  OBVIOUS
<1>3. <<>> \in Seq(Data)
  OBVIOUS
<1>4. \A p, q \in Pieces : <<p>> \in Seq(Data) /\ <<p, q>> \in Seq(Data)
  BY <1>1, <1>2
<1>5. Args \subseteq Seq(Data)
  BY <1>3, <1>4 DEF Args
<1>6. Texts \subseteq Seq(Data)
  <2>1. ASSUME NEW t \in Texts PROVE t \in Seq(Data)
    <3>1. (\E p \in Pieces : t = <<p>>) \/ (\E p, q \in Pieces : t = <<p, q>>)
      BY DEF Texts
    <3> QED
      BY <1>4, <3>1
  <2> QED
    BY <2>1
<1> QED
  BY <1>1, <1>4, <1>5, <1>6

\* The events that end all calls.
LEMMA AllCompletedIs ==
  ASSUME NEW m, TypedMessage(m)
  PROVE  /\ AllCompleted(m) \in Seq(Events)
         /\ \A j \in DOMAIN AllCompleted(m) :
              /\ AllCompleted(m)[j].kind = "tool_done" /\ AllCompleted(m)[j].index \in DOMAIN m.tools
<1> DEFINE events == AllCompleted(m)
           n == Len(m.tools)
<1>1. n \in Nat /\ DOMAIN m.tools = 1..n
  BY MessageIs
<1>2. "tool_done" \in Kinds /\ <<>> \in Seq(Data)
  BY EmptySeq DEF Kinds
<1>3. \A i \in 1..n : /\ Event("tool_done", i, <<>>) \in Events
                      /\ Event("tool_done", i, <<>>).kind = "tool_done" /\ Event("tool_done", i, <<>>).index = i
  <2>1. \A i \in Nat : \A data \in Seq(Data) :
          /\ Event("tool_done", i, data) \in Events
          /\ Event("tool_done", i, data).kind = "tool_done" /\ Event("tool_done", i, data).index = i
    BY <1>2, EventIs
  <2>2. \A i \in 1..n : i \in Nat
    BY <1>1
  <2> HIDE DEF n
  <2> QED
    BY <1>2, <2>1, <2>2
<1>4. events = [i \in 1..n |-> Event("tool_done", i, <<>>)]
  BY <1>1 DEF AllCompleted
<1> HIDE DEF n, events
<1>5. DOMAIN events = 1..n /\ \A i \in 1..n : events[i] = Event("tool_done", i, <<>>)
  BY <1>4
<1>6. events \in [1..n -> Events]
  BY <1>3, <1>4
<1>7. events \in Seq(Events)
  BY <1>1, <1>6, SeqDef
<1>8. \A j \in DOMAIN events : events[j].kind = "tool_done" /\ events[j].index \in DOMAIN m.tools
  BY <1>1, <1>3, <1>5
<1> QED
  BY <1>7, <1>8 DEF events

\* The finish reason.
LEMMA FinishedIs ==
  ASSUME NEW reason \in Data
  PROVE  /\ Finished(reason) \in Seq(Events) /\ DOMAIN Finished(reason) = {1} /\ Finished(reason)[1].kind = "finish"
<1>1. "finish" \in Kinds /\ 0 \in Nat /\ <<reason>> \in Seq(Data)
  BY DEF Kinds
<1>2. Event("finish", 0, <<reason>>) \in Events /\ Event("finish", 0, <<reason>>).kind = "finish"
  <2>1. \A i \in Nat : \A data \in Seq(Data) :
          Event("finish", i, data) \in Events /\ Event("finish", i, data).kind = "finish"
    BY <1>1, EventIs
  <2> QED
    BY <1>1, <2>1
<1> DEFINE e == Event("finish", 0, <<reason>>)
<1>3. Finished(reason) = <<e>>
  BY DEF Finished
<1> HIDE DEF e
<1>4. <<e>> \in Seq(Events) /\ DOMAIN <<e>> = {1} /\ <<e>>[1] = e
  BY <1>2 DEF e
<1> QED
  BY <1>2, <1>3, <1>4 DEF e

\* A finish reason behind other events that say nothing.
LEMMA FinishAdds ==
  ASSUME NEW m, TypedMessage(m), NEW events \in Seq(Events),
         \A j \in DOMAIN events :
           events[j].kind = "finish" \/ (events[j].kind = "tool_done" /\ events[j].index \in DOMAIN m.tools)
  PROVE  Adds(m, Finish(m, events))
<1> DEFINE n == [m EXCEPT !.finish = "stop"]
           all == events \o Finished("stop")
<1>1. "stop" \in Data
  BY DEF Data, Words
<1>2. DOMAIN m = {"text", "tools", "finish", "usage"}
  BY MessageIs
<1>3. DOMAIN n = DOMAIN m /\ n.text = m.text /\ n.tools = m.tools /\ n.finish = "stop"
  BY <1>2
<1>4. Finish(m, events) = Chunk(n, all)
  BY DEF Finish
<1> HIDE DEF n
<1>5. TypedMessage(n)
  BY <1>1, <1>3 DEF TypedMessage
<1>6. \A u, v \in Seq(Events) :
        /\ u \o v \in Seq(Events) /\ \A i \in DOMAIN u : (u \o v)[i] = u[i]
        /\ \A j \in DOMAIN v : (u \o v)[Len(u) + j] = v[j]
        /\ \A i \in DOMAIN (u \o v) : i \in DOMAIN u \/ \E j \in DOMAIN v : i = Len(u) + j
  BY ConcatPlaces
<1>7. Finished("stop") \in Seq(Events) /\ DOMAIN Finished("stop") = {1} /\ Finished("stop")[1].kind = "finish"
  BY <1>1, FinishedIs
<1>8. /\ all \in Seq(Events)
      /\ \A j \in DOMAIN all : all[j].kind = "finish" \/ (all[j].kind = "tool_done" /\ all[j].index \in DOMAIN m.tools)
  BY <1>6, <1>7
<1> HIDE DEF all
<1> QED
  BY <1>3, <1>4, <1>5, <1>8, SilentAdds

\* The chunks that the providers share.
LEMMA ContentAdds ==
  ASSUME NEW m, TypedMessage(m)
  PROVE  /\ \A c \in TextPieces(m) : Adds(m, c)
         /\ \A c \in ToolStarts(m) : Adds(m, c)
         /\ \A i \in DOMAIN m.tools : \A c \in ArgsPieces(m, i) : Adds(m, c)
         /\ \A i \in DOMAIN m.tools : Adds(m, BlockStop(m, i))
         /\ \A u : Adds(m, WithUsage(m, u))
         /\ Adds(m, Chunk(m, <<>>)) /\ Adds(m, Finish(m, <<>>)) /\ Adds(m, Finish(m, AllCompleted(m)))
<1>0. /\ DOMAIN m = {"text", "tools", "finish", "usage"} /\ m.text \in Seq(Data) /\ m.finish \in Data
      /\ m.tools \in Seq(ToolCalls) /\ Len(m.tools) \in Nat /\ DOMAIN m.tools = 1..Len(m.tools)
      /\ \A i \in DOMAIN m.tools : m.tools[i].args \in Seq(Data) /\ m.tools[i] \in ToolCalls
  BY MessageIs DEF TypedMessage
<1>1. \A s \in Seq(Data) : \A p \in Data : Append(s, p) = s \o <<p>> /\ Append(s, p) \in Seq(Data)
  BY AppendIsConcat, AppendProperties
<1>2. ASSUME NEW c \in TextPieces(m) PROVE Adds(m, c)
  <2>1. PICK p \in Pieces : c = TextDelta(m, Append(m.text, p), <<p>>)
    BY DEF TextPieces
  <2>2. p \in Data /\ <<p>> \in Seq(Data) /\ Append(m.text, p) = m.text \o <<p>>
    BY <1>0, <1>1, PiecesAreData
  <2> QED
    BY <2>1, <2>2, TextAdds
<1>3. ASSUME NEW c \in ToolStarts(m) PROVE Adds(m, c)
  <2>1. PICK id \in NewIds(m), args \in Args : c = OpenTool(m, id, args)
    BY DEF ToolStarts
  <2>2. id \in Data /\ args \in Seq(Data)
    BY PiecesAreData DEF NewIds
  <2> QED
    BY <2>1, <2>2, ToolAdds
<1>4. ASSUME NEW i \in DOMAIN m.tools, NEW c \in ArgsPieces(m, i) PROVE Adds(m, c)
  <2>1. PICK p \in Pieces : c = MoreArgs(m, i, Append(m.tools[i].args, p), <<p>>)
    BY DEF ArgsPieces
  <2> DEFINE args == Append(m.tools[i].args, p)
  <2>2. p \in Data /\ <<p>> \in Seq(Data) /\ args = m.tools[i].args \o <<p>> /\ args \in Seq(Data)
    BY <1>0, <1>1, PiecesAreData
  <2> HIDE DEF args
  <2>3. Adds(m, MoreArgs(m, i, args, <<p>>))
    BY <2>2, ArgsAdd
  <2> QED
    BY <2>1, <2>3 DEF args
<1>5. <<>> \in Seq(Events) /\ \A j \in DOMAIN <<>> : FALSE
  OBVIOUS
<1>6. ASSUME NEW i \in DOMAIN m.tools PROVE Adds(m, BlockStop(m, i))
  <2> DEFINE tool == [m.tools[i] EXCEPT !.open = FALSE]
             tools == [m.tools EXCEPT ![i] = tool]
             n == [m EXCEPT !.tools = tools]
             e == Event("tool_done", i, <<>>)
  <2>1. BlockStop(m, i) = Chunk(n, <<e>>)
    BY <1>0 DEF BlockStop
  <2>2. tool \in ToolCalls /\ tool.args = m.tools[i].args
    BY <1>0 DEF ToolCalls
  <2> HIDE DEF tool
  <2>3. i \in Nat /\ i \in 1..Len(m.tools)
    BY <1>0
  <2>4. "tool_done" \in Kinds /\ <<>> \in Seq(Data)
    BY DEF Kinds
  <2>5. e \in Events /\ e.kind = "tool_done" /\ e.index = i /\ <<e>> \in Seq(Events)
    <3>1. \A data \in Seq(Data) :
            /\ Event("tool_done", i, data) \in Events /\ <<Event("tool_done", i, data)>> \in Seq(Events)
            /\ Event("tool_done", i, data).kind = "tool_done" /\ Event("tool_done", i, data).index = i
      BY <2>3, <2>4, EventIs
    <3> QED
      BY <2>4, <3>1
  <2> HIDE DEF e
  <2>6. DOMAIN <<e>> = {1} /\ <<e>>[1] = e
    OBVIOUS
  <2>7. /\ tools \in Seq(ToolCalls) /\ Len(tools) = Len(m.tools)
        /\ \A k \in DOMAIN m.tools : tools[k] = IF k = i THEN tool ELSE m.tools[k]
    BY <1>0, <2>2, <2>3, ExceptSeq
  <2> HIDE DEF tools
  <2>8. DOMAIN n = DOMAIN m /\ n.text = m.text /\ n.tools = tools /\ n.finish = m.finish
    BY <1>0
  <2> HIDE DEF n
  <2>9. TypedMessage(n) /\ \A k \in DOMAIN m.tools : n.tools[k].args = m.tools[k].args
    BY <1>0, <2>2, <2>7, <2>8 DEF TypedMessage
  <2>10. \A j \in DOMAIN <<e>> : <<e>>[j].kind = "tool_done" /\ <<e>>[j].index \in DOMAIN m.tools
    BY <2>5, <2>6
  <2>11. Len(n.tools) = Len(m.tools)
    BY <2>7, <2>8
  <2>12. Adds(m, Chunk(n, <<e>>))
    <3> DEFINE events == <<e>>
    <3>1. /\ events \in Seq(Events)
          /\ \A j \in DOMAIN events :
               events[j].kind = "finish" \/ (events[j].kind = "tool_done" /\ events[j].index \in DOMAIN m.tools)
      BY <2>5, <2>10
    <3> HIDE DEF events
    <3>2. Adds(m, Chunk(n, events))
      BY <2>8, <2>9, <2>11, <3>1, SilentAdds
    <3> QED
      BY <3>2 DEF events
  <2> QED
    BY <2>1, <2>12 DEF e
<1>7. ASSUME NEW u PROVE Adds(m, WithUsage(m, u))
  <2> DEFINE x == [known |-> TRUE, report |-> u]
             n == [m EXCEPT !.usage = x]
  <2>1. WithUsage(m, u) = Chunk(n, <<>>)
    BY DEF WithUsage
  <2> HIDE DEF x
  <2>2. DOMAIN n = DOMAIN m /\ n.text = m.text /\ n.tools = m.tools /\ n.finish = m.finish
    BY <1>0
  <2> HIDE DEF n
  <2>3. TypedMessage(n)
    BY <2>2 DEF TypedMessage
  <2> QED
    BY <1>5, <2>1, <2>2, <2>3, SilentAdds
<1>8. Adds(m, Chunk(m, <<>>))
  BY <1>5, SilentAdds
<1>9. Adds(m, Finish(m, <<>>)) /\ Adds(m, Finish(m, AllCompleted(m)))
  BY <1>5, FinishAdds, AllCompletedIs
<1> QED
  BY <1>2, <1>3, <1>4, <1>6, <1>7, <1>8, <1>9

\* What Google says, before its finish reason.
LEMMA GoogleAdds ==
  ASSUME NEW m, TypedMessage(m)
  PROVE  /\ \A t \in Texts : Adds(m, GoogleText(m, t))
         /\ \A id \in Data : \A args \in Seq(Data) : Adds(m, GoogleCall(m, id, args))
<1>0. /\ m.text \in Seq(Data) /\ Len(m.tools) \in Nat /\ DOMAIN m.tools = 1..Len(m.tools)
      /\ \A i \in DOMAIN m.tools : m.tools[i].args \in Seq(Data)
  BY MessageIs DEF TypedMessage
<1>1. ASSUME NEW t \in Texts PROVE Adds(m, GoogleText(m, t))
  <2>1. t \in Seq(Data)
    BY PiecesAreData
  <2>2. CASE IsPrefix(m.text, t)
    <3>1. t = m.text \o NewText(m.text, t) /\ NewText(m.text, t) \in Seq(Data)
      BY <1>0, <2>1, <2>2, PrefixRest, RestTyped
    <3>2. GoogleText(m, t) = TextDelta(m, t, NewText(m.text, t))
      BY <2>2 DEF GoogleText
    <3> QED
      BY <3>1, <3>2, TextAdds
  <2>3. CASE ~IsPrefix(m.text, t) /\ IsPrefix(t, m.text)
    BY <2>3, ContentAdds DEF GoogleText
  <2>4. CASE ~IsPrefix(m.text, t) /\ ~IsPrefix(t, m.text)
    <3>1. GoogleText(m, t) = TextDelta(m, m.text \o t, t)
      BY <2>4 DEF GoogleText
    <3> QED
      BY <2>1, <3>1, TextAdds
  <2> QED
    BY <2>2, <2>3, <2>4
<1>2. ASSUME NEW id \in Data, NEW args \in Seq(Data) PROVE Adds(m, GoogleCall(m, id, args))
  <2> DEFINE i == MatchedCall(m, id)
             same == {k \in DOMAIN m.tools : m.tools[k].id = id}
  <2>1. i = 0 \/ i \in DOMAIN m.tools
    <3>1. CASE same = {}
      BY <3>1 DEF MatchedCall
    <3>2. CASE same # {}
      <4>1. i = Min(same)
        BY <3>2 DEF MatchedCall
      <4>2. same \in SUBSET Nat /\ same # {}
        BY <1>0, <3>2
      <4>3. \E k \in same : \A l \in same : k <= l
        <5> HIDE DEF same
        <5> QED
          BY <4>2, Least
      <4>4. Min(same) \in same
        BY <4>3 DEF Min
      <4> QED
        BY <4>1, <4>4
    <3> QED
      BY <3>1, <3>2
  <2> HIDE DEF i
  <2>2. CASE i = 0
    BY <2>2, ToolAdds DEF GoogleCall, i
  <2>3. CASE i # 0 /\ Len(args) > Len(m.tools[i].args)
    <3> DEFINE emitted == NewText(m.tools[i].args, args)
    <3>1. i \in DOMAIN m.tools /\ m.tools[i].args \in Seq(Data)
      BY <1>0, <2>1, <2>3
    <3>2. GoogleCall(m, id, args) = MoreArgs(m, i, args, emitted)
      BY <2>3 DEF GoogleCall, i
    <3>3. emitted \in Seq(Data) /\ (IsPrefix(m.tools[i].args, args) => args = m.tools[i].args \o emitted)
      BY <3>1, PrefixRest, RestTyped
    <3> HIDE DEF emitted
    <3> QED
      BY <3>1, <3>2, <3>3, ArgsAdd
  <2>4. CASE i # 0 /\ ~(Len(args) > Len(m.tools[i].args))
    BY <2>4, ContentAdds DEF GoogleCall, i
  <2> QED
    BY <2>2, <2>3, <2>4
<1> QED
  BY <1>1, <1>2

\* A finish reason adds nothing.
LEMMA ReasonAdds ==
  ASSUME NEW m, NEW n, NEW events, Adds(m, Chunk(n, events)), NEW reason \in Data
  PROVE  Adds(m, FinishIs(reason, Chunk(n, events)))
<1> DEFINE c == Chunk(n, events)
           k == [n EXCEPT !.finish = reason]
           d == FinishIs(reason, c)
<1>1. c.message = n /\ c.events = events
  BY ChunkIs
<1>2. TypedMessage(n)
  BY <1>1 DEF Adds
<1>3. DOMAIN n = {"text", "tools", "finish", "usage"}
  BY <1>2, MessageIs
<1>4. d.message = k /\ d.events = events
  BY DEF FinishIs, Chunk
<1>5. DOMAIN k = DOMAIN n /\ k.text = n.text /\ k.tools = n.tools /\ k.finish = reason
  BY <1>3
<1> HIDE DEF c, d, k
<1>6. TypedMessage(k)
  BY <1>2, <1>5 DEF TypedMessage
<1>7. Continues(m, k) <=> Continues(m, n)
  BY <1>5 DEF Continues
<1>8. \A i : ArgsOf(k, i) = ArgsOf(n, i)
  BY <1>5 DEF ArgsOf
<1>9. Adds(m, c)
  BY DEF c
<1>10. Adds(m, d)
  BY <1>1, <1>4, <1>5, <1>6, <1>7, <1>8, <1>9 DEF Adds
<1> QED
  BY <1>10 DEF c, d

\* The chunks of any provider add what their events say.
LEMMA ChunksAdd ==
  ASSUME NEW m, TypedMessage(m), NEW service \in ServiceProviders, NEW c \in ChunksOf(service, m)
  PROVE  Adds(m, c)
<1>1. CASE service = "openai"
  <2>1. \/ c \in TextPieces(m)
        \/ c \in ToolStarts(m)
        \/ \E i \in DOMAIN m.tools : c \in ArgsPieces(m, i)
        \/ c = Finish(m, AllCompleted(m))
        \/ \E u : c = WithUsage(m, u)
    BY <1>1 DEF ChunksOf, OpenAIChunks, OpenAIContent
  <2> QED
    BY <2>1, ContentAdds
<1>2. CASE service = "anthropic"
  <2>1. \/ c \in TextPieces(m)
        \/ c \in ToolStarts(m)
        \/ \E i \in DOMAIN m.tools : c \in ArgsPieces(m, i) \/ c = BlockStop(m, i)
        \/ c = Finish(m, <<>>)
        \/ \E u : c = WithUsage(m, u)
    BY <1>2 DEF ChunksOf, AnthropicChunks, AnthropicContent
  <2> QED
    BY <2>1, ContentAdds
<1>3. CASE service = "google"
  <2> DEFINE Is(k) == \E n, events : k = Chunk(n, events)
  <2>1. ASSUME NEW k, Is(k), Adds(m, k), NEW reason \in Data PROVE Adds(m, FinishIs(reason, k))
    BY <2>1, ReasonAdds
  <2>2. /\ \A text, emitted : Is(TextDelta(m, text, emitted))
        /\ \A id, args : Is(OpenTool(m, id, args))
        /\ \A i, args, emitted : Is(MoreArgs(m, i, args, emitted))
        /\ \A u : Is(WithUsage(m, u))
        /\ Is(Chunk(m, <<>>))
    BY DEF TextDelta, OpenTool, MoreArgs, WithUsage
  <2> HIDE DEF Is
  <2>3. \A t : Is(GoogleText(m, t))
    BY <2>2 DEF GoogleText
  <2>4. \A id, args : Is(GoogleCall(m, id, args))
    BY <2>2 DEF GoogleCall
  <2>5. "stop" \in Data /\ "tool_calls" \in Data
    BY DEF Data, Words
  <2>6. ASSUME c \in GoogleTexts(m) PROVE Adds(m, c)
    <3>1. PICK t \in Texts : c = FinishIs("stop", GoogleText(m, t))
      BY <2>6 DEF GoogleTexts
    <3> QED
      BY <2>1, <2>3, <2>5, <3>1, GoogleAdds
  <2>7. ASSUME c \in GoogleCalls(m) PROVE Adds(m, c)
    <3>1. PICK id \in GoogleIds(m), args \in Texts : c = FinishIs("tool_calls", GoogleCall(m, id, args))
      BY <2>7 DEF GoogleCalls
    <3>2. id \in Data /\ args \in Seq(Data)
      BY PiecesAreData DEF GoogleIds, NewIds, GoogleId
    <3> QED
      BY <2>1, <2>4, <2>5, <3>1, <3>2, GoogleAdds
  <2>8. ASSUME c \in GoogleRepeats(m) PROVE Adds(m, c)
    <3>1. PICK i \in DOMAIN m.tools, more \in Args :
            c = FinishIs("tool_calls", GoogleCall(m, m.tools[i].id, m.tools[i].args \o more))
      BY <2>8 DEF GoogleRepeats
    <3>2. m.tools[i].id \in Data /\ m.tools[i].args \in Seq(Data) /\ more \in Seq(Data)
      BY MessageIs, PiecesAreData
    <3>3. m.tools[i].args \o more \in Seq(Data)
      BY <3>2, ConcatProperties
    <3> QED
      BY <2>1, <2>4, <2>5, <3>1, <3>2, <3>3, GoogleAdds
  <2>9. ASSUME c \in GoogleCounts(m) PROVE Adds(m, c)
    <3>1. PICK u : c = FinishIs("stop", WithUsage(m, u))
      BY <2>9 DEF GoogleCounts
    <3> QED
      BY <2>1, <2>2, <2>5, <3>1, ContentAdds
  <2> QED
    BY <1>3, <2>6, <2>7, <2>8, <2>9 DEF ChunksOf, GoogleChunks
<1> QED
  BY <1>1, <1>2, <1>3 DEF ServiceProviders

-----------------------------------------------------------------------------
(* Calls have ids that differ, and with ids of their own they are only       *)
(* continued.                                                                *)

IdsDiffer(m) == \A i, j \in DOMAIN m.tools : m.tools[i].id = m.tools[j].id => i = j

\* What a chunk does to the calls of m: their ids differ still, and each goes on unless Google left its id out.
OwnIds == "" \notin CallIds
GoesOn(m, n) == IdsDiffer(n) /\ (OwnIds => Continues(m, n))

\* Nothing but a finish reason is set.
LEMMA ReasonIs ==
  ASSUME NEW n, TypedMessage(n), NEW events, NEW reason
  PROVE  FinishIs(reason, Chunk(n, events)).message.tools = n.tools
<1>1. DOMAIN n = {"text", "tools", "finish", "usage"}
  BY MessageIs
<1> DEFINE k == [n EXCEPT !.finish = reason]
<1>2. FinishIs(reason, Chunk(n, events)).message = k
  BY DEF FinishIs, Chunk
<1>3. k.tools = n.tools
  BY <1>1
<1> QED
  BY <1>2, <1>3

\* A text is a prefix of itself, and of what is appended to it.
LEMMA PrefixIs ==
  ASSUME NEW S, NEW s \in Seq(S)
  PROVE  /\ IsPrefix(s, s)
         /\ \A x \in S : IsPrefix(s, Append(s, x))
         /\ \A t \in Seq(S) : IsPrefix(s, s \o t)
<1>1. IsPrefix(s, s)
  BY LenProperties DEF IsPrefix
<1>2. ASSUME NEW x \in S PROVE IsPrefix(s, Append(s, x))
  <2> DEFINE t == Append(s, x)
             n == Len(s)
  <2>1. n \in Nat /\ t \in Seq(S) /\ Len(t) = n + 1 /\ \A i \in 1..n : t[i] = s[i]
    BY AppendProperties, LenProperties
  <2> HIDE DEF t
  <2>2. SubSeq(s, 1, n) = [i \in 1..n |-> s[i]] /\ SubSeq(t, 1, n) = [i \in 1..n |-> t[i]]
    BY <2>1
  <2>3. IsPrefix(s, t)
    BY <2>1, <2>2 DEF IsPrefix
  <2> QED
    BY <2>3 DEF t
<1>3. ASSUME NEW more \in Seq(S) PROVE IsPrefix(s, s \o more)
  <2> DEFINE t == s \o more
             n == Len(s)
  <2>1. n \in Nat /\ Len(more) \in Nat /\ t \in Seq(S) /\ Len(t) = n + Len(more) /\ \A i \in 1..n : t[i] = s[i]
    BY ConcatProperties, LenProperties
  <2> HIDE DEF t
  <2>2. SubSeq(s, 1, n) = [i \in 1..n |-> s[i]] /\ SubSeq(t, 1, n) = [i \in 1..n |-> t[i]]
    BY <2>1
  <2>3. IsPrefix(s, t)
    BY <2>1, <2>2 DEF IsPrefix
  <2> QED
    BY <2>3 DEF t
<1> QED
  BY <1>1, <1>2, <1>3

\* A chunk leaves the calls alone, opens one with an id that is new, or alters one without its id.
LEMMA SameCallsGoOn ==
  ASSUME NEW m, TypedMessage(m), IdsDiffer(m), NEW n, n.tools = m.tools
  PROVE  GoesOn(m, n)
<1>1. \A i \in DOMAIN m.tools : IsPrefix(m.tools[i].args, m.tools[i].args)
  BY MessageIs, PrefixIs
<1> QED
  BY <1>1 DEF GoesOn, IdsDiffer, Continues

LEMMA NewCallGoesOn ==
  ASSUME NEW m, TypedMessage(m), IdsDiffer(m), NEW n, NEW tool \in ToolCalls, n.tools = Append(m.tools, tool),
         \A i \in DOMAIN m.tools : m.tools[i].id # tool.id
  PROVE  GoesOn(m, n)
<1> DEFINE s == m.tools
           t == Append(s, tool)
<1>1. s \in Seq(ToolCalls) /\ Len(s) \in Nat /\ DOMAIN s = 1..Len(s)
  BY MessageIs DEF TypedMessage
<1>2. DOMAIN t = 1..(Len(s) + 1) /\ (\A i \in DOMAIN s : t[i] = s[i]) /\ t[Len(s) + 1] = tool
  BY <1>1, AppendProperties
<1>3. \A i \in DOMAIN s : IsPrefix(s[i].args, t[i].args)
  BY <1>2, MessageIs, PrefixIs
<1>4. \A i \in DOMAIN t : i \in DOMAIN s \/ i = Len(s) + 1
  BY <1>1, <1>2
<1> HIDE DEF t
<1>5. \A i, j \in DOMAIN t : t[i].id = t[j].id => i = j
  BY <1>2, <1>4 DEF IdsDiffer
<1> QED
  BY <1>3, <1>5 DEF GoesOn, IdsDiffer, Continues, t

LEMMA OldCallGoesOn ==
  ASSUME NEW m, TypedMessage(m), IdsDiffer(m), NEW n, NEW i \in DOMAIN m.tools, NEW tool,
         DOMAIN n.tools = DOMAIN m.tools, n.tools[i] = tool, \A j \in DOMAIN m.tools : j # i => n.tools[j] = m.tools[j],
         tool.id = m.tools[i].id, OwnIds => IsPrefix(m.tools[i].args, tool.args)
  PROVE  GoesOn(m, n)
<1> DEFINE s == m.tools
           t == n.tools
<1>1. DOMAIN t = DOMAIN s /\ t[i] = tool /\ \A j \in DOMAIN s : j # i => t[j] = s[j]
  OBVIOUS
<1>2. \A j \in DOMAIN s : t[j].id = s[j].id
  BY <1>1
<1>3. \A j \in DOMAIN s : IsPrefix(s[j].args, s[j].args)
  BY MessageIs, PrefixIs
<1>0. n.tools = t
  OBVIOUS
<1> HIDE DEF t
<1>4. \A j, k \in DOMAIN t : t[j].id = t[k].id => j = k
  BY <1>1, <1>2 DEF IdsDiffer
<1>5. ASSUME OwnIds PROVE \A j \in DOMAIN s : IsPrefix(s[j].args, t[j].args)
  <2>1. IsPrefix(s[i].args, t[i].args)
    BY <1>1, <1>5
  <2> QED
    BY <1>1, <1>3, <2>1
<1>6. IdsDiffer(n)
  BY <1>0, <1>4 DEF IdsDiffer
<1>7. OwnIds => Continues(m, n)
  BY <1>0, <1>5 DEF Continues
<1> QED
  BY <1>6, <1>7 DEF GoesOn

\* The chunks of which every provider's are made.
LEMMA PiecesGoOn ==
  ASSUME NEW m, TypedMessage(m), IdsDiffer(m)
  PROVE  /\ \A text, emitted : GoesOn(m, TextDelta(m, text, emitted).message)
         /\ \A id \in Data : \A args \in Seq(Data) :
              (\A i \in DOMAIN m.tools : m.tools[i].id # id) => GoesOn(m, OpenTool(m, id, args).message)
         /\ \A i \in DOMAIN m.tools : \A args, emitted :
              (OwnIds => IsPrefix(m.tools[i].args, args)) => GoesOn(m, MoreArgs(m, i, args, emitted).message)
         /\ \A i \in DOMAIN m.tools : GoesOn(m, BlockStop(m, i).message)
         /\ \A events : GoesOn(m, Finish(m, events).message)
         /\ \A u : GoesOn(m, WithUsage(m, u).message)
         /\ GoesOn(m, m)
<1>1. /\ DOMAIN m = {"text", "tools", "finish", "usage"}
      /\ \A i \in DOMAIN m.tools : m.tools[i].args \in Seq(Data) /\ DOMAIN m.tools[i] = {"id", "args", "open"}
  BY MessageIs
<1>2. ASSUME NEW text, NEW emitted PROVE GoesOn(m, TextDelta(m, text, emitted).message)
  <2> DEFINE n == [m EXCEPT !.text = text]
  <2>1. TextDelta(m, text, emitted).message = n
    BY DEF TextDelta, Chunk
  <2>2. n.tools = m.tools
    BY <1>1
  <2> HIDE DEF n
  <2> QED
    BY <2>1, <2>2, SameCallsGoOn
<1>3. ASSUME NEW id \in Data, NEW args \in Seq(Data), \A i \in DOMAIN m.tools : m.tools[i].id # id
      PROVE  GoesOn(m, OpenTool(m, id, args).message)
  <2> DEFINE tool == [id |-> id, args |-> args, open |-> TRUE]
             tools == Append(m.tools, tool)
             n == [m EXCEPT !.tools = tools]
  <2>1. OpenTool(m, id, args).message = n
    BY DEF OpenTool, Chunk
  <2>2. tool \in ToolCalls /\ tool.id = id
    BY DEF ToolCalls
  <2>3. n.tools = tools
    BY <1>1
  <2> HIDE DEF n, tool
  <2> QED
    BY <1>3, <2>1, <2>2, <2>3, NewCallGoesOn
<1>4. ASSUME NEW i \in DOMAIN m.tools, NEW args, NEW emitted, OwnIds => IsPrefix(m.tools[i].args, args)
      PROVE  GoesOn(m, MoreArgs(m, i, args, emitted).message)
  <2> DEFINE tool == [m.tools[i] EXCEPT !.args = args]
             tools == [m.tools EXCEPT ![i] = tool]
             n == [m EXCEPT !.tools = tools]
  <2>1. MoreArgs(m, i, args, emitted).message = n
    BY DEF MoreArgs, Chunk
  <2>2. tool.id = m.tools[i].id /\ tool.args = args
    BY <1>1
  <2>3. DOMAIN n.tools = DOMAIN m.tools /\ n.tools[i] = tool /\ \A j \in DOMAIN m.tools : j # i => n.tools[j] = m.tools[j]
    <3>1. n.tools = tools
      BY <1>1
    <3> QED
      BY <3>1
  <2>4. OwnIds => IsPrefix(m.tools[i].args, tool.args)
    BY <1>4, <2>2
  <2> HIDE DEF n, tool
  <2>5. GoesOn(m, n)
    BY <2>2, <2>3, <2>4, OldCallGoesOn
  <2> QED
    BY <2>1, <2>5
<1>5. ASSUME NEW i \in DOMAIN m.tools PROVE GoesOn(m, BlockStop(m, i).message)
  <2> DEFINE tool == [m.tools[i] EXCEPT !.open = FALSE]
             tools == [m.tools EXCEPT ![i] = tool]
             n == [m EXCEPT !.tools = tools]
  <2>1. BlockStop(m, i).message = n
    BY DEF BlockStop, Chunk
  <2>2. tool.id = m.tools[i].id /\ tool.args = m.tools[i].args
    BY <1>1
  <2>3. DOMAIN n.tools = DOMAIN m.tools /\ n.tools[i] = tool /\ \A j \in DOMAIN m.tools : j # i => n.tools[j] = m.tools[j]
    <3>1. n.tools = tools
      BY <1>1
    <3> QED
      BY <3>1
  <2>4. OwnIds => IsPrefix(m.tools[i].args, tool.args)
    BY <1>1, <2>2, PrefixIs
  <2> HIDE DEF n, tool
  <2>5. GoesOn(m, n)
    BY <2>2, <2>3, <2>4, OldCallGoesOn
  <2> QED
    BY <2>1, <2>5
<1>6. ASSUME NEW events PROVE GoesOn(m, Finish(m, events).message)
  <2> DEFINE n == [m EXCEPT !.finish = "stop"]
  <2>1. Finish(m, events).message = n
    BY DEF Finish, Chunk
  <2>2. n.tools = m.tools
    BY <1>1
  <2> HIDE DEF n
  <2> QED
    BY <2>1, <2>2, SameCallsGoOn
<1>7. ASSUME NEW u PROVE GoesOn(m, WithUsage(m, u).message)
  <2> DEFINE n == [m EXCEPT !.usage = [known |-> TRUE, report |-> u]]
  <2>1. WithUsage(m, u).message = n
    BY DEF WithUsage, Chunk
  <2>2. n.tools = m.tools
    BY <1>1
  <2> HIDE DEF n
  <2> QED
    BY <2>1, <2>2, SameCallsGoOn
<1>8. GoesOn(m, m)
  BY SameCallsGoOn
<1> QED
  BY <1>2, <1>3, <1>4, <1>5, <1>6, <1>7, <1>8

\* The call a chunk of Google is matched with has its id.
LEMMA MatchIs ==
  ASSUME NEW m, TypedMessage(m), IdsDiffer(m), NEW id
  PROVE  LET i == MatchedCall(m, id)
         IN /\ i # 0 => i \in DOMAIN m.tools /\ m.tools[i].id = id
            /\ i = 0 => \A j \in DOMAIN m.tools : m.tools[j].id # id
<1> DEFINE same == {i \in DOMAIN m.tools : m.tools[i].id = id}
           i == MatchedCall(m, id)
<1>1. same \in SUBSET Nat /\ 0 \notin same
  BY MessageIs
<1>2. i = IF same = {} THEN 0 ELSE Min(same)
  BY DEF MatchedCall
<1>3. CASE same = {}
  BY <1>2, <1>3
<1>4. CASE same # {}
  <2>1. Min(same) \in same
    <3> HIDE DEF same
    <3> QED
      BY <1>1, <1>4, LeastIsMin
  <2> QED
    BY <1>1, <1>2, <1>4, <2>1
<1> QED
  BY <1>3, <1>4

\* A call of Google that is new, one repeated with more of its arguments, or one without an id.
LEMMA GoogleGoesOn ==
  ASSUME NEW m, TypedMessage(m), IdsDiffer(m), NEW id \in Data, NEW args \in Seq(Data),
         OwnIds => \A i \in DOMAIN m.tools : m.tools[i].id = id => IsPrefix(m.tools[i].args, args)
  PROVE  GoesOn(m, GoogleCall(m, id, args).message)
<1> DEFINE i == MatchedCall(m, id)
<1>1. /\ i # 0 => i \in DOMAIN m.tools /\ m.tools[i].id = id
      /\ i = 0 => \A j \in DOMAIN m.tools : m.tools[j].id # id
  BY MatchIs
<1>2. GoogleCall(m, id, args) =
        IF i = 0 THEN OpenTool(m, id, args)
        ELSE IF Len(args) > Len(m.tools[i].args) THEN MoreArgs(m, i, args, NewText(m.tools[i].args, args))
        ELSE Chunk(m, <<>>)
  BY DEF GoogleCall
<1> HIDE DEF i
<1>3. CASE i = 0
  BY <1>1, <1>2, <1>3, PiecesGoOn
<1>4. CASE i # 0 /\ Len(args) > Len(m.tools[i].args)
  <2>1. OwnIds => IsPrefix(m.tools[i].args, args)
    BY <1>1, <1>4
  <2>2. GoogleCall(m, id, args) = MoreArgs(m, i, args, NewText(m.tools[i].args, args)) /\ i \in DOMAIN m.tools
    BY <1>1, <1>2, <1>4
  <2> DEFINE emitted == NewText(m.tools[i].args, args)
  <2>3. GoogleCall(m, id, args) = MoreArgs(m, i, args, emitted)
    BY <2>2
  <2> HIDE DEF emitted
  <2>4. GoesOn(m, MoreArgs(m, i, args, emitted).message)
    BY <2>1, <2>2, PiecesGoOn
  <2> QED
    BY <2>3, <2>4
<1>5. CASE i # 0 /\ ~(Len(args) > Len(m.tools[i].args))
  BY <1>2, <1>5, ChunkIs, PiecesGoOn
<1> QED
  BY <1>3, <1>4, <1>5

\* The chunks of any provider.
LEMMA ChunksGoOn ==
  ASSUME NEW m, TypedMessage(m), IdsDiffer(m), NEW service \in ServiceProviders, NEW c \in ChunksOf(service, m)
  PROVE  GoesOn(m, c.message)
<1>1. ASSUME c \in TextPieces(m) PROVE GoesOn(m, c.message)
  BY <1>1, PiecesGoOn DEF TextPieces
<1>2. ASSUME c \in ToolStarts(m) PROVE GoesOn(m, c.message)
  <2>1. PICK id \in NewIds(m), args \in Args : c = OpenTool(m, id, args)
    BY <1>2 DEF ToolStarts
  <2>2. id \in Data /\ args \in Seq(Data) /\ \A i \in DOMAIN m.tools : m.tools[i].id # id
    BY PiecesAreData DEF NewIds
  <2> QED
    BY <2>1, <2>2, PiecesGoOn
<1>3. ASSUME NEW i \in DOMAIN m.tools, c \in ArgsPieces(m, i) PROVE GoesOn(m, c.message)
  <2> DEFINE s == m.tools[i].args
  <2>1. PICK p \in Pieces : c = MoreArgs(m, i, Append(s, p), <<p>>)
    BY <1>3 DEF ArgsPieces
  <2>2. s \in Seq(Data) /\ p \in Data
    BY MessageIs, PiecesAreData
  <2>3. IsPrefix(s, Append(s, p))
    <3> HIDE DEF s
    <3> QED
      BY <2>2, PrefixIs
  <2> DEFINE args == Append(s, p)
             emitted == <<p>>
  <2>4. c = MoreArgs(m, i, args, emitted) /\ IsPrefix(m.tools[i].args, args)
    BY <2>1, <2>3
  <2> HIDE DEF args, emitted, s
  <2> QED
    BY <2>4, PiecesGoOn
<1>4. CASE service = "openai"
  <2>1. \/ c \in TextPieces(m)
        \/ c \in ToolStarts(m)
        \/ \E i \in DOMAIN m.tools : c \in ArgsPieces(m, i)
        \/ \E events : c = Finish(m, events)
        \/ \E u : c = WithUsage(m, u)
    BY <1>4 DEF ChunksOf, OpenAIChunks, OpenAIContent
  <2> QED
    BY <1>1, <1>2, <1>3, <2>1, PiecesGoOn
<1>5. CASE service = "anthropic"
  <2>1. \/ c \in TextPieces(m)
        \/ c \in ToolStarts(m)
        \/ \E i \in DOMAIN m.tools : c \in ArgsPieces(m, i) \/ c = BlockStop(m, i)
        \/ \E events : c = Finish(m, events)
        \/ \E u : c = WithUsage(m, u)
    BY <1>5 DEF ChunksOf, AnthropicChunks, AnthropicContent
  <2> QED
    BY <1>1, <1>2, <1>3, <2>1, PiecesGoOn
<1>6. CASE service = "google"
  <2>1. ASSUME NEW k, GoesOn(m, k.message), \E n, events : TypedMessage(n) /\ k = Chunk(n, events), NEW reason
        PROVE  GoesOn(m, FinishIs(reason, k).message)
    <3>1. PICK n, events : TypedMessage(n) /\ k = Chunk(n, events)
      BY <2>1
    <3>2. FinishIs(reason, k).message.tools = n.tools /\ k.message = n
      BY <3>1, ReasonIs, ChunkIs
    <3>3. GoesOn(m, n)
      BY <2>1, <3>2
    <3> QED
      BY <3>2, <3>3 DEF GoesOn, IdsDiffer, Continues
  <2> DEFINE Is(k) == \E n, events : k = Chunk(n, events)
  <2>2. ASSUME NEW k, Is(k), Adds(m, k) PROVE \E n, events : TypedMessage(n) /\ k = Chunk(n, events)
    BY <2>2, ChunkIs DEF Adds
  <2>3. /\ \A text, emitted : Is(TextDelta(m, text, emitted))
        /\ \A id, args : Is(OpenTool(m, id, args))
        /\ \A i, args, emitted : Is(MoreArgs(m, i, args, emitted))
        /\ \A u : Is(WithUsage(m, u))
        /\ Is(Chunk(m, <<>>))
    BY DEF TextDelta, OpenTool, MoreArgs, WithUsage
  <2> HIDE DEF Is
  <2>4. \A t : Is(GoogleText(m, t))
    BY <2>3 DEF GoogleText
  <2>5. \A id, args : Is(GoogleCall(m, id, args))
    BY <2>3 DEF GoogleCall
  <2>6. ASSUME NEW k, Is(k), Adds(m, k), GoesOn(m, k.message), NEW reason PROVE GoesOn(m, FinishIs(reason, k).message)
    BY <2>1, <2>2, <2>6
  <2>7. ASSUME c \in GoogleTexts(m) PROVE GoesOn(m, c.message)
    <3>1. PICK t \in Texts : c = FinishIs("stop", GoogleText(m, t))
      BY <2>7 DEF GoogleTexts
    <3>2. GoesOn(m, GoogleText(m, t).message)
      BY PiecesGoOn, ChunkIs DEF GoogleText
    <3> QED
      BY <2>4, <2>6, <3>1, <3>2, GoogleAdds
  <2>8. ASSUME c \in GoogleCalls(m) PROVE GoesOn(m, c.message)
    <3>1. PICK id \in GoogleIds(m), args \in Texts : c = FinishIs("tool_calls", GoogleCall(m, id, args))
      BY <2>8 DEF GoogleCalls
    <3>2. id \in Data /\ args \in Seq(Data)
      BY PiecesAreData DEF GoogleIds, NewIds, GoogleId
    <3>3. OwnIds => \A i \in DOMAIN m.tools : m.tools[i].id # id
      BY DEF GoogleIds, NewIds, OwnIds
    <3>4. GoesOn(m, GoogleCall(m, id, args).message)
      BY <3>2, <3>3, GoogleGoesOn
    <3> QED
      BY <2>5, <2>6, <3>1, <3>2, <3>4, GoogleAdds
  <2>9. ASSUME c \in GoogleRepeats(m) PROVE GoesOn(m, c.message)
    <3>1. PICK i \in DOMAIN m.tools, more \in Args :
            c = FinishIs("tool_calls", GoogleCall(m, m.tools[i].id, m.tools[i].args \o more))
      BY <2>9 DEF GoogleRepeats
    <3> DEFINE id == m.tools[i].id
               old == m.tools[i].args
               args == old \o more
    <3>2. id \in Data /\ args \in Seq(Data) /\ IsPrefix(old, args)
      <4>1. id \in Data /\ old \in Seq(Data) /\ more \in Seq(Data)
        BY MessageIs, PiecesAreData
      <4> HIDE DEF id, old
      <4> QED
        BY <4>1, ConcatProperties, PrefixIs
    <3>3. \A j \in DOMAIN m.tools : m.tools[j].id = id => IsPrefix(m.tools[j].args, args)
      <4>1. \A j \in DOMAIN m.tools : m.tools[j].id = id => m.tools[j].args = old
        BY DEF IdsDiffer
      <4> HIDE DEF id, old, args
      <4> QED
        BY <3>2, <4>1
    <3>4. c = FinishIs("tool_calls", GoogleCall(m, id, args))
      BY <3>1
    <3> HIDE DEF id, args
    <3>5. GoesOn(m, GoogleCall(m, id, args).message)
      BY <3>2, <3>3, GoogleGoesOn
    <3> QED
      BY <2>5, <2>6, <3>2, <3>4, <3>5, GoogleAdds
  <2>10. ASSUME c \in GoogleCounts(m) PROVE GoesOn(m, c.message)
    <3>1. PICK u : c = FinishIs("stop", WithUsage(m, u))
      BY <2>10 DEF GoogleCounts
    <3> QED
      BY <2>3, <2>6, <3>1, PiecesGoOn, ContentAdds
  <2> QED
    BY <1>6, <2>7, <2>8, <2>9, <2>10 DEF ChunksOf, GoogleChunks
<1> QED
  BY <1>4, <1>5, <1>6 DEF ServiceProviders

-----------------------------------------------------------------------------
(* Events that are put together, and taken from one place to the next. *)

\* The first event, and the rest.
LEMMA FirstEvent ==
  ASSUME NEW s \in Seq(Events), s # <<>>
  PROVE  /\ Head(s) \in Events /\ Tail(s) \in Seq(Events) /\ <<Head(s)>> \in Seq(Events)
         /\ s = <<Head(s)>> \o Tail(s) /\ 1 \in DOMAIN s /\ s[1] = Head(s)
         /\ \A i \in DOMAIN Tail(s) : i + 1 \in DOMAIN s /\ Tail(s)[i] = s[i + 1]
<1>1. /\ Head(s) \in Events /\ Tail(s) \in Seq(Events) /\ Len(Tail(s)) = Len(s) - 1
      /\ \A i \in 1..Len(Tail(s)) : Tail(s)[i] = s[i + 1]
  BY HeadTailProperties
<1>2. Len(s) \in Nat /\ Len(Tail(s)) \in Nat /\ DOMAIN s = 1..Len(s) /\ DOMAIN Tail(s) = 1..Len(Tail(s))
  BY <1>1, LenProperties
<1>3. Len(s) # 0 /\ 1 \in DOMAIN s /\ s[1] = Head(s)
  BY <1>2, EmptySeq
<1>4. \A i \in DOMAIN Tail(s) : i + 1 \in DOMAIN s
  BY <1>1, <1>2
<1>5. <<Head(s)>> \in Seq(Events)
  BY <1>1
<1>6. s = <<Head(s)>> \o Tail(s)
  <2> DEFINE a == <<Head(s)>>
             b == Tail(s)
             t == a \o b
  <2>1. Len(a) = 1 /\ a[1] = Head(s) /\ DOMAIN a = {1}
    OBVIOUS
  <2>2. a \in Seq(Events) /\ b \in Seq(Events) /\ Len(b) = Len(s) - 1 /\ \A i \in 1..Len(b) : b[i] = s[i + 1]
    BY <1>1, <1>5
  <2> HIDE DEF a, b
  <2>3. /\ t \in Seq(Events) /\ Len(t) = Len(a) + Len(b)
        /\ \A i \in 1..Len(t) : t[i] = IF i <= Len(a) THEN a[i] ELSE b[i - Len(a)]
    <3>0. \A x, y \in Seq(Events) :
            /\ x \o y \in Seq(Events) /\ Len(x \o y) = Len(x) + Len(y) /\ Len(x) \in Nat /\ Len(y) \in Nat
            /\ DOMAIN x = 1..Len(x) /\ DOMAIN y = 1..Len(y)
            /\ \A i \in DOMAIN x : (x \o y)[i] = x[i]
            /\ \A j \in DOMAIN y : (x \o y)[Len(x) + j] = y[j]
      BY ConcatPlaces
    <3>1. /\ t \in Seq(Events) /\ Len(t) = Len(a) + Len(b) /\ Len(a) \in Nat /\ Len(b) \in Nat
          /\ DOMAIN a = 1..Len(a) /\ DOMAIN b = 1..Len(b)
          /\ \A i \in DOMAIN a : t[i] = a[i]
          /\ \A j \in DOMAIN b : t[Len(a) + j] = b[j]
      BY <2>2, <3>0
    <3> HIDE DEF t
    <3>2. ASSUME NEW i \in 1..Len(t) PROVE t[i] = IF i <= Len(a) THEN a[i] ELSE b[i - Len(a)]
      <4>1. CASE i <= Len(a)
        BY <3>1, <4>1
      <4>2. CASE i > Len(a)
        <5>1. i - Len(a) \in DOMAIN b /\ Len(a) + (i - Len(a)) = i
          BY <3>1, <4>2
        <5> QED
          BY <3>1, <4>2, <5>1
      <4> QED
        BY <3>1, <4>1, <4>2
    <3> QED
      BY <3>1, <3>2
  <2> HIDE DEF t
  <2>4. Len(t) = Len(s)
    BY <1>2, <2>1, <2>2, <2>3
  <2>5. ASSUME NEW i \in 1..Len(s) PROVE t[i] = s[i]
    <3>1. CASE i = 1
      BY <1>2, <1>3, <2>1, <2>3, <2>4, <3>1
    <3>2. CASE i # 1
      <4>1. i \in Nat /\ i > 1 /\ i - 1 \in 1..Len(b) /\ (i - 1) + 1 = i
        BY <1>2, <2>2, <3>2
      <4>2. t[i] = b[i - 1]
        BY <2>1, <2>3, <2>4, <4>1
      <4> QED
        BY <2>2, <4>1, <4>2
    <3> QED
      BY <3>1, <3>2
  <2>6. t = s
    BY <2>3, <2>4, <2>5, SeqEqual
  <2> QED
    BY <2>6 DEF t, a, b
<1> QED
  BY <1>1, <1>2, <1>3, <1>4, <1>5, <1>6

\* The concatenations, for every two sequences.
LEMMA EventConcats ==
  \A s, t \in Seq(Events) :
    /\ s \o t \in Seq(Events)
    /\ \A kind : Named(s \o t, kind) = Named(s, kind) \cup Named(t, kind)
    /\ \A known : InOrder(s \o t, known) <=> InOrder(s, known) /\ InOrder(t, known \cup Named(s, "tool_start"))
    /\ EndsLast(s \o t) => EndsLast(s) /\ EndsLast(t) /\ (NoEnd(s) \/ OnlyDone(t))
    /\ EndsLast(s) /\ EndsLast(t) /\ (NoEnd(s) \/ OnlyDone(t)) => EndsLast(s \o t)
    /\ OnlyDone(s \o t) <=> OnlyDone(s) /\ OnlyDone(t)
    /\ NoEnd(s \o t) <=> NoEnd(s) /\ NoEnd(t)
<1> SUFFICES ASSUME NEW s \in Seq(Events), NEW t \in Seq(Events)
             PROVE  /\ s \o t \in Seq(Events)
                    /\ \A kind : Named(s \o t, kind) = Named(s, kind) \cup Named(t, kind)
                    /\ \A known : InOrder(s \o t, known) <=>
                                    InOrder(s, known) /\ InOrder(t, known \cup Named(s, "tool_start"))
                    /\ EndsLast(s \o t) => EndsLast(s) /\ EndsLast(t) /\ (NoEnd(s) \/ OnlyDone(t))
                    /\ EndsLast(s) /\ EndsLast(t) /\ (NoEnd(s) \/ OnlyDone(t)) => EndsLast(s \o t)
                    /\ OnlyDone(s \o t) <=> OnlyDone(s) /\ OnlyDone(t)
                    /\ NoEnd(s \o t) <=> NoEnd(s) /\ NoEnd(t)
  OBVIOUS
<1>1. s \o t \in Seq(Events)
  BY ConcatProperties
<1>2. \A kind : Named(s \o t, kind) = Named(s, kind) \cup Named(t, kind)
  BY PlacesConcat
<1>3. \A known : InOrder(s \o t, known) <=> InOrder(s, known) /\ InOrder(t, known \cup Named(s, "tool_start"))
  BY OrderConcat
<1> QED
  BY <1>1, <1>2, <1>3, EndsConcat

\* What was known may grow.
LEMMA OrderGrows ==
  ASSUME NEW s, NEW known, NEW more, known \subseteq more, InOrder(s, known)
  PROVE  InOrder(s, more)
BY DEF InOrder

\* What one event says, and none.
LEMMA EventAlone ==
  ASSUME NEW e \in Events
  PROVE  /\ <<e>> \in Seq(Events) /\ <<>> \in Seq(Events) /\ DOMAIN <<e>> = {1} /\ <<e>>[1] = e
         /\ \A kind : Named(<<e>>, kind) = (IF e.kind = kind THEN {e.index} ELSE {}) /\ Named(<<>>, kind) = {}
         /\ \A known : InOrder(<<e>>, known) <=> (e.kind \in {"tool_args", "tool_done"} => e.index \in known)
         /\ \A known : InOrder(<<>>, known)
         /\ (OnlyDone(<<e>>) <=> e.kind = "done") /\ (NoEnd(<<e>>) <=> e.kind \notin EndKinds)
         /\ EndsLast(<<e>>) /\ EndsLast(<<>>) /\ OnlyDone(<<>>) /\ NoEnd(<<>>)
<1>1. <<e>> \in Seq(Events) /\ <<>> \in Seq(Events) /\ DOMAIN <<e>> = {1} /\ <<e>>[1] = e /\ DOMAIN <<>> = {}
  BY EmptySeq
<1>2. \A kind : Named(<<e>>, kind) = (IF e.kind = kind THEN {e.index} ELSE {}) /\ Named(<<>>, kind) = {}
  BY PlacesOne
<1>3. /\ \A known : InOrder(<<e>>, known) <=> (e.kind \in {"tool_args", "tool_done"} => e.index \in known)
      /\ \A known : InOrder(<<>>, known)
  BY OneInOrder
<1>4. (OnlyDone(<<e>>) <=> e.kind = "done") /\ (NoEnd(<<e>>) <=> e.kind \notin EndKinds) /\ EndsLast(<<e>>)
  <2> DEFINE s == <<e>>
  <2>1. DOMAIN s = {1} /\ s[1] = e
    BY <1>1
  <2> HIDE DEF s
  <2>2. (OnlyDone(s) <=> e.kind = "done") /\ (NoEnd(s) <=> e.kind \notin EndKinds) /\ EndsLast(s)
    BY <2>1 DEF OnlyDone, NoEnd, EndsLast
  <2> QED
    BY <2>2 DEF s
<1>5. EndsLast(<<>>) /\ OnlyDone(<<>>) /\ NoEnd(<<>>)
  BY <1>1 DEF OnlyDone, NoEnd, EndsLast
<1> QED
  BY <1>1, <1>2, <1>3, <1>4, <1>5

\* With an empty outbox what comes is in the channel.
LEMMA ComingIs ==
  ASSUME NEW ch, TypedChannel(ch)
  PROVE  Coming(<<>>, ch) = ch.events
BY ConcatEmptySeq DEF Coming, TypedChannel

\* The outbox is filled with what is said of a message that grows.
LEMMA OutboxGrows ==
  ASSUME NEW u, NEW ch, NEW cl, StreamKeeps(u, <<>>, ch, cl), u.service # "crynux", u.at # "settled",
         NEW n \in Seq(Events), NEW v, TypedCall(v), v.service = u.service,
         v.at \in {"none", "queued"} => n = <<>>,
         \A i \in DOMAIN n : /\ n[i].kind = "done" => v.at = "settled"
                             /\ n[i].kind = "final_usage" => v.at \in {"confirmed", "settled"},
         EndsLast(n), InOrder(n, DOMAIN u.message.tools),
         DOMAIN v.message.tools \subseteq DOMAIN u.message.tools \cup Named(n, "tool_start")
  PROVE  StreamKeeps(v, n, ch, cl)
<1> DEFINE s == ch.events
           known == Named(cl.frames, "tool")
<1>1. /\ TypedChannel(ch) /\ TypedClient(cl) /\ s \in Seq(Events) /\ FramesKept(u, cl) /\ EndKept(u, <<>>, ch)
      /\ Coming(<<>>, ch) = s
  BY ComingIs DEF StreamKeeps, StreamTyped, TypedChannel
<1>2. NoEnd(s)
  BY <1>1 DEF EndKept, NoEnd
<1>3. StreamTyped(v, n, ch, cl)
  BY <1>1 DEF StreamTyped
<1>4. ~TellsEnd(cl.frames)
  BY <1>1 DEF FramesKept
<1>5. FramesKept(v, cl)
  BY <1>1, <1>4 DEF FramesKept
<1>6. Places(cl.frames, "completed") = {}
  BY <1>4 DEF TellsEnd, Places
<1>7. EndKept(v, n, ch)
  BY <1>2 DEF EndKept, NoEnd
<1>8. ASSUME ch.registered PROVE cl.at = "reading" /\ ToolsTold(v, cl, Coming(n, ch)) /\ ReadingKept(cl, Coming(n, ch))
  <2>1. cl.at = "reading" /\ ToolsTold(u, cl, s) /\ ReadingKept(cl, s) /\ Coming(n, ch) = s \o n
    BY <1>1, <1>8 DEF StreamKeeps, Coming
  <2>2. DOMAIN u.message.tools \subseteq known \cup Named(s, "tool_start")
    BY <2>1 DEF ToolsTold
  <2> HIDE DEF s, known
  <2>3. /\ \A kind : Named(s \o n, kind) = Named(s, kind) \cup Named(n, kind)
        /\ InOrder(s, known) /\ InOrder(n, known \cup Named(s, "tool_start")) => InOrder(s \o n, known)
        /\ EndsLast(s) => EndsLast(s \o n)
    BY <1>1, <1>2, EventConcats
  <2>4. InOrder(n, known \cup Named(s, "tool_start"))
    BY <2>2, OrderGrows
  <2>5. ToolsTold(v, cl, s \o n)
    BY <2>2, <2>3 DEF ToolsTold, known
  <2>6. ReadingKept(cl, s \o n)
    BY <1>6, <2>1, <2>3, <2>4 DEF ReadingKept, known
  <2> QED
    BY <2>1, <2>5, <2>6
<1>9. ASSUME ~ch.registered, cl.at = "reading" PROVE ReadingKept(cl, Coming(n, ch))
  BY <1>1, <1>9 DEF StreamKeeps, Coming
<1> QED
  BY <1>3, <1>5, <1>7, <1>8, <1>9 DEF StreamKeeps

\* The end of what comes is cut off.
LEMMA ReadingCut ==
  ASSUME NEW cl, NEW s \in Seq(Events), NEW t \in Seq(Events), ReadingKept(cl, s \o t)
  PROVE  ReadingKept(cl, s)
BY EventConcats DEF ReadingKept

\* The fields of a channel that is unregistered.
LEMMA UnregisteredIs ==
  ASSUME NEW ch, TypedChannel(ch)
  PROVE  /\ TypedChannel(Unregistered(ch)) /\ Unregistered(ch).events = ch.events /\ ~Unregistered(ch).registered
         /\ TypedChannel([Unregistered(ch) EXCEPT !.events = <<>>])
         /\ [Unregistered(ch) EXCEPT !.events = <<>>].events = <<>>
         /\ ~[Unregistered(ch) EXCEPT !.events = <<>>].registered
<1>1. DOMAIN ch = {"events", "registered", "open"} /\ DOMAIN NoChannel = {"events", "registered", "open"} /\ ch.events \in Seq(Events)
  BY DEF TypedChannel, NoChannel
<1> DEFINE a == Unregistered(ch)
           b == [a EXCEPT !.events = <<>>]
<1>2. DOMAIN a = DOMAIN ch /\ a.events = ch.events /\ a.registered = FALSE /\ a.open = FALSE
  BY <1>1 DEF Unregistered
<1> HIDE DEF a
<1>3. DOMAIN b = DOMAIN ch /\ b.events = <<>> /\ b.registered = FALSE /\ b.open = FALSE
  BY <1>1, <1>2
<1> HIDE DEF b
<1>4. <<>> \in Seq(Events)
  BY EmptySeq
<1>5. TypedChannel(a) /\ TypedChannel(b)
  BY <1>1, <1>2, <1>3, <1>4 DEF TypedChannel
<1> QED
  BY <1>2, <1>3, <1>5 DEF a, b

\* The channel is unregistered: what is in it can still be read.
LEMMA ChannelCloses ==
  ASSUME NEW u, NEW o, NEW ch, NEW cl, StreamKeeps(u, o, ch, cl)
  PROVE  StreamKeeps(u, o, Unregistered(ch), cl)
<1> DEFINE k == Unregistered(ch)
<1>1. StreamTyped(u, o, ch, cl) /\ TypedChannel(ch) /\ o \in Seq(Events) /\ ch.events \in Seq(Events)
  BY DEF StreamKeeps, StreamTyped, TypedChannel
<1>2. TypedChannel(k) /\ k.events = ch.events /\ ~k.registered
  BY <1>1, UnregisteredIs
<1> HIDE DEF k
<1>3. StreamTyped(u, o, k, cl) /\ FramesKept(u, cl)
  BY <1>1, <1>2 DEF StreamKeeps, StreamTyped
<1>4. ASSUME u.service # "crynux" PROVE EndKept(u, o, k)
  BY <1>2, <1>4 DEF StreamKeeps, EndKept
<1>5. ASSUME u.service # "crynux", cl.at = "reading" PROVE ReadingKept(cl, Coming(o, k))
  <2>1. Coming(o, k) = ch.events /\ ReadingKept(cl, Coming(o, ch))
    BY <1>2, <1>5 DEF Coming, StreamKeeps
  <2>2. ReadingKept(cl, ch.events)
    BY <1>1, <2>1, ReadingCut DEF Coming
  <2> QED
    BY <2>1, <2>2
<1>6. StreamKeeps(u, o, k, cl)
  BY <1>2, <1>3, <1>4, <1>5 DEF StreamKeeps
<1> QED
  BY <1>6 DEF k

\* An event leaves the outbox: withheld, or behind a channel that is closed.
LEMMA EventIsDropped ==
  ASSUME NEW u, NEW o, NEW ch, NEW cl, StreamKeeps(u, o, ch, cl), o # <<>>,
         ~ch.registered \/ Head(o).kind = "final_usage"
  PROVE  StreamKeeps(u, Tail(o), ch, cl)
<1> DEFINE e == Head(o)
           t == Tail(o)
           s == ch.events
           a == <<e>>
<1>1. StreamTyped(u, o, ch, cl) /\ o \in Seq(Events) /\ s \in Seq(Events) /\ FramesKept(u, cl)
  BY DEF StreamKeeps, StreamTyped, TypedChannel
<1>2. /\ e \in Events /\ t \in Seq(Events) /\ a \in Seq(Events) /\ o = a \o t
      /\ \A i \in DOMAIN t : i + 1 \in DOMAIN o /\ t[i] = o[i + 1]
  BY <1>1, FirstEvent
<1>3. StreamTyped(u, t, ch, cl)
  BY <1>1, <1>2 DEF StreamTyped
<1>4. ASSUME u.service # "crynux" PROVE EndKept(u, t, ch)
  BY <1>2, <1>4 DEF StreamKeeps, EndKept
<1>5. ASSUME u.service # "crynux", ch.registered
      PROVE  cl.at = "reading" /\ ToolsTold(u, cl, Coming(t, ch)) /\ ReadingKept(cl, Coming(t, ch))
  <2>1. /\ cl.at = "reading" /\ ToolsTold(u, cl, s \o o) /\ ReadingKept(cl, s \o o)
        /\ Coming(t, ch) = s \o t /\ e.kind = "final_usage"
    BY <1>5 DEF StreamKeeps, Coming
  <2>2. \A kind : Named(a, kind) = (IF e.kind = kind THEN {e.index} ELSE {})
    BY <1>2, EventAlone
  <2> HIDE DEF e, t, s, a
  <2>3. Named(a, "tool_start") = {}
    BY <2>1, <2>2
  <2>4. \A kind : /\ Named(s \o o, kind) = Named(s, kind) \cup Named(o, kind)
                  /\ Named(o, kind) = Named(a, kind) \cup Named(t, kind)
                  /\ Named(s \o t, kind) = Named(s, kind) \cup Named(t, kind)
    <3>1. \A x, y \in Seq(Events) : \A kind : Named(x \o y, kind) = Named(x, kind) \cup Named(y, kind)
      BY EventConcats
    <3>2. s \in Seq(Events) /\ o \in Seq(Events) /\ a \in Seq(Events) /\ t \in Seq(Events) /\ o = a \o t
      BY <1>1, <1>2
    <3>3. \A kind : Named(a \o t, kind) = Named(a, kind) \cup Named(t, kind)
      BY <3>1, <3>2
    <3>4. \A kind : Named(o, kind) = Named(a, kind) \cup Named(t, kind)
      BY <3>2, <3>3
    <3>5. \A kind : Named(s \o o, kind) = Named(s, kind) \cup Named(o, kind)
      BY <3>1, <3>2
    <3>6. \A kind : Named(s \o t, kind) = Named(s, kind) \cup Named(t, kind)
      BY <3>1, <3>2
    <3> QED
      BY <3>4, <3>5, <3>6
  <2>5. ToolsTold(u, cl, s \o t)
    BY <2>1, <2>3, <2>4 DEF ToolsTold
  <2> DEFINE known == Named(cl.frames, "tool")
             more == known \cup Named(s, "tool_start")
  <2>6. InOrder(s \o t, known)
    <3>1. InOrder(s \o o, known)
      BY <2>1 DEF ReadingKept
    <3> HIDE DEF known
    <3>2. InOrder(s, known) /\ InOrder(o, more)
      BY <1>1, <3>1, EventConcats
    <3> HIDE DEF more
    <3>3. InOrder(t, more \cup Named(a, "tool_start"))
      BY <1>2, <3>2, EventConcats
    <3>4. more \cup Named(a, "tool_start") = more
      BY <2>3
    <3>5. InOrder(t, more)
      BY <3>3, <3>4
    <3> QED
      BY <1>1, <1>2, <3>2, <3>5, EventConcats DEF more
  <2>7. EndsLast(s \o t)
    <3>1. EndsLast(s) /\ EndsLast(o) /\ (NoEnd(s) \/ OnlyDone(o))
      BY <1>1, <2>1, EventConcats DEF ReadingKept
    <3>2. EndsLast(t) /\ (OnlyDone(o) => OnlyDone(t))
      BY <1>2, <3>1, EventConcats
    <3> QED
      BY <1>1, <1>2, <3>1, <3>2, EventConcats
  <2>8. OnlyDone(s \o o) => OnlyDone(s \o t)
    BY <1>1, <1>2, EventConcats
  <2>9. ReadingKept(cl, s \o t)
    BY <2>1, <2>6, <2>7, <2>8 DEF ReadingKept
  <2> QED
    BY <2>1, <2>5, <2>9
<1>6. ASSUME u.service # "crynux", ~ch.registered, cl.at = "reading" PROVE ReadingKept(cl, Coming(t, ch))
  BY <1>6 DEF StreamKeeps, Coming
<1>7. StreamKeeps(u, t, ch, cl)
  BY <1>1, <1>3, <1>4, <1>5, <1>6 DEF StreamKeeps
<1> QED
  BY <1>7

\* An event goes from the outbox to the channel.
LEMMA EventIsPublished ==
  ASSUME NEW u, NEW o, NEW ch, NEW cl, StreamKeeps(u, o, ch, cl), o # <<>>, ch.registered,
         Head(o).kind # "final_usage" \/ u.at = "settled"
  PROVE  StreamKeeps(u, Tail(o), [ch EXCEPT !.events = Append(ch.events, Head(o))], cl)
<1> DEFINE e == Head(o)
           t == Tail(o)
           s == ch.events
           k == [ch EXCEPT !.events = Append(s, e)]
<1>1. StreamTyped(u, o, ch, cl) /\ o \in Seq(Events) /\ s \in Seq(Events) /\ FramesKept(u, cl) /\ TypedChannel(ch)
  BY DEF StreamKeeps, StreamTyped, TypedChannel
<1>2. /\ e \in Events /\ t \in Seq(Events) /\ <<e>> \in Seq(Events) /\ o = <<e>> \o t /\ 1 \in DOMAIN o /\ o[1] = e
      /\ \A i \in DOMAIN t : i + 1 \in DOMAIN o /\ t[i] = o[i + 1]
  BY <1>1, FirstEvent
<1>3. DOMAIN ch = {"events", "registered", "open"}
  BY <1>1 DEF TypedChannel, NoChannel
<1>4. DOMAIN k = DOMAIN ch /\ k.events = Append(s, e) /\ k.registered = ch.registered /\ k.open = ch.open
  BY <1>3
<1> HIDE DEF e, t, k
<1>5. k.events = s \o <<e>> /\ k.events \in Seq(Events)
  BY <1>1, <1>2, <1>4, AppendIsConcat, AppendProperties
<1>6. StreamTyped(u, t, k, cl)
  BY <1>1, <1>2, <1>4, <1>5 DEF StreamTyped, TypedChannel
<1>7. ASSUME u.service # "crynux" PROVE EndKept(u, t, k)
  <2>1. EndKept(u, o, ch) /\ (e.kind \in EndKinds => u.at = "settled")
    BY <1>2, <1>7 DEF StreamKeeps, EndKept, EndKinds, e
  <2>2. /\ \A i \in DOMAIN k.events : i \in DOMAIN s \/ \E j \in DOMAIN <<e>> : i = Len(s) + j
        /\ \A i \in DOMAIN s : k.events[i] = s[i]
        /\ \A j \in DOMAIN <<e>> : k.events[Len(s) + j] = <<e>>[j]
    <3>1. \A x, y \in Seq(Events) :
            /\ \A i \in DOMAIN (x \o y) : i \in DOMAIN x \/ \E j \in DOMAIN y : i = Len(x) + j
            /\ \A i \in DOMAIN x : (x \o y)[i] = x[i]
            /\ \A j \in DOMAIN y : (x \o y)[Len(x) + j] = y[j]
      BY ConcatPlaces
    <3> HIDE DEF s
    <3> QED
      BY <1>1, <1>2, <1>5, <3>1
  <2>3. DOMAIN <<e>> = {1} /\ <<e>>[1] = e
    OBVIOUS
  <2>4. \A i \in DOMAIN k.events : k.events[i].kind \in EndKinds => u.at = "settled"
    BY <2>1, <2>2, <2>3 DEF EndKept
  <2> QED
    BY <1>2, <2>1, <2>4 DEF EndKept
<1>8. Coming(t, k) = Coming(o, ch)
  <2>1. Coming(t, k) = (s \o <<e>>) \o t /\ Coming(o, ch) = s \o (<<e>> \o t)
    BY <1>2, <1>4, <1>5 DEF Coming
  <2> HIDE DEF s
  <2> QED
    <3>1. \A x, y, z \in Seq(Events) : (x \o y) \o z = x \o (y \o z)
      BY ConcatAssociative
    <3>2. s \in Seq(Events) /\ <<e>> \in Seq(Events) /\ t \in Seq(Events)
      BY <1>1, <1>2 DEF s
    <3> QED
      BY <2>1, <3>1, <3>2
<1>9. StreamKeeps(u, t, k, cl)
  BY <1>1, <1>4, <1>6, <1>7, <1>8 DEF StreamKeeps
<1> QED
  BY <1>9 DEF e, t, k

\* The client stops reading.
LEMMA ClientStops ==
  ASSUME NEW u, NEW o, NEW ch, NEW cl, StreamKeeps(u, o, ch, cl),
         NEW k, TypedChannel(k), ~k.registered, k.events = ch.events \/ k.events = <<>>, NEW at, at # "reading"
  PROVE  StreamKeeps(u, o, k, [cl EXCEPT !.at = at])
<1> DEFINE d == [cl EXCEPT !.at = at]
<1>1. StreamTyped(u, o, ch, cl) /\ FramesKept(u, cl)
  BY DEF StreamKeeps
<1>2. DOMAIN cl = {"at", "api", "includeUsage", "roleSent", "frames"}
  BY <1>1 DEF StreamTyped, TypedClient, NoClient
<1>3. DOMAIN d = DOMAIN cl /\ d.at = at /\ d.api = cl.api /\ d.roleSent = cl.roleSent /\ d.frames = cl.frames
  BY <1>2
<1> HIDE DEF d
<1>4. StreamTyped(u, o, k, d) /\ FramesKept(u, d)
  BY <1>1, <1>3 DEF StreamTyped, TypedClient, FramesKept
<1>5. ASSUME u.service # "crynux" PROVE EndKept(u, o, k)
  <2>1. EndKept(u, o, ch) /\ DOMAIN <<>> = {}
    BY <1>5 DEF StreamKeeps
  <2> QED
    BY <2>1 DEF EndKept
<1>6. StreamKeeps(u, o, k, d)
  BY <1>3, <1>4, <1>5 DEF StreamKeeps
<1> QED
  BY <1>6 DEF d

-----------------------------------------------------------------------------
(* What an event is written as. *)

\* x is the frame of e, for the client's api.
Says(e, x, api) ==
  /\ x \in Events /\ x.kind # "role"
  /\ x.kind = "text" <=> e.kind = "content"
  /\ x.kind = "tool" <=> e.kind = "tool_start"
  /\ x.kind = "args" <=> e.kind = "tool_args"
  /\ x.kind \in {"tool", "args", "args_done"} => x.index = e.index
  /\ x.kind = "text" => x.index = 0
  /\ x.kind \in {"text", "args"} => x.data = e.data
  /\ x.kind = "args_done" => e.kind = "tool_done"
  /\ x.kind \in {"usage", "completed"} => e.kind = "final_usage"
  /\ x.kind = "completed" <=> e.kind = "final_usage" /\ api = "responses"
  /\ x.kind = "error" <=> e.kind = "error"
  /\ x.kind = "done" => e.kind = "done"
  /\ e.kind = "done" => api # "responses"

RoleFrame == Event("role", 0, <<>>)

\* g is what e is written as: nothing, a frame, or a frame behind the role.
WrittenAs(e, g, api, roleSent) ==
  \/ /\ g = <<>> /\ e.kind \notin {"content", "tool_start", "tool_args", "error"}
     /\ e.kind = "final_usage" => api # "responses"
     /\ e.kind = "done" => api = "responses"
  \/ \E x \in Events : /\ Says(e, x, api) /\ g = <<x>>
                       /\ e.kind \in {"content", "tool_start"} /\ api # "responses" => roleSent
  \/ \E x \in Events : /\ Says(e, x, api) /\ g = <<RoleFrame>> \o <<x>>
                       /\ ~roleSent /\ api # "responses" /\ e.kind \in {"content", "tool_start"}

\* The fields of every event.
LEMMA FieldsOf ==
  \A kind \in Kinds : \A index \in Nat : \A data \in Seq(Data) :
    /\ Event(kind, index, data) \in Events
    /\ Event(kind, index, data).kind = kind /\ Event(kind, index, data).index = index
    /\ Event(kind, index, data).data = data
BY EventIs

\* The fields of an event without data.
LEMMA BareFields ==
  \A kind \in Kinds : \A index \in Nat :
    /\ Event(kind, index, <<>>) \in Events
    /\ Event(kind, index, <<>>).kind = kind /\ Event(kind, index, <<>>).index = index
<1> DEFINE data == <<>>
<1>1. data \in Seq(Data)
  BY EmptySeq
<1> HIDE DEF data
<1>2. \A kind \in Kinds : \A index \in Nat :
        /\ Event(kind, index, data) \in Events
        /\ Event(kind, index, data).kind = kind /\ Event(kind, index, data).index = index
  BY <1>1, FieldsOf
<1> QED
  BY <1>2 DEF data

\* What a frame says of its event.
LEMMA SaysSo ==
  ASSUME NEW e \in Events, NEW x \in Events, NEW api
  PROVE
  /\ e.kind = "content" /\ x.kind = "text" /\ x.index = 0 /\ x.data = e.data => Says(e, x, api)
  /\ e.kind = "tool_start" /\ x.kind = "tool" /\ x.index = e.index => Says(e, x, api)
  /\ e.kind = "tool_args" /\ x.kind = "args" /\ x.index = e.index /\ x.data = e.data => Says(e, x, api)
  /\ e.kind = "tool_done" /\ x.kind = "args_done" /\ x.index = e.index => Says(e, x, api)
  /\ e.kind = x.kind /\ x.kind \in {"created", "finish", "error"} => Says(e, x, api)
  /\ e.kind = "done" /\ x.kind = "done" /\ api # "responses" => Says(e, x, api)
  /\ e.kind = "final_usage" /\ x.kind = "usage" /\ api # "responses" => Says(e, x, api)
  /\ e.kind = "final_usage" /\ x.kind = "completed" /\ api = "responses" => Says(e, x, api)
BY DEF Says

\* A frame for a client of Chat Completions, or of Completions.
LEMMA ChatWritten ==
  ASSUME NEW e \in Events, NEW api, api # "responses", NEW roleSent \in BOOLEAN, NEW includeUsage
  PROVE  WrittenAs(e, ChatFrames(e, roleSent, includeUsage), api, roleSent)
<1> DEFINE g == ChatFrames(e, roleSent, includeUsage)
<1>0. e.index \in Nat /\ 0 \in Nat /\ e.data \in Seq(Data) /\ <<>> \in Seq(Data)
  BY EmptySeq DEF Events
<1>1. {"text", "tool", "args", "finish", "usage", "error", "done"} \subseteq Kinds
  BY DEF Kinds
<1>2. \A x : <<>> \o <<x>> = <<x>>
  OBVIOUS
<1>3. CASE e.kind = "content"
  <2> DEFINE x == Event("text", 0, e.data)
  <2>1. x \in Events /\ x.kind = "text" /\ x.index = 0 /\ x.data = e.data
    BY <1>0, <1>1, FieldsOf
  <2>2. g = Role(roleSent) \o <<x>>
    BY <1>3 DEF ChatFrames, Frame
  <2> HIDE DEF x, g
  <2>3. Says(e, x, api)
    BY <1>3, <2>1, SaysSo
  <2>4. CASE roleSent
    <3>1. g = <<x>>
      BY <1>2, <2>2, <2>4 DEF Role
    <3>2. WrittenAs(e, g, api, roleSent)
      BY <2>1, <2>3, <2>4, <3>1 DEF WrittenAs
    <3> QED
      BY <3>2 DEF g
  <2>5. CASE ~roleSent
    <3>1. g = <<RoleFrame>> \o <<x>>
      BY <2>2, <2>5 DEF Role, Frame, RoleFrame
    <3>2. WrittenAs(e, g, api, roleSent)
      BY <1>3, <2>1, <2>3, <2>5, <3>1 DEF WrittenAs
    <3> QED
      BY <3>2 DEF g
  <2> QED
    BY <2>4, <2>5
<1>4. CASE e.kind = "tool_start"
  <2> DEFINE x == Event("tool", e.index, e.data)
  <2>1. x \in Events /\ x.kind = "tool" /\ x.index = e.index /\ x.data = e.data
    BY <1>0, <1>1, FieldsOf
  <2>2. g = Role(roleSent) \o <<x>>
    BY <1>4 DEF ChatFrames, Frame
  <2> HIDE DEF x, g
  <2>3. Says(e, x, api)
    BY <1>4, <2>1, SaysSo
  <2>4. CASE roleSent
    <3>1. g = <<x>>
      BY <1>2, <2>2, <2>4 DEF Role
    <3>2. WrittenAs(e, g, api, roleSent)
      BY <2>1, <2>3, <2>4, <3>1 DEF WrittenAs
    <3> QED
      BY <3>2 DEF g
  <2>5. CASE ~roleSent
    <3>1. g = <<RoleFrame>> \o <<x>>
      BY <2>2, <2>5 DEF Role, Frame, RoleFrame
    <3>2. WrittenAs(e, g, api, roleSent)
      BY <1>4, <2>1, <2>3, <2>5, <3>1 DEF WrittenAs
    <3> QED
      BY <3>2 DEF g
  <2> QED
    BY <2>4, <2>5
<1>5. CASE e.kind = "tool_args"
  <2> DEFINE x == Event("args", e.index, e.data)
  <2>1. x \in Events /\ x.kind = "args" /\ x.index = e.index /\ x.data = e.data
    BY <1>0, <1>1, FieldsOf
  <2>2. g = <<x>>
    BY <1>5 DEF ChatFrames, Frame
  <2> HIDE DEF x, g
  <2>3. Says(e, x, api)
    BY <1>5, <2>1, SaysSo
  <2>4. WrittenAs(e, g, api, roleSent)
    BY <1>5, <2>1, <2>2, <2>3 DEF WrittenAs
  <2> QED
    BY <2>4 DEF g
<1>6. CASE e.kind = "finish"
  <2> DEFINE x == Event("finish", 0, e.data)
  <2>1. x \in Events /\ x.kind = "finish" /\ x.index = 0 /\ x.data = e.data
    BY <1>0, <1>1, FieldsOf
  <2>2. g = <<x>>
    BY <1>6 DEF ChatFrames, Frame
  <2> HIDE DEF x, g
  <2>3. Says(e, x, api)
    BY <1>6, <2>1, SaysSo
  <2>4. WrittenAs(e, g, api, roleSent)
    BY <1>6, <2>1, <2>2, <2>3 DEF WrittenAs
  <2> QED
    BY <2>4 DEF g
<1>7. CASE e.kind = "error"
  <2> DEFINE x == Event("error", 0, e.data)
  <2>1. x \in Events /\ x.kind = "error" /\ x.index = 0 /\ x.data = e.data
    BY <1>0, <1>1, FieldsOf
  <2>2. g = <<x>>
    BY <1>7 DEF ChatFrames, Frame
  <2> HIDE DEF x, g
  <2>3. Says(e, x, api)
    BY <1>7, <2>1, SaysSo
  <2>4. WrittenAs(e, g, api, roleSent)
    BY <1>7, <2>1, <2>2, <2>3 DEF WrittenAs
  <2> QED
    BY <2>4 DEF g
<1>8. CASE e.kind = "done"
  <2> DEFINE x == Event("done", 0, <<>>)
  <2>1. x \in Events /\ x.kind = "done" /\ x.index = 0
    BY <1>0, <1>1, BareFields
  <2>2. g = <<x>>
    BY <1>8 DEF ChatFrames, Frame
  <2> HIDE DEF x, g
  <2>3. Says(e, x, api)
    BY <1>8, <2>1, SaysSo
  <2>4. WrittenAs(e, g, api, roleSent)
    BY <1>8, <2>1, <2>2, <2>3 DEF WrittenAs
  <2> QED
    BY <2>4 DEF g
<1>9. CASE e.kind = "final_usage" /\ includeUsage
  <2> DEFINE x == Event("usage", 0, <<>>)
  <2>1. x \in Events /\ x.kind = "usage" /\ x.index = 0
    BY <1>0, <1>1, BareFields
  <2>2. g = <<x>>
    BY <1>9 DEF ChatFrames, Frame
  <2> HIDE DEF x, g
  <2>3. Says(e, x, api)
    BY <1>9, <2>1, SaysSo
  <2>4. WrittenAs(e, g, api, roleSent)
    BY <1>9, <2>1, <2>2, <2>3 DEF WrittenAs
  <2> QED
    BY <2>4 DEF g
<1>10. CASE e.kind = "final_usage" /\ ~includeUsage
  <2>1. g = <<>>
    BY <1>10 DEF ChatFrames
  <2> HIDE DEF g
  <2>2. WrittenAs(e, g, api, roleSent)
    BY <1>10, <2>1 DEF WrittenAs
  <2> QED
    BY <2>2 DEF g
<1>11. CASE e.kind \notin {"content", "tool_start", "tool_args", "finish", "final_usage", "error", "done"}
  <2>1. g = <<>>
    BY <1>11 DEF ChatFrames
  <2> HIDE DEF g
  <2>2. WrittenAs(e, g, api, roleSent)
    BY <1>11, <2>1 DEF WrittenAs
  <2> QED
    BY <2>2 DEF g
<1> QED
  BY <1>3, <1>4, <1>5, <1>6, <1>7, <1>8, <1>9, <1>10, <1>11

\* A frame for a client of Responses.
LEMMA ResponsesWritten ==
  ASSUME NEW e \in Events, NEW api, api = "responses", NEW roleSent \in BOOLEAN
  PROVE  WrittenAs(e, ResponsesFrames(e), api, roleSent)
<1> DEFINE g == ResponsesFrames(e)
<1>0. e.index \in Nat /\ 0 \in Nat /\ e.data \in Seq(Data) /\ <<>> \in Seq(Data)
  BY EmptySeq DEF Events
<1>1. {"created", "text", "tool", "args", "args_done", "completed", "error"} \subseteq Kinds
  BY DEF Kinds
<1>2. CASE e.kind = "created"
  <2> DEFINE x == Event("created", 0, <<>>)
  <2>1. x \in Events /\ x.kind = "created" /\ x.index = 0
    BY <1>0, <1>1, BareFields
  <2>2. g = <<x>>
    BY <1>2 DEF ResponsesFrames, Frame
  <2> HIDE DEF x, g
  <2>3. Says(e, x, api)
    BY <1>2, <2>1, SaysSo
  <2>4. WrittenAs(e, g, api, roleSent)
    BY <1>2, <2>1, <2>2, <2>3 DEF WrittenAs
  <2> QED
    BY <2>4 DEF g
<1>3. CASE e.kind = "content"
  <2> DEFINE x == Event("text", 0, e.data)
  <2>1. x \in Events /\ x.kind = "text" /\ x.index = 0 /\ x.data = e.data
    BY <1>0, <1>1, FieldsOf
  <2>2. g = <<x>>
    BY <1>3 DEF ResponsesFrames, Frame
  <2> HIDE DEF x, g
  <2>3. Says(e, x, api)
    BY <1>3, <2>1, SaysSo
  <2>4. WrittenAs(e, g, api, roleSent)
    BY <1>3, <2>1, <2>2, <2>3 DEF WrittenAs
  <2> QED
    BY <2>4 DEF g
<1>4. CASE e.kind = "tool_start"
  <2> DEFINE x == Event("tool", e.index, e.data)
  <2>1. x \in Events /\ x.kind = "tool" /\ x.index = e.index /\ x.data = e.data
    BY <1>0, <1>1, FieldsOf
  <2>2. g = <<x>>
    BY <1>4 DEF ResponsesFrames, Frame
  <2> HIDE DEF x, g
  <2>3. Says(e, x, api)
    BY <1>4, <2>1, SaysSo
  <2>4. WrittenAs(e, g, api, roleSent)
    BY <1>4, <2>1, <2>2, <2>3 DEF WrittenAs
  <2> QED
    BY <2>4 DEF g
<1>5. CASE e.kind = "tool_args"
  <2> DEFINE x == Event("args", e.index, e.data)
  <2>1. x \in Events /\ x.kind = "args" /\ x.index = e.index /\ x.data = e.data
    BY <1>0, <1>1, FieldsOf
  <2>2. g = <<x>>
    BY <1>5 DEF ResponsesFrames, Frame
  <2> HIDE DEF x, g
  <2>3. Says(e, x, api)
    BY <1>5, <2>1, SaysSo
  <2>4. WrittenAs(e, g, api, roleSent)
    BY <1>5, <2>1, <2>2, <2>3 DEF WrittenAs
  <2> QED
    BY <2>4 DEF g
<1>6. CASE e.kind = "tool_done"
  <2> DEFINE x == Event("args_done", e.index, <<>>)
  <2>1. x \in Events /\ x.kind = "args_done" /\ x.index = e.index
    BY <1>0, <1>1, BareFields
  <2>2. g = <<x>>
    BY <1>6 DEF ResponsesFrames, Frame
  <2> HIDE DEF x, g
  <2>3. Says(e, x, api)
    BY <1>6, <2>1, SaysSo
  <2>4. WrittenAs(e, g, api, roleSent)
    BY <1>6, <2>1, <2>2, <2>3 DEF WrittenAs
  <2> QED
    BY <2>4 DEF g
<1>7. CASE e.kind = "final_usage"
  <2> DEFINE x == Event("completed", 0, <<>>)
  <2>1. x \in Events /\ x.kind = "completed" /\ x.index = 0
    BY <1>0, <1>1, BareFields
  <2>2. g = <<x>>
    BY <1>7 DEF ResponsesFrames, Frame
  <2> HIDE DEF x, g
  <2>3. Says(e, x, api)
    BY <1>7, <2>1, SaysSo
  <2>4. WrittenAs(e, g, api, roleSent)
    BY <1>7, <2>1, <2>2, <2>3 DEF WrittenAs
  <2> QED
    BY <2>4 DEF g
<1>8. CASE e.kind = "error"
  <2> DEFINE x == Event("error", 0, e.data)
  <2>1. x \in Events /\ x.kind = "error" /\ x.index = 0 /\ x.data = e.data
    BY <1>0, <1>1, FieldsOf
  <2>2. g = <<x>>
    BY <1>8 DEF ResponsesFrames, Frame
  <2> HIDE DEF x, g
  <2>3. Says(e, x, api)
    BY <1>8, <2>1, SaysSo
  <2>4. WrittenAs(e, g, api, roleSent)
    BY <1>8, <2>1, <2>2, <2>3 DEF WrittenAs
  <2> QED
    BY <2>4 DEF g
<1>9. CASE e.kind \notin {"created", "content", "tool_start", "tool_args", "tool_done", "final_usage", "error"}
  <2>1. g = <<>>
    BY <1>9 DEF ResponsesFrames
  <2> HIDE DEF g
  <2>2. WrittenAs(e, g, api, roleSent)
    BY <1>9, <2>1 DEF WrittenAs
  <2> QED
    BY <2>2 DEF g
<1> QED
  BY <1>2, <1>3, <1>4, <1>5, <1>6, <1>7, <1>8, <1>9

-----------------------------------------------------------------------------
(* What is said: a text, a number of tools, the arguments of each. Events    *)
(* say it, frames tell it, a message holds it.                             *)

Sayings == [text : Seq(Data), tools : Nat, args : [Nat -> Seq(Data)]]
Silence == [text |-> <<>>, tools |-> 0, args |-> [i \in Nat |-> <<>>]]
Then(a, b) == [text |-> a.text \o b.text, tools |-> a.tools + b.tools, args |-> [i \in Nat |-> a.args[i] \o b.args[i]]]

SaidAs(s, text, tool, args) ==
  [text |-> Said(s, text, 0), tools |-> Cardinality(Places(s, tool)), args |-> [i \in Nat |-> Said(s, args, i)]]
SaidBy(events) == SaidAs(events, "content", "tool_start", "tool_args")
ToldBy(frames) == SaidAs(frames, "text", "tool", "args")
SaidIn(m) == [text |-> m.text, tools |-> Len(m.tools), args |-> [i \in Nat |-> ArgsOf(m, i)]]

\* Sayings that agree in all they consist of.
LEMMA SameSaying ==
  ASSUME NEW a \in Sayings, NEW b \in Sayings, a.text = b.text, a.tools = b.tools, \A i \in Nat : a.args[i] = b.args[i]
  PROVE  a = b
<1>1. a.args = b.args
  BY DEF Sayings
<1>2. /\ a = [text |-> a.text, tools |-> a.tools, args |-> a.args]
      /\ b = [text |-> b.text, tools |-> b.tools, args |-> b.args]
  BY DEF Sayings
<1> QED
  BY <1>1, <1>2

\* What a saying consists of, and one behind another.
LEMMA SayingIs ==
  ASSUME NEW text \in Seq(Data), NEW tools \in Nat, NEW args, \A i \in Nat : args[i] \in Seq(Data),
         args = [i \in Nat |-> args[i]]
  PROVE  [text |-> text, tools |-> tools, args |-> args] \in Sayings
BY DEF Sayings

LEMMA ThenIs ==
  \A a, b \in Sayings :
    /\ Then(a, b) \in Sayings
    /\ Then(a, b).text = a.text \o b.text /\ Then(a, b).tools = a.tools + b.tools
    /\ \A i \in Nat : Then(a, b).args[i] = a.args[i] \o b.args[i]
<1> SUFFICES ASSUME NEW a \in Sayings, NEW b \in Sayings
             PROVE  /\ Then(a, b) \in Sayings
                    /\ Then(a, b).text = a.text \o b.text /\ Then(a, b).tools = a.tools + b.tools
                    /\ \A i \in Nat : Then(a, b).args[i] = a.args[i] \o b.args[i]
  OBVIOUS
<1>1. /\ a.text \in Seq(Data) /\ a.tools \in Nat /\ \A i \in Nat : a.args[i] \in Seq(Data)
      /\ b.text \in Seq(Data) /\ b.tools \in Nat /\ \A i \in Nat : b.args[i] \in Seq(Data)
  BY DEF Sayings
<1>2. \A x, y \in Seq(Data) : x \o y \in Seq(Data)
  BY ConcatProperties
<1> DEFINE args == [i \in Nat |-> a.args[i] \o b.args[i]]
<1>3. a.text \o b.text \in Seq(Data) /\ a.tools + b.tools \in Nat
  BY <1>1, <1>2
<1>4. args \in [Nat -> Seq(Data)] /\ \A i \in Nat : args[i] = a.args[i] \o b.args[i]
  BY <1>1, <1>2
<1> HIDE DEF args
<1>5. Then(a, b) = [text |-> a.text \o b.text, tools |-> a.tools + b.tools, args |-> args]
  BY DEF Then, args
<1> DEFINE text == a.text \o b.text
           tools == a.tools + b.tools
<1>6. text \in Seq(Data) /\ tools \in Nat
  BY <1>3
<1>7. Then(a, b) = [text |-> text, tools |-> tools, args |-> args]
  BY <1>5
<1> HIDE DEF text, tools
<1>8. Then(a, b) \in Sayings /\ Then(a, b).text = text /\ Then(a, b).tools = tools /\ Then(a, b).args = args
  BY <1>4, <1>6, <1>7 DEF Sayings
<1> QED
  BY <1>4, <1>8 DEF text, tools

\* Silence adds nothing, and what is said in three parts may be put together from either side.
LEMMA ThenLaws ==
  /\ Silence \in Sayings
  /\ \A a \in Sayings : Then(a, Silence) = a /\ Then(Silence, a) = a
  /\ \A a, b, c \in Sayings : Then(Then(a, b), c) = Then(a, Then(b, c))
<1>1. Silence \in Sayings /\ Silence.text = <<>> /\ Silence.tools = 0 /\ \A i \in Nat : Silence.args[i] = <<>>
  <2>1. <<>> \in Seq(Data)
    BY EmptySeq
  <2> DEFINE args == [i \in Nat |-> <<>>]
  <2>2. args \in [Nat -> Seq(Data)] /\ \A i \in Nat : args[i] = <<>>
    BY <2>1
  <2> HIDE DEF args
  <2>3. Silence = [text |-> <<>>, tools |-> 0, args |-> args]
    BY DEF Silence, args
  <2> QED
    BY <2>1, <2>2, <2>3 DEF Sayings
<1>2. \A a \in Sayings : a.text \in Seq(Data) /\ a.tools \in Nat /\ \A i \in Nat : a.args[i] \in Seq(Data)
  BY DEF Sayings
<1>3. ASSUME NEW a \in Sayings PROVE Then(a, Silence) = a /\ Then(Silence, a) = a
  <2>1. \A x \in Seq(Data) : x \o <<>> = x /\ <<>> \o x = x
    BY ConcatEmptySeq
  <2> DEFINE l == Then(a, Silence)
             r == Then(Silence, a)
  <2>2. /\ l \in Sayings /\ l.text = a.text \o Silence.text /\ l.tools = a.tools + Silence.tools
        /\ \A i \in Nat : l.args[i] = a.args[i] \o Silence.args[i]
    BY <1>1, ThenIs
  <2>3. /\ r \in Sayings /\ r.text = Silence.text \o a.text /\ r.tools = Silence.tools + a.tools
        /\ \A i \in Nat : r.args[i] = Silence.args[i] \o a.args[i]
    BY <1>1, ThenIs
  <2> HIDE DEF l, r
  <2>4. l.text = a.text /\ l.tools = a.tools /\ r.text = a.text /\ r.tools = a.tools
    BY <1>1, <1>2, <2>1, <2>2, <2>3
  <2>5. ASSUME NEW i \in Nat PROVE l.args[i] = a.args[i] /\ r.args[i] = a.args[i]
    <3>1. a.args[i] \in Seq(Data) /\ Silence.args[i] = <<>>
      BY <1>1, <1>2
    <3>2. l.args[i] = a.args[i] \o <<>> /\ r.args[i] = <<>> \o a.args[i]
      BY <2>2, <2>3, <3>1
    <3> QED
      BY <2>1, <3>1, <3>2
  <2>6. l = a
    BY <2>2, <2>4, <2>5, SameSaying
  <2>7. r = a
    BY <2>3, <2>4, <2>5, SameSaying
  <2> QED
    BY <2>6, <2>7 DEF l, r
<1>4. ASSUME NEW a \in Sayings, NEW b \in Sayings, NEW c \in Sayings
      PROVE  Then(Then(a, b), c) = Then(a, Then(b, c))
  <2> DEFINE p == Then(a, b)
             q == Then(b, c)
             l == Then(p, c)
             r == Then(a, q)
  <2>1. \A x, y, z \in Seq(Data) : (x \o y) \o z = x \o (y \o z)
    BY ConcatAssociative
  <2>a. /\ p \in Sayings /\ p.text = a.text \o b.text /\ p.tools = a.tools + b.tools
        /\ \A i \in Nat : p.args[i] = a.args[i] \o b.args[i]
    BY ThenIs
  <2>b. /\ q \in Sayings /\ q.text = b.text \o c.text /\ q.tools = b.tools + c.tools
        /\ \A i \in Nat : q.args[i] = b.args[i] \o c.args[i]
    BY ThenIs
  <2> HIDE DEF p, q
  <2>c. /\ l \in Sayings /\ l.text = p.text \o c.text /\ l.tools = p.tools + c.tools
        /\ \A i \in Nat : l.args[i] = p.args[i] \o c.args[i]
    BY <2>a, ThenIs
  <2>d. /\ r \in Sayings /\ r.text = a.text \o q.text /\ r.tools = a.tools + q.tools
        /\ \A i \in Nat : r.args[i] = a.args[i] \o q.args[i]
    BY <2>b, ThenIs
  <2> HIDE DEF l, r
  <2>2. /\ l.text = (a.text \o b.text) \o c.text /\ l.tools = (a.tools + b.tools) + c.tools
        /\ \A i \in Nat : l.args[i] = (a.args[i] \o b.args[i]) \o c.args[i]
    BY <2>a, <2>c
  <2>3. /\ r.text = a.text \o (b.text \o c.text) /\ r.tools = a.tools + (b.tools + c.tools)
        /\ \A i \in Nat : r.args[i] = a.args[i] \o (b.args[i] \o c.args[i])
    BY <2>b, <2>d
  <2>4. l.text = r.text
    <3>1. a.text \in Seq(Data) /\ b.text \in Seq(Data) /\ c.text \in Seq(Data)
      BY <1>2
    <3>2. (a.text \o b.text) \o c.text = a.text \o (b.text \o c.text)
      BY <2>1, <3>1
    <3> QED
      BY <2>2, <2>3, <3>2
  <2>5. l.tools = r.tools
    BY <1>2, <2>2, <2>3
  <2>6. ASSUME NEW i \in Nat PROVE l.args[i] = r.args[i]
    <3>1. a.args[i] \in Seq(Data) /\ b.args[i] \in Seq(Data) /\ c.args[i] \in Seq(Data)
      BY <1>2
    <3>2. (a.args[i] \o b.args[i]) \o c.args[i] = a.args[i] \o (b.args[i] \o c.args[i])
      BY <2>1, <3>1
    <3> QED
      BY <2>2, <2>3, <3>2
  <2>7. l = r
    BY <2>c, <2>d, <2>4, <2>5, <2>6, SameSaying
  <2> QED
    BY <2>7 DEF l, r, p, q
<1> QED
  BY <1>1, <1>3, <1>4

\* What a sequence says, and two of them.
LEMMA SaidAsIs ==
  ASSUME NEW text, NEW tool, NEW args
  PROVE  \A s \in Seq(Events) :
           /\ SaidAs(s, text, tool, args) \in Sayings
           /\ SaidAs(s, text, tool, args).text = Said(s, text, 0)
           /\ SaidAs(s, text, tool, args).tools = Cardinality(Places(s, tool))
           /\ \A i \in Nat : SaidAs(s, text, tool, args).args[i] = Said(s, args, i)
<1> SUFFICES ASSUME NEW s \in Seq(Events)
             PROVE  /\ SaidAs(s, text, tool, args) \in Sayings
                    /\ SaidAs(s, text, tool, args).text = Said(s, text, 0)
                    /\ SaidAs(s, text, tool, args).tools = Cardinality(Places(s, tool))
                    /\ \A i \in Nat : SaidAs(s, text, tool, args).args[i] = Said(s, args, i)
  OBVIOUS
<1>1. Said(s, text, 0) \in Seq(Data) /\ \A i \in Nat : Said(s, args, i) \in Seq(Data)
  BY SaidConcat
<1>2. Cardinality(Places(s, tool)) \in Nat
  BY PlacesConcat
<1> DEFINE f == [i \in Nat |-> Said(s, args, i)]
<1>3. f \in [Nat -> Seq(Data)] /\ \A i \in Nat : f[i] = Said(s, args, i)
  BY <1>1
<1> HIDE DEF f
<1>4. SaidAs(s, text, tool, args) = [text |-> Said(s, text, 0), tools |-> Cardinality(Places(s, tool)), args |-> f]
  BY DEF SaidAs, f
<1> QED
  BY <1>1, <1>2, <1>3, <1>4 DEF Sayings

LEMMA SaidAsThen ==
  ASSUME NEW text, NEW tool, NEW args
  PROVE  \A s, t \in Seq(Events) :
           SaidAs(s \o t, text, tool, args) = Then(SaidAs(s, text, tool, args), SaidAs(t, text, tool, args))
<1> SUFFICES ASSUME NEW s \in Seq(Events), NEW t \in Seq(Events)
             PROVE  SaidAs(s \o t, text, tool, args) = Then(SaidAs(s, text, tool, args), SaidAs(t, text, tool, args))
  OBVIOUS
<1> DEFINE a == SaidAs(s, text, tool, args)
           b == SaidAs(t, text, tool, args)
           c == SaidAs(s \o t, text, tool, args)
<1>1. s \o t \in Seq(Events)
  BY ConcatProperties
<1>2. /\ a \in Sayings /\ a.text = Said(s, text, 0) /\ a.tools = Cardinality(Places(s, tool))
      /\ \A i \in Nat : a.args[i] = Said(s, args, i)
  BY SaidAsIs
<1>3. /\ b \in Sayings /\ b.text = Said(t, text, 0) /\ b.tools = Cardinality(Places(t, tool))
      /\ \A i \in Nat : b.args[i] = Said(t, args, i)
  BY SaidAsIs
<1>4. /\ c \in Sayings /\ c.text = Said(s \o t, text, 0) /\ c.tools = Cardinality(Places(s \o t, tool))
      /\ \A i \in Nat : c.args[i] = Said(s \o t, args, i)
  <2> DEFINE u == s \o t
  <2>1. u \in Seq(Events)
    BY <1>1
  <2> HIDE DEF u
  <2>2. /\ SaidAs(u, text, tool, args) \in Sayings
        /\ SaidAs(u, text, tool, args).text = Said(u, text, 0)
        /\ SaidAs(u, text, tool, args).tools = Cardinality(Places(u, tool))
        /\ \A i \in Nat : SaidAs(u, text, tool, args).args[i] = Said(u, args, i)
    BY <2>1, SaidAsIs
  <2> QED
    BY <2>2 DEF u
<1>5. Said(s \o t, text, 0) = Said(s, text, 0) \o Said(t, text, 0)
  BY SaidConcat
<1>6. Cardinality(Places(s \o t, tool)) = Cardinality(Places(s, tool)) + Cardinality(Places(t, tool))
  BY PlacesConcat
<1>7. \A i \in Nat : Said(s \o t, args, i) = Said(s, args, i) \o Said(t, args, i)
  BY SaidConcat
<1> HIDE DEF a, b, c
<1> DEFINE d == Then(a, b)
<1>8. /\ d \in Sayings /\ d.text = a.text \o b.text /\ d.tools = a.tools + b.tools
      /\ \A i \in Nat : d.args[i] = a.args[i] \o b.args[i]
  BY <1>2, <1>3, ThenIs
<1> HIDE DEF d
<1>9. c.text = d.text /\ c.tools = d.tools /\ \A i \in Nat : c.args[i] = d.args[i]
  BY <1>2, <1>3, <1>4, <1>5, <1>6, <1>7, <1>8
<1>10. c = d
  BY <1>4, <1>8, <1>9, SameSaying
<1> QED
  BY <1>10 DEF a, b, c, d

LEMMA SaidLaws ==
  /\ \A s \in Seq(Events) : SaidBy(s) \in Sayings /\ ToldBy(s) \in Sayings
  /\ \A s, t \in Seq(Events) : SaidBy(s \o t) = Then(SaidBy(s), SaidBy(t)) /\ ToldBy(s \o t) = Then(ToldBy(s), ToldBy(t))
<1>1. \A s \in Seq(Events) : SaidBy(s) \in Sayings /\ ToldBy(s) \in Sayings
  BY SaidAsIs DEF SaidBy, ToldBy
<1>2. \A s, t \in Seq(Events) : SaidBy(s \o t) = Then(SaidBy(s), SaidBy(t))
  BY SaidAsThen DEF SaidBy
<1>3. \A s, t \in Seq(Events) : ToldBy(s \o t) = Then(ToldBy(s), ToldBy(t))
  BY SaidAsThen DEF ToldBy
<1> QED
  BY <1>1, <1>2, <1>3

\* Events, or frames, without the three kinds are silent.
LEMMA KindsAreSilent ==
  ASSUME NEW s \in Seq(Events), NEW text, NEW tool, NEW args, \A j \in DOMAIN s : s[j].kind \notin {text, tool, args}
  PROVE  SaidAs(s, text, tool, args) = Silence
<1>1. Said(s, text, 0) = <<>> /\ \A i \in Nat : Said(s, args, i) = <<>>
  BY SaidNothing
<1>2. Cardinality(Places(s, tool)) = 0
  <2>1. Places(s, tool) = {}
    BY DEF Places
  <2> QED
    BY <2>1, FS_EmptySet
<1> QED
  BY <1>1, <1>2 DEF SaidAs, Silence

Silent(s) == \A j \in DOMAIN s : s[j].kind \notin {"content", "tool_start", "tool_args"}

LEMMA SilentSays == \A s \in Seq(Events) : Silent(s) => SaidBy(s) = Silence
BY KindsAreSilent DEF Silent, SaidBy

LEMMA NothingSays == SaidBy(<<>>) = Silence /\ ToldBy(<<>>) = Silence
<1>1. <<>> \in Seq(Events) /\ DOMAIN <<>> = {}
  BY EmptySeq
<1> QED
  BY <1>1, KindsAreSilent DEF SaidBy, ToldBy

\* A message of its type holds a saying.
LEMMA MessageSays ==
  ASSUME NEW m, TypedMessage(m)
  PROVE  /\ SaidIn(m) \in Sayings /\ SaidIn(m).text = m.text /\ SaidIn(m).tools = Len(m.tools)
         /\ \A i \in Nat : SaidIn(m).args[i] = ArgsOf(m, i)
<1>1. m.text \in Seq(Data) /\ Len(m.tools) \in Nat /\ \A i : ArgsOf(m, i) \in Seq(Data)
  BY MessageIs DEF TypedMessage
<1> DEFINE f == [i \in Nat |-> ArgsOf(m, i)]
<1>2. f \in [Nat -> Seq(Data)] /\ \A i \in Nat : f[i] = ArgsOf(m, i)
  BY <1>1
<1> HIDE DEF f
<1>3. SaidIn(m) = [text |-> m.text, tools |-> Len(m.tools), args |-> f]
  BY DEF SaidIn, f
<1> QED
  BY <1>1, <1>2, <1>3 DEF Sayings

\* A chunk says what it adds to the message.
LEMMA ChunkSays ==
  ASSUME NEW m, TypedMessage(m), NEW c, Adds(m, c), Continues(m, c.message)
  PROVE  SaidIn(c.message) = Then(SaidIn(m), SaidBy(c.events))
<1> DEFINE n == c.events
           a == SaidIn(m)
           b == SaidBy(n)
           d == SaidIn(c.message)
<1>1. /\ TypedMessage(c.message) /\ n \in Seq(Events)
      /\ Len(c.message.tools) = Len(m.tools) + Cardinality(Places(n, "tool_start"))
      /\ c.message.text = m.text \o Said(n, "content", 0)
      /\ \A i \in Nat : ArgsOf(c.message, i) = ArgsOf(m, i) \o Said(n, "tool_args", i)
  BY DEF Adds
<1>2. /\ a \in Sayings /\ a.text = m.text /\ a.tools = Len(m.tools) /\ \A i \in Nat : a.args[i] = ArgsOf(m, i)
  BY MessageSays
<1>3. /\ d \in Sayings /\ d.text = c.message.text /\ d.tools = Len(c.message.tools)
      /\ \A i \in Nat : d.args[i] = ArgsOf(c.message, i)
  BY <1>1, MessageSays
<1> HIDE DEF n
<1>4. /\ b \in Sayings /\ b.text = Said(n, "content", 0) /\ b.tools = Cardinality(Places(n, "tool_start"))
      /\ \A i \in Nat : b.args[i] = Said(n, "tool_args", i)
  <2> DEFINE x == "content"
             y == "tool_start"
             z == "tool_args"
  <2> HIDE DEF x, y, z
  <2>0. n \in Seq(Events)
    BY <1>1
  <2>1. /\ SaidAs(n, x, y, z) \in Sayings /\ SaidAs(n, x, y, z).text = Said(n, x, 0)
        /\ SaidAs(n, x, y, z).tools = Cardinality(Places(n, y))
        /\ \A i \in Nat : SaidAs(n, x, y, z).args[i] = Said(n, z, i)
    BY <2>0, SaidAsIs
  <2> QED
    BY <2>1 DEF SaidBy, x, y, z
<1> HIDE DEF a, b, d
<1> DEFINE t == Then(a, b)
<1>5. /\ t \in Sayings /\ t.text = a.text \o b.text /\ t.tools = a.tools + b.tools
      /\ \A i \in Nat : t.args[i] = a.args[i] \o b.args[i]
  BY <1>2, <1>4, ThenIs
<1> HIDE DEF t
<1>6. d.text = t.text /\ d.tools = t.tools /\ \A i \in Nat : d.args[i] = t.args[i]
  BY <1>1, <1>2, <1>3, <1>4, <1>5
<1>7. d = t
  BY <1>3, <1>5, <1>6, SameSaying
<1> QED
  BY <1>7 DEF a, b, d, n, t

\* A frame tells what its event says.
LEMMA FrameTells ==
  ASSUME NEW e \in Events, NEW x, NEW api, Says(e, x, api)
  PROVE  ToldBy(<<x>>) = SaidBy(<<e>>)
<1>1. x \in Events
  BY DEF Says
<1>2. /\ x.kind = "text" <=> e.kind = "content"
      /\ x.kind = "tool" <=> e.kind = "tool_start"
      /\ x.kind = "args" <=> e.kind = "tool_args"
      /\ x.kind = "args" => x.index = e.index
      /\ x.kind = "text" => x.index = 0
      /\ x.kind \in {"text", "args"} => x.data = e.data
  BY DEF Says
<1>3. Said(<<x>>, "text", 0) = Said(<<e>>, "content", 0)
  <2>1. Said(<<x>>, "text", 0) = IF x.kind = "text" /\ x.index = 0 THEN x.data ELSE <<>>
    BY <1>1, SaidOne
  <2>2. Said(<<e>>, "content", 0) = IF e.kind = "content" THEN e.data ELSE <<>>
    BY SaidOne
  <2> QED
    BY <1>2, <2>1, <2>2
<1>4. \A i \in Nat : Said(<<x>>, "args", i) = Said(<<e>>, "tool_args", i)
  <2>1. \A i \in Nat : Said(<<x>>, "args", i) = IF x.kind = "args" /\ x.index = i THEN x.data ELSE <<>>
    BY <1>1, SaidOne
  <2>2. \A i \in Nat : Said(<<e>>, "tool_args", i) = IF e.kind = "tool_args" /\ e.index = i THEN e.data ELSE <<>>
    BY SaidOne
  <2> QED
    BY <1>2, <2>1, <2>2
<1>5. Cardinality(Places(<<x>>, "tool")) = Cardinality(Places(<<e>>, "tool_start"))
  <2>1. Cardinality(Places(<<x>>, "tool")) = IF x.kind = "tool" THEN 1 ELSE 0
    BY <1>1, PlacesOne
  <2>2. Cardinality(Places(<<e>>, "tool_start")) = IF e.kind = "tool_start" THEN 1 ELSE 0
    BY PlacesOne
  <2> QED
    BY <1>2, <2>1, <2>2
<1> QED
  BY <1>3, <1>4, <1>5 DEF ToldBy, SaidBy, SaidAs

-----------------------------------------------------------------------------
(* The invariant: what frames tell, and what is still said behind them.      *)

HasEnd(frames) == \E i \in DOMAIN frames : frames[i].kind \in {"done", "completed"}
Tell(frames, events, m) == Then(ToldBy(frames), SaidBy(events)) = SaidIn(m)

\* A client that saw the end was told the whole message; one that will still see the end, or is still
\* registered, has the rest of it before it.
Awaits(u, ch, cl) == u.service # "crynux" /\ (ch.registered \/ (cl.at = "reading" /\ ~NoEnd(ch.events)))
TellKept(u, o, ch, cl) ==
  /\ HasEnd(cl.frames) => Tell(cl.frames, <<>>, u.message)
  /\ Awaits(u, ch, cl) => Tell(cl.frames, Coming(o, ch), u.message)

\* What is said behind frames may be put together from either side.
LEMMA TellLaws ==
  \A frames, s, t \in Seq(Events) : \A m :
    /\ Then(ToldBy(frames), SaidBy(s \o t)) = Then(Then(ToldBy(frames), SaidBy(s)), SaidBy(t))
    /\ Silent(t) => (Tell(frames, s \o t, m) <=> Tell(frames, s, m))
    /\ Silent(t) => (Tell(frames, t \o s, m) <=> Tell(frames, s, m))
<1> SUFFICES ASSUME NEW frames \in Seq(Events), NEW s \in Seq(Events), NEW t \in Seq(Events), NEW m
             PROVE  /\ Then(ToldBy(frames), SaidBy(s \o t)) = Then(Then(ToldBy(frames), SaidBy(s)), SaidBy(t))
                    /\ Silent(t) => (Tell(frames, s \o t, m) <=> Tell(frames, s, m))
                    /\ Silent(t) => (Tell(frames, t \o s, m) <=> Tell(frames, s, m))
  OBVIOUS
<1>1. ToldBy(frames) \in Sayings /\ SaidBy(s) \in Sayings /\ SaidBy(t) \in Sayings
  BY SaidLaws
<1>2. SaidBy(s \o t) = Then(SaidBy(s), SaidBy(t)) /\ SaidBy(t \o s) = Then(SaidBy(t), SaidBy(s))
  BY SaidLaws
<1>3. Then(ToldBy(frames), Then(SaidBy(s), SaidBy(t))) = Then(Then(ToldBy(frames), SaidBy(s)), SaidBy(t))
  BY <1>1, ThenLaws
<1>4. ASSUME Silent(t) PROVE SaidBy(s \o t) = SaidBy(s) /\ SaidBy(t \o s) = SaidBy(s)
  <2>1. SaidBy(t) = Silence
    BY <1>4, SilentSays
  <2> QED
    BY <1>1, <1>2, <2>1, ThenLaws
<1> QED
  BY <1>2, <1>3, <1>4 DEF Tell

\* Events that end a stream say nothing of the message.
LEMMA DoneIsSilent == \A s : OnlyDone(s) => Silent(s)
BY DEF OnlyDone, Silent

LEMMA NothingIsSilent == Silent(<<>>) /\ NoEnd(<<>>) /\ OnlyDone(<<>>) /\ ~HasEnd(<<>>) /\ <<>> \in Seq(Events)
<1>1. <<>> \in Seq(Events) /\ DOMAIN <<>> = {}
  BY EmptySeq
<1> QED
  BY <1>1 DEF Silent, NoEnd, OnlyDone, HasEnd

\* The outbox is filled with what is said of a message that grows.
LEMMA OutboxTells ==
  ASSUME NEW u, NEW ch, NEW cl, StreamKeeps(u, <<>>, ch, cl), TellKept(u, <<>>, ch, cl),
         u.service # "crynux", u.at # "settled",
         NEW n \in Seq(Events), NEW v, v.service = u.service,
         SaidIn(v.message) = Then(SaidIn(u.message), SaidBy(n))
  PROVE  TellKept(v, n, ch, cl)
<1>1. /\ TypedChannel(ch) /\ ch.events \in Seq(Events) /\ cl.frames \in Seq(Events)
      /\ FramesKept(u, cl) /\ EndKept(u, <<>>, ch)
  BY DEF StreamKeeps, StreamTyped, TypedChannel, TypedClient
<1>2. ~HasEnd(cl.frames)
  <2>1. HasEnd(cl.frames) => TellsEnd(cl.frames)
    BY DEF HasEnd, TellsEnd
  <2> QED
    BY <1>1, <2>1 DEF FramesKept
<1>3. NoEnd(ch.events)
  BY <1>1 DEF EndKept, NoEnd
<1>4. ASSUME ch.registered PROVE Tell(cl.frames, Coming(n, ch), v.message)
  <2>1. Tell(cl.frames, ch.events, u.message)
    <3>1. Coming(<<>>, ch) = ch.events
      BY <1>1, ComingIs
    <3> QED
      BY <1>4, <3>1 DEF TellKept, Awaits
  <2>2. Coming(n, ch) = ch.events \o n
    BY <1>4 DEF Coming
  <2>3. Then(ToldBy(cl.frames), SaidBy(ch.events \o n)) = Then(Then(ToldBy(cl.frames), SaidBy(ch.events)), SaidBy(n))
    BY <1>1, TellLaws
  <2> QED
    BY <2>1, <2>2, <2>3 DEF Tell
<1> QED
  BY <1>2, <1>3, <1>4 DEF TellKept, Awaits

\* The call goes on to another phase, with silent events.
LEMMA PhaseTells ==
  ASSUME StreamInv, TellKept(upstream, outbox, channel, client), upstream.service # "crynux",
         upstream.at # "settled", outbox = <<>>, NEW n \in Seq(Events), Silent(n),
         NEW v, v.service = upstream.service, v.message = upstream.message
  PROVE  TellKept(v, n, channel, client)
<1>1. StreamKeeps(upstream, <<>>, channel, client) /\ TellKept(upstream, <<>>, channel, client)
  BY DEF StreamInv
<1>2. SaidIn(upstream.message) \in Sayings
  BY <1>1, MessageSays DEF StreamKeeps, StreamTyped, TypedCall
<1>3. SaidIn(v.message) = Then(SaidIn(upstream.message), SaidBy(n))
  BY <1>2, SilentSays, ThenLaws
<1> QED
  BY <1>1, <1>3, OutboxTells

\* The channel is unregistered: an end in it has nothing but ends behind it.
LEMMA ChannelTells ==
  ASSUME NEW u, NEW o, NEW ch, NEW cl, StreamKeeps(u, o, ch, cl), TellKept(u, o, ch, cl)
  PROVE  TellKept(u, o, Unregistered(ch), cl)
<1> DEFINE k == Unregistered(ch)
           s == ch.events
<1>1. TypedChannel(ch) /\ s \in Seq(Events) /\ o \in Seq(Events) /\ cl.frames \in Seq(Events)
  BY DEF StreamKeeps, StreamTyped, TypedChannel, TypedClient
<1>2. k.events = s /\ ~k.registered /\ Coming(o, k) = s
  BY <1>1, UnregisteredIs DEF Coming
<1> HIDE DEF k, s
<1>3. ASSUME Awaits(u, k, cl) PROVE Tell(cl.frames, s, u.message)
  <2>1. u.service # "crynux" /\ cl.at = "reading" /\ ~NoEnd(s)
    BY <1>2, <1>3 DEF Awaits
  <2>2. Tell(cl.frames, Coming(o, ch), u.message) /\ EndsLast(Coming(o, ch))
    BY <2>1 DEF TellKept, Awaits, StreamKeeps, ReadingKept, s
  <2>3. CASE ch.registered
    <3>1. Coming(o, ch) = s \o o
      BY <2>3 DEF Coming, s
    <3>2. OnlyDone(o)
      BY <1>1, <2>1, <2>2, <3>1, EventConcats
    <3> QED
      BY <1>1, <2>2, <3>1, <3>2, DoneIsSilent, TellLaws
  <2>4. CASE ~ch.registered
    BY <2>2, <2>4 DEF Coming, s
  <2> QED
    BY <2>3, <2>4
<1>4. TellKept(u, o, k, cl)
  BY <1>2, <1>3 DEF TellKept
<1> QED
  BY <1>4 DEF k

\* An event leaves the outbox: withheld, or behind a channel that is closed.
LEMMA DroppedTells ==
  ASSUME NEW u, NEW o, NEW ch, NEW cl, StreamKeeps(u, o, ch, cl), TellKept(u, o, ch, cl), o # <<>>,
         ~ch.registered \/ Head(o).kind = "final_usage"
  PROVE  TellKept(u, Tail(o), ch, cl)
<1> DEFINE e == Head(o)
           t == Tail(o)
           s == ch.events
<1>1. s \in Seq(Events) /\ o \in Seq(Events) /\ cl.frames \in Seq(Events)
  BY DEF StreamKeeps, StreamTyped, TypedChannel, TypedClient
<1>2. e \in Events /\ t \in Seq(Events) /\ <<e>> \in Seq(Events) /\ o = <<e>> \o t
  BY <1>1, FirstEvent
<1> HIDE DEF e, t
<1>3. CASE ~ch.registered
  BY <1>3 DEF TellKept, Coming, t
<1>4. CASE ch.registered
  <2>1. e.kind = "final_usage"
    BY <1>4 DEF e
  <2> DEFINE a == <<e>>
  <2>2. a \in Seq(Events) /\ Silent(a) /\ o = a \o t
    <3>1. DOMAIN <<e>> = {1} /\ <<e>>[1] = e
      OBVIOUS
    <3> QED
      BY <1>2, <2>1, <3>1 DEF Silent
  <2> HIDE DEF a
  <2>3. SaidBy(o) = SaidBy(t)
    <3>1. SaidBy(o) = Then(SaidBy(a), SaidBy(t)) /\ SaidBy(t) \in Sayings
      BY <1>2, <2>2, SaidLaws
    <3> QED
      BY <2>2, <3>1, SilentSays, ThenLaws
  <2>4. SaidBy(s \o o) = SaidBy(s \o t)
    <3>1. \A x, y \in Seq(Events) : SaidBy(x \o y) = Then(SaidBy(x), SaidBy(y))
      BY SaidLaws
    <3> HIDE DEF s
    <3>2. SaidBy(s \o o) = Then(SaidBy(s), SaidBy(o)) /\ SaidBy(s \o t) = Then(SaidBy(s), SaidBy(t))
      BY <1>1, <1>2, <3>1
    <3> QED
      BY <2>3, <3>2
  <2>5. Tell(cl.frames, s \o o, u.message) <=> Tell(cl.frames, s \o t, u.message)
    BY <2>4 DEF Tell
  <2>6. Coming(o, ch) = s \o o /\ Coming(t, ch) = s \o t
    BY <1>4 DEF Coming
  <2> QED
    BY <2>5, <2>6 DEF TellKept, t
<1> QED
  BY <1>3, <1>4

\* An event goes from the outbox to the channel.
LEMMA PublishedTells ==
  ASSUME NEW u, NEW o, NEW ch, NEW cl, StreamKeeps(u, o, ch, cl), TellKept(u, o, ch, cl), o # <<>>, ch.registered
  PROVE  TellKept(u, Tail(o), [ch EXCEPT !.events = Append(ch.events, Head(o))], cl)
<1> DEFINE e == Head(o)
           t == Tail(o)
           s == ch.events
           k == [ch EXCEPT !.events = Append(s, e)]
<1>1. TypedChannel(ch) /\ s \in Seq(Events) /\ o \in Seq(Events)
  BY DEF StreamKeeps, StreamTyped, TypedChannel
<1>2. e \in Events /\ t \in Seq(Events) /\ <<e>> \in Seq(Events) /\ o = <<e>> \o t
  BY <1>1, FirstEvent
<1>3. DOMAIN ch = {"events", "registered", "open"}
  BY <1>1 DEF TypedChannel, NoChannel
<1>4. k.events = Append(s, e) /\ k.registered = ch.registered
  BY <1>3
<1> HIDE DEF e, t, k
<1>5. k.events = s \o <<e>>
  BY <1>1, <1>2, <1>4, AppendIsConcat
<1>6. Coming(t, k) = Coming(o, ch)
  <2>1. Coming(t, k) = (s \o <<e>>) \o t /\ Coming(o, ch) = s \o (<<e>> \o t)
    BY <1>2, <1>4, <1>5 DEF Coming
  <2> HIDE DEF s
  <2>2. \A x, y, z \in Seq(Events) : (x \o y) \o z = x \o (y \o z)
    BY ConcatAssociative
  <2>3. s \in Seq(Events) /\ <<e>> \in Seq(Events) /\ t \in Seq(Events)
    BY <1>1, <1>2
  <2>4. (s \o <<e>>) \o t = s \o (<<e>> \o t)
    BY <2>2, <2>3
  <2> QED
    BY <2>1, <2>4
<1>7. TellKept(u, t, k, cl)
  BY <1>4, <1>6 DEF TellKept, Awaits
<1> QED
  BY <1>7 DEF k, t, e

\* A client that stops reading, unregistered.
LEMMA StoppedTells ==
  ASSUME NEW u, NEW o, NEW ch, NEW cl, TellKept(u, o, ch, cl), NEW k, ~k.registered,
         NEW d, d.frames = cl.frames, d.at # "reading"
  PROVE  TellKept(u, o, k, d)
BY DEF TellKept, Awaits

\* What is written tells what its event says.
LEMMA WrittenTells ==
  ASSUME NEW e \in Events, NEW g, NEW api, NEW roleSent, WrittenAs(e, g, api, roleSent)
  PROVE  /\ g \in Seq(Events) /\ ToldBy(g) = SaidBy(<<e>>)
         /\ HasEnd(g) => e.kind \in EndKinds
<1>1. <<e>> \in Seq(Events) /\ SaidBy(<<e>>) \in Sayings /\ DOMAIN <<e>> = {1} /\ <<e>>[1] = e
  <2>1. <<e>> \in Seq(Events) /\ DOMAIN <<e>> = {1} /\ <<e>>[1] = e
    OBVIOUS
  <2> QED
    BY <2>1, SaidLaws
<1>2. CASE g = <<>> /\ e.kind \notin {"content", "tool_start", "tool_args", "error"}
  <2> DEFINE a == <<e>>
  <2>1. a \in Seq(Events) /\ Silent(a)
    BY <1>1, <1>2 DEF Silent
  <2> HIDE DEF a
  <2>2. SaidBy(a) = Silence
    BY <2>1, SilentSays
  <2> QED
    BY <1>2, <2>2, NothingSays, NothingIsSilent DEF a
<1>3. ASSUME NEW x \in Events, Says(e, x, api)
      PROVE  <<x>> \in Seq(Events) /\ ToldBy(<<x>>) = SaidBy(<<e>>) /\ (HasEnd(<<x>>) => e.kind \in EndKinds)
  <2>1. <<x>> \in Seq(Events) /\ DOMAIN <<x>> = {1} /\ <<x>>[1] = x
    OBVIOUS
  <2>2. HasEnd(<<x>>) => e.kind \in EndKinds
    BY <1>3, <2>1 DEF HasEnd, Says, EndKinds
  <2> QED
    BY <1>3, <2>1, <2>2, FrameTells
<1>4. ASSUME NEW x \in Events, Says(e, x, api), g = <<RoleFrame>> \o <<x>>
      PROVE  g \in Seq(Events) /\ ToldBy(g) = SaidBy(<<e>>) /\ (HasEnd(g) => e.kind \in EndKinds)
  <2> DEFINE r == <<RoleFrame>>
             y == <<x>>
  <2>1. RoleFrame \in Events /\ RoleFrame.kind = "role"
    <3>1. "role" \in Kinds /\ 0 \in Nat
      BY DEF Kinds
    <3> QED
      BY <3>1, BareFields DEF RoleFrame
  <2>2. r \in Seq(Events) /\ DOMAIN r = {1} /\ r[1] = RoleFrame
    BY <2>1
  <2>3. y \in Seq(Events) /\ ToldBy(y) = SaidBy(<<e>>) /\ (HasEnd(y) => e.kind \in EndKinds)
    BY <1>3, <1>4
  <2> HIDE DEF r, y
  <2>4. ToldBy(r) = Silence
    BY <2>1, <2>2, KindsAreSilent DEF ToldBy
  <2>5. g = r \o y
    BY <1>4 DEF r, y
  <2>6. g \in Seq(Events) /\ ToldBy(g) = Then(ToldBy(r), ToldBy(y)) /\ ToldBy(y) \in Sayings
    BY <2>2, <2>3, <2>5, SaidLaws, ConcatProperties
  <2>7. HasEnd(g) => HasEnd(y)
    <3>1. /\ \A i \in DOMAIN g : i \in DOMAIN r \/ \E j \in DOMAIN y : i = Len(r) + j
          /\ \A i \in DOMAIN r : g[i] = r[i]
          /\ \A j \in DOMAIN y : g[Len(r) + j] = y[j]
      <4>1. \A v, w \in Seq(Events) :
              /\ \A i \in DOMAIN (v \o w) : i \in DOMAIN v \/ \E j \in DOMAIN w : i = Len(v) + j
              /\ \A i \in DOMAIN v : (v \o w)[i] = v[i]
              /\ \A j \in DOMAIN w : (v \o w)[Len(v) + j] = w[j]
        BY ConcatPlaces
      <4> QED
        BY <2>2, <2>3, <2>5, <4>1
    <3> QED
      BY <2>1, <2>2, <3>1 DEF HasEnd
  <2> QED
    BY <2>3, <2>4, <2>6, <2>7, ThenLaws
<1> QED
  BY <1>2, <1>3, <1>4 DEF WrittenAs

\* The client takes an event from its channel and writes its frames.
LEMMA WritingTells ==
  ASSUME NEW u, NEW o, NEW ch, NEW cl, StreamKeeps(u, o, ch, cl), TellKept(u, o, ch, cl),
         cl.at = "reading", ch.events # <<>>,
         NEW e, e = Head(ch.events), NEW g, WrittenAs(e, g, cl.api, cl.roleSent),
         NEW d, d.frames = cl.frames \o g,
         NEW k,
         IF e.kind \in {"done", "error"} THEN d.at = "over" /\ ~k.registered /\ k.events = <<>>
         ELSE d.at = "reading" /\ k.registered = ch.registered /\ k.events = Tail(ch.events)
  PROVE  TellKept(u, o, k, d)
<1> DEFINE s == cl.frames
           f == s \o g
           q == ch.events
           t == Tail(q)
           m == u.message
<1>1. /\ o \in Seq(Events) /\ q \in Seq(Events) /\ s \in Seq(Events)
      /\ u.service # "crynux" /\ ReadingKept(cl, Coming(o, ch))
  BY DEF StreamKeeps, StreamTyped, TypedChannel, TypedClient
<1>2. e \in Events /\ t \in Seq(Events) /\ <<e>> \in Seq(Events) /\ q = <<e>> \o t
  BY <1>1, FirstEvent
<1> DEFINE rest == IF ch.registered THEN t \o o ELSE t
           a == <<e>>
<1>3. rest \in Seq(Events) /\ Coming(o, ch) = a \o rest
  <2>1. \A x, y, z \in Seq(Events) : (x \o y) \o z = x \o (y \o z) /\ y \o z \in Seq(Events)
    BY ConcatAssociative, ConcatProperties
  <2> HIDE DEF t, q
  <2>2. Coming(o, ch) = IF ch.registered THEN (<<e>> \o t) \o o ELSE <<e>> \o t
    BY <1>2 DEF Coming, q
  <2> QED
    BY <1>1, <1>2, <2>1, <2>2
<1>4. /\ (OnlyDone(a) <=> e.kind = "done") /\ (NoEnd(a) <=> e.kind \notin EndKinds)
      /\ a \in Seq(Events) /\ q = a \o t
  BY <1>2, EventAlone
<1> HIDE DEF s, t, q, rest, a, m
<1>5. g \in Seq(Events) /\ ToldBy(g) = SaidBy(a) /\ (HasEnd(g) => e.kind \in EndKinds)
  BY <1>2, WrittenTells DEF a
<1>6. f \in Seq(Events) /\ (HasEnd(f) => HasEnd(s) \/ HasEnd(g))
  <2>1. \A x, y \in Seq(Events) :
          /\ x \o y \in Seq(Events)
          /\ \A i \in DOMAIN (x \o y) : i \in DOMAIN x \/ \E j \in DOMAIN y : i = Len(x) + j
          /\ \A i \in DOMAIN x : (x \o y)[i] = x[i]
          /\ \A j \in DOMAIN y : (x \o y)[Len(x) + j] = y[j]
    BY ConcatPlaces, ConcatProperties
  <2>2. /\ f \in Seq(Events)
        /\ \A i \in DOMAIN f : i \in DOMAIN s \/ \E j \in DOMAIN g : i = Len(s) + j
        /\ \A i \in DOMAIN s : f[i] = s[i]
        /\ \A j \in DOMAIN g : f[Len(s) + j] = g[j]
    BY <1>1, <1>5, <2>1
  <2> HIDE DEF f
  <2> QED
    BY <2>2 DEF HasEnd
<1>7. \A r \in Seq(Events) : Tell(s, a \o r, m) => Tell(f, r, m)
  <2> SUFFICES ASSUME NEW r \in Seq(Events), Tell(s, a \o r, m) PROVE Tell(f, r, m)
    OBVIOUS
  <2>1. Then(ToldBy(s), SaidBy(a \o r)) = Then(Then(ToldBy(s), SaidBy(a)), SaidBy(r))
    BY <1>1, <1>4, TellLaws
  <2>2. ToldBy(f) = Then(ToldBy(s), ToldBy(g))
    BY <1>1, <1>5, SaidLaws
  <2> QED
    BY <1>5, <2>1, <2>2 DEF Tell
<1>8. d.frames = f
  BY DEF s
<1> HIDE DEF f
<1>9. ASSUME Awaits(u, ch, cl) PROVE Tell(f, rest, m)
  BY <1>3, <1>7, <1>9 DEF TellKept, s, m
<1>10. EndsLast(a \o rest) /\ Places(s, "done") = {} /\ (Places(s, "completed") # {} => OnlyDone(a \o rest))
  BY <1>1, <1>3 DEF ReadingKept, s
<1>11. ASSUME HasEnd(s) PROVE Tell(f, <<>>, m)
  <2>1. OnlyDone(a \o rest)
    BY <1>10, <1>11 DEF HasEnd, Places
  <2>2. OnlyDone(a)
    BY <1>3, <1>4, <2>1, EventConcats
  <2>3. Tell(s, <<>>, m)
    BY <1>11 DEF TellKept, s, m
  <2>4. Tell(s, a \o <<>>, m)
    BY <1>1, <1>4, <2>2, <2>3, DoneIsSilent, NothingIsSilent, TellLaws
  <2> QED
    BY <1>7, <2>4, NothingIsSilent
<1>12. ASSUME HasEnd(g) PROVE Tell(f, <<>>, m)
  <2>1. ~NoEnd(a)
    BY <1>4, <1>5, <1>12
  <2>2. ~NoEnd(q) /\ OnlyDone(rest)
    BY <1>2, <1>3, <1>4, <1>10, <2>1, EventConcats
  <2>3. Tell(f, rest, m)
    BY <1>1, <1>9, <2>2 DEF Awaits, q
  <2>4. Silent(rest) /\ rest = <<>> \o rest
    BY <1>3, <2>2, DoneIsSilent, ConcatEmptySeq
  <2> QED
    BY <1>3, <1>6, <2>3, <2>4, NothingIsSilent, TellLaws
<1>13. ASSUME Awaits(u, k, d) PROVE Tell(f, Coming(o, k), m)
  <2>1. e.kind \notin {"done", "error"}
    BY <1>13, NothingIsSilent DEF Awaits
  <2>2. k.registered = ch.registered /\ k.events = t
    BY <2>1 DEF t, q
  <2>3. Coming(o, k) = rest
    BY <2>2 DEF Coming, rest
  <2>4. ~NoEnd(t) => ~NoEnd(q)
    BY <1>2, <1>4, EventConcats
  <2>5. Awaits(u, ch, cl)
    BY <1>13, <2>2, <2>4 DEF Awaits, q
  <2> QED
    BY <1>9, <2>3, <2>5
<1> QED
  BY <1>6, <1>8, <1>11, <1>12, <1>13 DEF TellKept, m

-----------------------------------------------------------------------------
(* What a client has got. *)

NotEnded(frames) == \A i \in DOMAIN frames : frames[i].kind \notin Ends

\* One frame more.
LEMMA FrameAdded ==
  ASSUME NEW s \in Seq(Events), NEW x \in Events
  PROVE  /\ s \o <<x>> \in Seq(Events)
         /\ \A kind : Places(s \o <<x>>, kind) # {} <=> Places(s, kind) # {} \/ x.kind = kind
         /\ \A kind : Named(s \o <<x>>, kind) = Named(s, kind) \cup IF x.kind = kind THEN {x.index} ELSE {}
         /\ RoleFirst(s) /\ (x.kind = "role" => Places(s, "role") = {})
              /\ (x.kind \in {"text", "tool"} => Places(s, "role") # {}) => RoleFirst(s \o <<x>>)
         /\ ArgsFollow(s) /\ (x.kind \in {"args", "args_done"} => x.index \in Named(s, "tool")) => ArgsFollow(s \o <<x>>)
         /\ NotEnded(s) => EndIsLast(s \o <<x>>)
         /\ NotEnded(s) /\ x.kind \notin Ends => NotEnded(s \o <<x>>)
         /\ TellsEnd(s \o <<x>>) <=> TellsEnd(s) \/ x.kind \in {"done", "completed", "usage"}
<1> DEFINE f == s \o <<x>>
           n == Len(s)
<1>1. f = Append(s, x) /\ f \in Seq(Events) /\ n \in Nat /\ DOMAIN s = 1..n
  BY AppendIsConcat, AppendProperties, LenProperties
<1>2. Len(f) = n + 1 /\ (\A i \in 1..n : f[i] = s[i]) /\ f[n + 1] = x /\ DOMAIN f = 1..(n + 1)
  <2>1. Len(f) = n + 1 /\ (\A i \in 1..n : f[i] = s[i]) /\ f[n + 1] = x
    BY <1>1, AppendProperties
  <2> HIDE DEF f, n
  <2> QED
    BY <1>1, <2>1, LenProperties
<1> HIDE DEF f, n
<1>3. \A i : i \in DOMAIN f <=> i \in DOMAIN s \/ i = n + 1
  BY <1>1, <1>2
<1>4. \A i \in DOMAIN s : f[i] = s[i] /\ i < n + 1 /\ i # n + 1
  BY <1>1, <1>2
<1>5. f[n + 1] = x
  BY <1>2
<1>6. \A kind, i : i \in Places(f, kind) <=> i \in Places(s, kind) \/ (i = n + 1 /\ x.kind = kind)
  BY <1>3, <1>4, <1>5 DEF Places
<1>7. \A kind : \A i \in Places(s, kind) : i \in DOMAIN s /\ f[i] = s[i] /\ i < n + 1
  BY <1>4 DEF Places
<1>8. \A kind : Places(f, kind) # {} <=> Places(s, kind) # {} \/ x.kind = kind
  BY <1>6
<1>9. ASSUME NEW kind PROVE Named(f, kind) = Named(s, kind) \cup IF x.kind = kind THEN {x.index} ELSE {}
  BY <1>5, <1>6, <1>7 DEF Named
<1>10. ASSUME RoleFirst(s), x.kind = "role" => Places(s, "role") = {},
              x.kind \in {"text", "tool"} => Places(s, "role") # {}
       PROVE  RoleFirst(f)
  <2>1. ASSUME NEW i \in Places(f, "role"), NEW j \in Places(f, "role") PROVE i = j
    BY <1>6, <1>10, <2>1 DEF RoleFirst
  <2>2. ASSUME NEW i \in Places(f, "text") \cup Places(f, "tool") PROVE \E j \in Places(f, "role") : j < i
    <3>1. CASE i \in Places(s, "text") \cup Places(s, "tool")
      BY <1>6, <1>10, <3>1 DEF RoleFirst
    <3>2. CASE i = n + 1 /\ x.kind \in {"text", "tool"}
      <4>1. PICK j \in Places(s, "role") : TRUE
        BY <1>10, <3>2
      <4> QED
        BY <1>6, <1>7, <3>2, <4>1
    <3> QED
      BY <1>6, <3>1, <3>2
  <2> QED
    BY <2>1, <2>2 DEF RoleFirst
<1>11. ASSUME ArgsFollow(s), x.kind \in {"args", "args_done"} => x.index \in Named(s, "tool") PROVE ArgsFollow(f)
  <2>1. ASSUME NEW i \in Places(f, "args") \cup Places(f, "args_done")
        PROVE  \E j \in Places(f, "tool") : j < i /\ f[j].index = f[i].index
    <3>1. CASE i \in Places(s, "args") \cup Places(s, "args_done")
      <4>1. PICK j \in Places(s, "tool") : j < i /\ s[j].index = s[i].index
        BY <1>11, <3>1 DEF ArgsFollow
      <4> QED
        BY <1>6, <1>7, <3>1, <4>1
    <3>2. CASE i = n + 1 /\ x.kind \in {"args", "args_done"}
      <4>1. PICK j \in Places(s, "tool") : s[j].index = x.index
        BY <1>11, <3>2 DEF Named
      <4> QED
        BY <1>5, <1>6, <1>7, <3>2, <4>1
    <3> QED
      BY <1>6, <3>1, <3>2
  <2> QED
    BY <2>1 DEF ArgsFollow
<1>12. NotEnded(s) => EndIsLast(f)
  BY <1>2, <1>3, <1>4 DEF NotEnded, EndIsLast
<1>13. NotEnded(s) /\ x.kind \notin Ends => NotEnded(f)
  BY <1>3, <1>4, <1>5 DEF NotEnded
<1>14. TellsEnd(f) <=> TellsEnd(s) \/ x.kind \in {"done", "completed", "usage"}
  BY <1>3, <1>4, <1>5 DEF TellsEnd
<1> QED
  BY <1>1, <1>8, <1>9, <1>10, <1>11, <1>12, <1>13, <1>14 DEF f

\* What a client has after the frames f of an event e behind those it had.
Grown(s, f, e, api, roleSent) ==
  /\ f \in Seq(Events)
  /\ api = "chat" => /\ RoleFirst(f)
                     /\ roleSent \/ e.kind \in {"content", "tool_start"} <=> Places(f, "role") # {}
  /\ ArgsFollow(f) /\ EndIsLast(f)
  /\ TellsEnd(f) => TellsEnd(s) \/ e.kind \in EndKinds
  /\ Named(f, "tool") = Named(s, "tool") \cup IF e.kind = "tool_start" THEN {e.index} ELSE {}
  /\ Places(f, "error") # {} => Places(s, "error") # {} \/ e.kind = "error"
  /\ Places(f, "done") # {} => Places(s, "done") # {} \/ e.kind = "done"
  /\ Places(f, "completed") # {} => Places(s, "completed") # {} \/ (api = "responses" /\ e.kind = "final_usage")

\* One event is written behind frames that are well formed and have not ended.
LEMMA FramesGrow ==
  ASSUME NEW s \in Seq(Events), NEW e \in Events, NEW g, NEW api, NEW roleSent \in BOOLEAN,
         WrittenAs(e, g, api, roleSent), NotEnded(s) \/ (api = "responses" /\ e.kind = "done"),
         api = "chat" => RoleFirst(s) /\ (roleSent <=> Places(s, "role") # {}),
         ArgsFollow(s), EndIsLast(s), e.kind \in {"tool_args", "tool_done"} => e.index \in Named(s, "tool")
  PROVE  Grown(s, s \o g, e, api, roleSent)
<1>1. CASE g = <<>>
  <2>1. s \o g = s
    BY <1>1, ConcatEmptySeq
  <2>2. e.kind \notin {"content", "tool_start"}
    <3>1. \A x, r : <<r>> \o <<x>> # <<>> /\ <<x>> # <<>>
      OBVIOUS
    <3> QED
      BY <1>1, <3>1 DEF WrittenAs
  <2>3. Grown(s, s, e, api, roleSent)
    BY <2>2 DEF Grown
  <2> QED
    BY <2>1, <2>3
<1>2. ASSUME NEW x \in Events, Says(e, x, api), NotEnded(s),
             NEW t \in Seq(Events), NotEnded(t), ArgsFollow(t), TellsEnd(t) => TellsEnd(s),
             Named(t, "tool") = Named(s, "tool"),
             \A kind \in Ends : Places(t, kind) # {} => Places(s, kind) # {},
             api = "chat" => /\ RoleFirst(t)
                             /\ roleSent \/ e.kind \in {"content", "tool_start"} <=> Places(t, "role") # {}
      PROVE  Grown(s, t \o <<x>>, e, api, roleSent)
  <2> DEFINE f == t \o <<x>>
  <2>1. /\ f \in Seq(Events)
        /\ \A kind : Places(f, kind) # {} <=> Places(t, kind) # {} \/ x.kind = kind
        /\ \A kind : Named(f, kind) = Named(t, kind) \cup IF x.kind = kind THEN {x.index} ELSE {}
        /\ RoleFirst(t) /\ (x.kind = "role" => Places(t, "role") = {})
              /\ (x.kind \in {"text", "tool"} => Places(t, "role") # {}) => RoleFirst(f)
        /\ ArgsFollow(t) /\ (x.kind \in {"args", "args_done"} => x.index \in Named(t, "tool")) => ArgsFollow(f)
        /\ NotEnded(t) => EndIsLast(f)
        /\ TellsEnd(f) <=> TellsEnd(t) \/ x.kind \in {"done", "completed", "usage"}
    BY <1>2, FrameAdded
  <2> HIDE DEF f
  <2>2. /\ x.kind # "role" /\ (x.kind \in {"text", "tool"} => e.kind \in {"content", "tool_start"})
        /\ (x.kind \in {"args", "args_done"} => e.kind \in {"tool_args", "tool_done"} /\ x.index = e.index)
        /\ (x.kind = "tool" <=> e.kind = "tool_start") /\ (x.kind = "tool" => x.index = e.index)
        /\ (x.kind = "error" => e.kind = "error") /\ (x.kind = "done" => e.kind = "done")
        /\ (x.kind = "completed" => e.kind = "final_usage" /\ api = "responses")
        /\ (x.kind = "usage" => e.kind = "final_usage")
    BY <1>2 DEF Says
  <2>3. api = "chat" => /\ RoleFirst(f)
                        /\ roleSent \/ e.kind \in {"content", "tool_start"} <=> Places(f, "role") # {}
    BY <1>2, <2>1, <2>2
  <2>4. ArgsFollow(f) /\ EndIsLast(f)
    BY <1>2, <2>1, <2>2
  <2>5. TellsEnd(f) => TellsEnd(s) \/ e.kind \in EndKinds
    BY <1>2, <2>1, <2>2 DEF EndKinds
  <2>6. Named(f, "tool") = Named(s, "tool") \cup IF e.kind = "tool_start" THEN {e.index} ELSE {}
    BY <1>2, <2>1, <2>2
  <2>7. /\ Places(f, "error") # {} => Places(s, "error") # {} \/ e.kind = "error"
        /\ Places(f, "done") # {} => Places(s, "done") # {} \/ e.kind = "done"
        /\ Places(f, "completed") # {} => Places(s, "completed") # {} \/ (api = "responses" /\ e.kind = "final_usage")
    BY <1>2, <2>1, <2>2 DEF Ends
  <2>8. Grown(s, f, e, api, roleSent)
    BY <2>1, <2>3, <2>4, <2>5, <2>6, <2>7 DEF Grown
  <2> QED
    BY <2>8 DEF f
<1>3. ASSUME NEW x \in Events, Says(e, x, api), g = <<x>>,
             e.kind \in {"content", "tool_start"} /\ api # "responses" => roleSent
      PROVE  Grown(s, s \o g, e, api, roleSent)
  <2>1. NotEnded(s)
    <3>1. \A y : <<y>> # <<>>
      OBVIOUS
    <3>2. e.kind = "done" /\ api = "responses" => FALSE
      BY <1>3 DEF Says
    <3> QED
      BY <3>2
  <2>2. api = "chat" => api # "responses"
    OBVIOUS
  <2>3. Grown(s, s \o <<x>>, e, api, roleSent)
    BY <1>2, <1>3, <2>1, <2>2
  <2> QED
    BY <1>3, <2>3
<1>4. ASSUME NEW x \in Events, Says(e, x, api), g = <<RoleFrame>> \o <<x>>, ~roleSent, api # "responses",
             e.kind \in {"content", "tool_start"}
      PROVE  Grown(s, s \o g, e, api, roleSent)
  <2> DEFINE r == RoleFrame
             t == s \o <<r>>
  <2>1. r \in Events /\ r.kind = "role"
    <3>1. "role" \in Kinds /\ 0 \in Nat
      BY DEF Kinds
    <3> QED
      BY <3>1, BareFields DEF RoleFrame
  <2>2. NotEnded(s)
    BY <1>4
  <2> HIDE DEF r
  <2>3. /\ t \in Seq(Events)
        /\ \A kind : Places(t, kind) # {} <=> Places(s, kind) # {} \/ r.kind = kind
        /\ \A kind : Named(t, kind) = Named(s, kind) \cup IF r.kind = kind THEN {r.index} ELSE {}
        /\ RoleFirst(s) /\ (r.kind = "role" => Places(s, "role") = {})
              /\ (r.kind \in {"text", "tool"} => Places(s, "role") # {}) => RoleFirst(t)
        /\ ArgsFollow(s) /\ (r.kind \in {"args", "args_done"} => r.index \in Named(s, "tool")) => ArgsFollow(t)
        /\ NotEnded(s) /\ r.kind \notin Ends => NotEnded(t)
        /\ TellsEnd(t) <=> TellsEnd(s) \/ r.kind \in {"done", "completed", "usage"}
    BY <2>1, FrameAdded
  <2>4. s \o (<<r>> \o <<x>>) = t \o <<x>>
    <3>1. <<r>> \in Seq(Events) /\ <<x>> \in Seq(Events)
      BY <1>4, <2>1
    <3> QED
      BY <3>1, ConcatAssociative
  <2> HIDE DEF t
  <2>5. NotEnded(t) /\ ArgsFollow(t) /\ (TellsEnd(t) => TellsEnd(s)) /\ Named(t, "tool") = Named(s, "tool")
    BY <2>1, <2>2, <2>3 DEF Ends
  <2>6. \A kind \in Ends : Places(t, kind) # {} => Places(s, kind) # {}
    BY <2>1, <2>3 DEF Ends
  <2>7. api = "chat" => /\ RoleFirst(t)
                        /\ roleSent \/ e.kind \in {"content", "tool_start"} <=> Places(t, "role") # {}
    BY <1>4, <2>1, <2>3
  <2>8. Grown(s, t \o <<x>>, e, api, roleSent)
    BY <1>2, <1>4, <2>2, <2>3, <2>5, <2>6, <2>7
  <2> QED
    BY <1>4, <2>4, <2>8 DEF r
<1> QED
  BY <1>1, <1>3, <1>4 DEF WrittenAs

\* A client that reads has got no end, but for the response that is completed before the end of its stream.
LEMMA NoEndYet ==
  ASSUME NEW cl, NEW events, ReadingKept(cl, events), Places(cl.frames, "completed") = {}
  PROVE  NotEnded(cl.frames)
BY DEF ReadingKept, NotEnded, Ends, Places

\* The client takes an event from its channel and writes its frames.
LEMMA ClientWrites ==
  ASSUME NEW u, NEW o, NEW ch, NEW cl, StreamKeeps(u, o, ch, cl), cl.at = "reading", ch.events # <<>>,
         NEW e, e = Head(ch.events), NEW g, WrittenAs(e, g, cl.api, cl.roleSent),
         NEW d, DOMAIN d = DOMAIN cl, d.frames = cl.frames \o g, d.api = cl.api,
         d.roleSent = (cl.roleSent \/ e.kind \in {"content", "tool_start"}),
         NEW k, TypedChannel(k),
         IF e.kind \in {"done", "error"} THEN d.at = "over" /\ ~k.registered /\ k.events = <<>>
         ELSE d.at = "reading" /\ k.registered = ch.registered /\ k.events = Tail(ch.events)
  PROVE  StreamKeeps(u, o, k, d)
<1> DEFINE s == cl.frames
           f == s \o g
           q == ch.events
           t == Tail(q)
           known == Named(s, "tool")
<1>1. /\ TypedCall(u) /\ o \in Seq(Events) /\ TypedChannel(ch) /\ TypedClient(cl)
      /\ q \in Seq(Events) /\ s \in Seq(Events) /\ cl.roleSent \in BOOLEAN
      /\ FramesKept(u, cl) /\ u.service # "crynux" /\ EndKept(u, o, ch) /\ ReadingKept(cl, Coming(o, ch))
      /\ ch.registered => ToolsTold(u, cl, Coming(o, ch))
  BY DEF StreamKeeps, StreamTyped, TypedChannel, TypedClient
<1>2. /\ e \in Events /\ t \in Seq(Events) /\ <<e>> \in Seq(Events) /\ q = <<e>> \o t /\ 1 \in DOMAIN q /\ q[1] = e
      /\ \A i \in DOMAIN t : i + 1 \in DOMAIN q /\ t[i] = q[i + 1]
  BY <1>1, FirstEvent
<1> DEFINE rest == IF ch.registered THEN t \o o ELSE t
<1>3. rest \in Seq(Events) /\ Coming(o, ch) = <<e>> \o rest
  <2>1. \A x, y, z \in Seq(Events) : (x \o y) \o z = x \o (y \o z) /\ y \o z \in Seq(Events)
    BY ConcatAssociative, ConcatProperties
  <2> HIDE DEF t, q
  <2>2. Coming(o, ch) = IF ch.registered THEN (<<e>> \o t) \o o ELSE <<e>> \o t
    BY <1>2 DEF Coming, q
  <2> QED
    BY <1>1, <1>2, <2>1, <2>2
<1>4. /\ \A kind : Named(<<e>>, kind) = IF e.kind = kind THEN {e.index} ELSE {}
      /\ \A x : InOrder(<<e>>, x) <=> (e.kind \in {"tool_args", "tool_done"} => e.index \in x)
      /\ (OnlyDone(<<e>>) <=> e.kind = "done") /\ (NoEnd(<<e>>) <=> e.kind \notin EndKinds)
  BY <1>2, EventAlone
<1> HIDE DEF t, rest
<1>5. /\ InOrder(<<e>>, known) /\ InOrder(rest, known \cup Named(<<e>>, "tool_start"))
      /\ EndsLast(rest) /\ (NoEnd(<<e>>) \/ OnlyDone(rest))
      /\ Places(s, "completed") # {} => cl.api = "responses" /\ e.kind = "done" /\ OnlyDone(rest)
  <2>1. ReadingKept(cl, <<e>> \o rest)
    BY <1>1, <1>3
  <2>2. InOrder(<<e>> \o rest, known) /\ EndsLast(<<e>> \o rest)
        /\ (Places(s, "completed") # {} => cl.api = "responses" /\ OnlyDone(<<e>> \o rest))
    BY <2>1 DEF ReadingKept
  <2> HIDE DEF known, s
  <2>3. \A x, y \in Seq(Events) :
          /\ \A z : InOrder(x \o y, z) <=> InOrder(x, z) /\ InOrder(y, z \cup Named(x, "tool_start"))
          /\ EndsLast(x \o y) => EndsLast(x) /\ EndsLast(y) /\ (NoEnd(x) \/ OnlyDone(y))
          /\ OnlyDone(x \o y) <=> OnlyDone(x) /\ OnlyDone(y)
    BY EventConcats
  <2>4. OnlyDone(<<e>> \o rest) <=> OnlyDone(<<e>>) /\ OnlyDone(rest)
    BY <1>2, <1>3, <2>3
  <2>5. InOrder(<<e>>, known) /\ InOrder(rest, known \cup Named(<<e>>, "tool_start"))
    BY <1>2, <1>3, <2>2, <2>3
  <2>6. EndsLast(rest) /\ (NoEnd(<<e>>) \/ OnlyDone(rest))
    BY <1>2, <1>3, <2>2, <2>3
  <2> QED
    BY <1>4, <2>2, <2>4, <2>5, <2>6
<1>6. NotEnded(s) \/ (cl.api = "responses" /\ e.kind = "done")
  BY <1>1, <1>5, NoEndYet
<1>7. /\ cl.api = "chat" => RoleFirst(s) /\ (cl.roleSent <=> Places(s, "role") # {})
      /\ ArgsFollow(s) /\ EndIsLast(s) /\ Places(s, "error") = {} /\ Places(s, "done") = {}
  BY <1>1 DEF FramesKept, ReadingKept
<1>8. e.kind \in {"tool_args", "tool_done"} => e.index \in known
  BY <1>4, <1>5
<1> HIDE DEF s
<1>9. Grown(s, f, e, cl.api, cl.roleSent)
  BY <1>1, <1>2, <1>6, <1>7, <1>8, FramesGrow DEF s
<1> HIDE DEF f, known
<1>10. d.frames = f /\ f \in Seq(Events) /\ d.roleSent \in BOOLEAN
  BY <1>9 DEF f, s, Grown
<1>11. TypedClient(d)
  BY <1>1, <1>10 DEF TypedClient
<1>12. StreamTyped(u, o, k, d)
  BY <1>1, <1>11 DEF StreamTyped
<1>13. e.kind \in EndKinds => u.at = "settled"
  BY <1>1, <1>2 DEF EndKept
<1>14. FramesKept(u, d)
  <2>1. TellsEnd(s) => u.at = "settled"
    BY <1>1 DEF FramesKept, s
  <2> QED
    BY <1>9, <1>10, <1>13, <2>1 DEF FramesKept, Grown
<1>15. EndKept(u, o, k)
  <2>1. CASE k.events = <<>>
    <3>1. DOMAIN k.events = {}
      BY <2>1
    <3> QED
      BY <1>1, <3>1 DEF EndKept
  <2>2. CASE k.events = t
    BY <1>1, <1>2, <2>2 DEF EndKept
  <2> QED
    BY <2>1, <2>2 DEF t
<1>16. CASE e.kind \in {"done", "error"}
  BY <1>1, <1>12, <1>14, <1>15, <1>16 DEF StreamKeeps
<1>17. CASE e.kind \notin {"done", "error"}
  <2>1. Coming(o, k) = rest
    BY <1>17 DEF Coming, rest, t
  <2>2. Named(d.frames, "tool") = known \cup Named(<<e>>, "tool_start")
    BY <1>4, <1>9, <1>10 DEF Grown, known
  <2>3. ReadingKept(d, rest)
    <3>1. Places(f, "error") = {} /\ Places(f, "done") = {}
      BY <1>7, <1>9, <1>17 DEF Grown
    <3>2. Places(f, "completed") # {} => d.api = "responses" /\ OnlyDone(rest)
      <4>1. Places(f, "completed") # {} => Places(s, "completed") # {} \/ (cl.api = "responses" /\ e.kind = "final_usage")
        BY <1>9 DEF Grown
      <4>2. e.kind = "final_usage" => OnlyDone(rest)
        BY <1>4, <1>5 DEF EndKinds
      <4> QED
        BY <1>5, <4>1, <4>2
    <3>3. d.api = "chat" => (d.roleSent <=> Places(f, "role") # {})
      BY <1>9 DEF Grown
    <3> QED
      BY <1>5, <1>10, <2>2, <3>1, <3>2, <3>3 DEF ReadingKept
  <2>4. ASSUME k.registered PROVE ToolsTold(u, d, rest)
    <3>1. ToolsTold(u, cl, <<e>> \o rest)
      BY <1>1, <1>3, <1>17, <2>4
    <3>2. \A x, y \in Seq(Events) : Named(x \o y, "tool_start") = Named(x, "tool_start") \cup Named(y, "tool_start")
      BY EventConcats
    <3>3. Named(<<e>> \o rest, "tool_start") = Named(<<e>>, "tool_start") \cup Named(rest, "tool_start")
      BY <1>2, <1>3, <3>2
    <3> QED
      BY <2>2, <3>1, <3>3 DEF ToolsTold, known, s
  <2> QED
    BY <1>1, <1>12, <1>14, <1>15, <1>17, <2>1, <2>3, <2>4 DEF StreamKeeps
<1> QED
  BY <1>16, <1>17

-----------------------------------------------------------------------------
(* The steps of a stream. *)

\* The fields of a call.
LEMMA CallIs ==
  /\ DOMAIN NoCall = {"service", "at", "attempts", "chunks", "message"}
  /\ NoCall.service = "none" /\ NoCall.at = "none" /\ NoCall.message = NoMessage /\ TypedCall(NoCall)
<1>1. /\ DOMAIN NoCall = {"service", "at", "attempts", "chunks", "message"}
      /\ NoCall.service = "none" /\ NoCall.at = "none" /\ NoCall.message = NoMessage
  BY DEF NoCall
<1>2. NoMessage.text = <<>> /\ NoMessage.tools = <<>> /\ NoMessage.finish = ""
  BY DEF NoMessage
<1>3. <<>> \in Seq(Data) /\ <<>> \in Seq(ToolCalls) /\ "" \in Data
  BY EmptySeq DEF Data, Words
<1>4. TypedMessage(NoMessage)
  BY <1>2, <1>3 DEF TypedMessage
<1> QED
  BY <1>1, <1>4 DEF TypedCall

\* Without any event nothing is out of order.
LEMMA NothingSaid ==
  /\ <<>> \in Seq(Events) /\ EndsLast(<<>>) /\ OnlyDone(<<>>) /\ \A known : InOrder(<<>>, known)
  /\ \A kind : Places(<<>>, kind) = {} /\ Named(<<>>, kind) = {}
  /\ RoleFirst(<<>>) /\ ArgsFollow(<<>>) /\ EndIsLast(<<>>) /\ ~TellsEnd(<<>>)
<1>1. <<>> \in Seq(Events) /\ DOMAIN <<>> = {}
  BY EmptySeq
<1>2. \A kind : Places(<<>>, kind) = {}
  BY <1>1 DEF Places
<1>3. \A kind : Named(<<>>, kind) = {}
  BY <1>2 DEF Named
<1>4. EndsLast(<<>>) /\ OnlyDone(<<>>) /\ \A known : InOrder(<<>>, known)
  BY <1>1 DEF EndsLast, OnlyDone, InOrder
<1>5. RoleFirst(<<>>) /\ ArgsFollow(<<>>)
  BY <1>2 DEF RoleFirst, ArgsFollow
<1>6. EndIsLast(<<>>) /\ ~TellsEnd(<<>>)
  BY <1>1 DEF EndIsLast, TellsEnd
<1> QED
  BY <1>1, <1>2, <1>3, <1>4, <1>5, <1>6

\* Without any stream the invariant holds.
LEMMA StreamInvInit == StreamInit => StreamInv
<1> SUFFICES ASSUME StreamInit PROVE StreamKeeps(NoCall, <<>>, NoChannel, NoClient)
  BY DEF StreamInit, StreamInv
<1>1. NoChannel.events = <<>> /\ ~NoChannel.registered /\ ~NoChannel.open /\ TypedChannel(NoChannel)
  BY NothingSaid DEF NoChannel, TypedChannel
<1>2. NoClient.at = "none" /\ NoClient.frames = <<>> /\ TypedClient(NoClient)
  BY NothingSaid DEF NoClient, TypedClient
<1>3. StreamTyped(NoCall, <<>>, NoChannel, NoClient)
  BY <1>1, <1>2, CallIs, NothingSaid DEF StreamTyped
<1>4. FramesKept(NoCall, NoClient)
  BY <1>2, NothingSaid DEF FramesKept
<1>5. EndKept(NoCall, <<>>, NoChannel)
  <2>1. DOMAIN <<>> = {}
    OBVIOUS
  <2> QED
    BY <1>1, <2>1 DEF EndKept
<1> QED
  BY <1>1, <1>2, <1>3, <1>4, <1>5, CallIs DEF StreamKeeps

\* A stream that is opened has told nothing.
LEMMA StreamIsOpened ==
  ASSUME NEW service \in ServiceProviders, NEW api, NEW includeUsage, OpenStream(service, api, includeUsage)
  PROVE  StreamInv'
<1> DEFINE u == upstream'
           ch == channel'
           cl == client'
<1>1. u = [NoCall EXCEPT !.service = service, !.at = "queued"] /\ outbox' = <<>>
      /\ ch = [NoChannel EXCEPT !.registered = TRUE, !.open = TRUE]
      /\ cl = [NoClient EXCEPT !.at = "reading", !.api = api, !.includeUsage = includeUsage \/ api = "responses"]
  BY DEF OpenStream
<1>2. /\ DOMAIN u = DOMAIN NoCall /\ u.service = service /\ u.at = "queued" /\ u.message = NoMessage
      /\ service # "crynux"
  BY <1>1, CallIs DEF ServiceProviders
<1>3. ch.events = <<>> /\ ch.registered /\ TypedChannel(ch)
  BY <1>1, NothingSaid DEF NoChannel, TypedChannel
<1>4. cl.at = "reading" /\ cl.frames = <<>> /\ cl.roleSent = FALSE /\ TypedClient(cl)
  BY <1>1, NothingSaid DEF NoClient, TypedClient
<1> HIDE DEF u, ch, cl
<1>5. TypedCall(u)
  BY <1>2, CallIs DEF TypedCall
<1>6. StreamTyped(u, <<>>, ch, cl) /\ FramesKept(u, cl)
  BY <1>3, <1>4, <1>5, NothingSaid DEF StreamTyped, FramesKept
<1>7. EndKept(u, <<>>, ch)
  <2>1. DOMAIN <<>> = {}
    OBVIOUS
  <2> QED
    BY <1>3, <2>1 DEF EndKept
<1>8. Coming(<<>>, ch) = <<>>
  BY <1>3, ComingIs
<1>9. ToolsTold(u, cl, <<>>)
  <2>1. DOMAIN u.message.tools = {}
    <3>1. NoMessage.tools = <<>> /\ DOMAIN <<>> = {}
      BY DEF NoMessage
    <3> QED
      BY <1>2, <3>1
  <2> QED
    BY <2>1 DEF ToolsTold
<1>10. ReadingKept(cl, <<>>)
  BY <1>4, NothingSaid DEF ReadingKept
<1>11. StreamKeeps(u, <<>>, ch, cl)
  BY <1>2, <1>3, <1>4, <1>6, <1>7, <1>8, <1>9, <1>10 DEF StreamKeeps
<1> QED
  BY <1>1, <1>11 DEF StreamInv, u, ch, cl

\* What the end of a stream says: the calls are over, the reason, the usage, or an error.
EndEvents(n) ==
  /\ n \in Seq(Events) /\ EndsLast(n) /\ Named(n, "tool_start") = {} /\ Silent(n)
  /\ \A i \in DOMAIN n : n[i].kind # "done"

LEMMA EndIs ==
  ASSUME NEW m, TypedMessage(m), NEW service \in ServiceProviders
  PROVE  /\ EndEvents(EndOf(service, m).events) /\ InOrder(EndOf(service, m).events, DOMAIN m.tools)
         /\ EndOf(service, m).outcome \in {"confirmed", "failed"}
         /\ EndOf(service, m).outcome = "failed" =>
              \A i \in DOMAIN EndOf(service, m).events : EndOf(service, m).events[i].kind # "final_usage"
         /\ \A code \in Words : EndEvents(Failure(code).events) /\ InOrder(Failure(code).events, DOMAIN m.tools)
              /\ \A i \in DOMAIN Failure(code).events : Failure(code).events[i].kind # "final_usage"
<1> DEFINE Quiet(s) == /\ s \in Seq(Events)
                       /\ \A i \in DOMAIN s :
                            \/ s[i].kind \in {"finish", "error"}
                            \/ s[i].kind = "tool_done" /\ s[i].index \in DOMAIN m.tools
           Good(s) == EndEvents(s) /\ InOrder(s, DOMAIN m.tools)
           NoUsageIn(s) == \A i \in DOMAIN s : s[i].kind # "final_usage"
<1>1. ASSUME NEW s, Quiet(s) PROVE Good(s) /\ NoUsageIn(s) /\ NoEnd(s)
  <2>1. EndsLast(s) /\ NoEnd(s) /\ Silent(s) /\ NoUsageIn(s) /\ \A i \in DOMAIN s : s[i].kind # "done"
    BY <1>1 DEF EndsLast, NoEnd, EndKinds, Silent
  <2>2. Named(s, "tool_start") = {}
    BY <1>1 DEF Named, Places
  <2>3. InOrder(s, DOMAIN m.tools)
    BY <1>1 DEF InOrder
  <2> QED
    BY <1>1, <2>1, <2>2, <2>3 DEF EndEvents
<1>2. ASSUME NEW s, Quiet(s)
      PROVE  Good(Confirmed(s).events) /\ Confirmed(s).outcome = "confirmed"
  <2> DEFINE e == Event("final_usage", 0, <<>>)
             t == s \o <<e>>
  <2>1. e \in Events /\ e.kind = "final_usage"
    <3>1. "final_usage" \in Kinds /\ 0 \in Nat
      BY DEF Kinds
    <3> QED
      BY <3>1, BareFields
  <2>2. s \in Seq(Events) /\ Confirmed(s).events = Append(s, e) /\ Confirmed(s).outcome = "confirmed"
    BY <1>2 DEF Confirmed
  <2> HIDE DEF e
  <2>3. Append(s, e) = t
    BY <2>1, <2>2, AppendIsConcat
  <2>4. /\ <<e>> \in Seq(Events) /\ DOMAIN <<e>> = {1} /\ <<e>>[1] = e /\ EndsLast(<<e>>)
        /\ Named(<<e>>, "tool_start") = {} /\ \A known : InOrder(<<e>>, known)
    BY <2>1, EventAlone
  <2>5. Good(s) /\ NoEnd(s)
    BY <1>1, <1>2
  <2>6. /\ t \in Seq(Events) /\ EndsLast(t) /\ InOrder(t, DOMAIN m.tools)
        /\ Named(t, "tool_start") = Named(s, "tool_start") \cup Named(<<e>>, "tool_start")
    <3>1. /\ t \in Seq(Events)
          /\ \A kind : Named(t, kind) = Named(s, kind) \cup Named(<<e>>, kind)
          /\ \A known : InOrder(t, known) <=> InOrder(s, known) /\ InOrder(<<e>>, known \cup Named(s, "tool_start"))
          /\ EndsLast(s) /\ EndsLast(<<e>>) /\ (NoEnd(s) \/ OnlyDone(<<e>>)) => EndsLast(t)
      BY <2>2, <2>4, EventConcats
    <3>2. EndsLast(s) /\ InOrder(s, DOMAIN m.tools) /\ NoEnd(s)
      BY <2>5 DEF EndEvents
    <3> HIDE DEF t
    <3>3. EndsLast(t)
      BY <2>4, <3>1, <3>2
    <3>4. InOrder(t, DOMAIN m.tools)
      BY <2>4, <3>1, <3>2
    <3> QED
      BY <3>1, <3>3, <3>4
  <2>7. \A x, y \in Seq(Events) :
          /\ \A i \in DOMAIN (x \o y) : i \in DOMAIN x \/ \E j \in DOMAIN y : i = Len(x) + j
          /\ \A i \in DOMAIN x : (x \o y)[i] = x[i]
          /\ \A j \in DOMAIN y : (x \o y)[Len(x) + j] = y[j]
    BY ConcatPlaces
  <2>8. Silent(t) /\ \A i \in DOMAIN t : t[i].kind # "done"
    BY <2>1, <2>2, <2>4, <2>5, <2>7 DEF EndEvents, Silent
  <2> HIDE DEF t
  <2>9. Good(t)
    BY <2>4, <2>5, <2>6, <2>8 DEF EndEvents
  <2> QED
    BY <2>2, <2>3, <2>9
<1>3. ASSUME NEW code \in Words PROVE Quiet(Failure(code).events) /\ Failure(code).outcome = "failed"
  <2> DEFINE e == Event("error", 0, <<code>>)
  <2>1. "error" \in Kinds /\ 0 \in Nat /\ <<code>> \in Seq(Data)
    BY DEF Kinds, Data
  <2>2. e \in Events /\ e.kind = "error"
    <3>1. \A data \in Seq(Data) : Event("error", 0, data) \in Events /\ Event("error", 0, data).kind = "error"
      BY <2>1, FieldsOf
    <3> QED
      BY <2>1, <3>1
  <2>3. Failure(code).events = <<e>> /\ Failure(code).outcome = "failed"
    BY DEF Failure
  <2> HIDE DEF e
  <2>4. <<e>> \in Seq(Events) /\ DOMAIN <<e>> = {1} /\ <<e>>[1] = e
    BY <2>2
  <2> QED
    BY <2>2, <2>3, <2>4
<1>4. Quiet(<<>>)
  <2>1. DOMAIN <<>> = {} /\ <<>> \in Seq(Events)
    BY EmptySeq
  <2> QED
    BY <2>1
<1>5. \A reason \in Data : Quiet(Finished(reason))
  BY FinishedIs
<1>6. \A reason \in Data : Quiet(AllCompleted(m) \o Finished(reason))
  <2>1. \A x, y \in Seq(Events) :
          /\ x \o y \in Seq(Events)
          /\ \A i \in DOMAIN (x \o y) : i \in DOMAIN x \/ \E j \in DOMAIN y : i = Len(x) + j
          /\ \A i \in DOMAIN x : (x \o y)[i] = x[i]
          /\ \A j \in DOMAIN y : (x \o y)[Len(x) + j] = y[j]
    BY ConcatPlaces
  <2>2. /\ AllCompleted(m) \in Seq(Events)
        /\ \A j \in DOMAIN AllCompleted(m) :
             AllCompleted(m)[j].kind = "tool_done" /\ AllCompleted(m)[j].index \in DOMAIN m.tools
    BY AllCompletedIs
  <2>3. ASSUME NEW reason \in Data PROVE Quiet(AllCompleted(m) \o Finished(reason))
    <3>1. /\ Finished(reason) \in Seq(Events)
          /\ \A j \in DOMAIN Finished(reason) : Finished(reason)[j].kind = "finish"
      BY FinishedIs
    <3> QED
      BY <2>1, <2>2, <3>1
  <2> QED
    BY <2>3
<1>7. "stop" \in Data /\ m.finish \in Data /\ "usage_missing" \in Words
  BY DEF Data, Words, TypedMessage
<1> HIDE DEF Quiet
<1> DEFINE end == EndOf(service, m)
<1>8. \/ end = Failure("usage_missing")
      \/ \E s : Quiet(s) /\ end = Confirmed(s)
  <2>1. CASE service = "openai"
    BY <1>4, <2>1 DEF EndOf, OpenAIEnd
  <2>2. CASE service = "anthropic"
    BY <1>4, <1>5, <1>7, <2>2 DEF EndOf, AnthropicEnd
  <2>3. CASE service = "google"
    BY <1>6, <1>7, <2>3 DEF EndOf, GoogleEnd
  <2> QED
    BY <2>1, <2>2, <2>3 DEF ServiceProviders
<1> HIDE DEF end
<1>9. /\ Good(end.events) /\ end.outcome \in {"confirmed", "failed"}
      /\ end.outcome = "failed" => NoUsageIn(end.events)
  <2>1. CASE end = Failure("usage_missing")
    BY <1>1, <1>3, <1>7, <2>1
  <2>2. CASE \E s : Quiet(s) /\ end = Confirmed(s)
    BY <1>2, <2>2
  <2> QED
    BY <1>8, <2>1, <2>2
<1>10. \A code \in Words : Good(Failure(code).events) /\ NoUsageIn(Failure(code).events)
  BY <1>1, <1>3
<1> QED
  BY <1>9, <1>10 DEF end

\* The call goes on to another phase, with events that are still to be published.
LEMMA PhaseAdds ==
  ASSUME StreamInv, StreamKept, upstream.at \notin {"none", "settled"}, outbox = <<>>,
         NEW at, at # "none", NEW n \in Seq(Events), at = "queued" => n = <<>>,
         \A i \in DOMAIN n : /\ n[i].kind = "done" => at = "settled"
                             /\ n[i].kind = "final_usage" => at \in {"confirmed", "settled"},
         EndsLast(n), InOrder(n, DOMAIN upstream.message.tools)
  PROVE  StreamKeeps([upstream EXCEPT !.at = at], n, channel, client)
<1> DEFINE v == [upstream EXCEPT !.at = at]
<1>1. StreamKeeps(upstream, <<>>, channel, client) /\ TypedCall(upstream)
  BY DEF StreamInv, StreamKeeps, StreamTyped
<1>2. upstream.service # "crynux"
  BY DEF StreamKept, ServiceProviders
<1>3. DOMAIN upstream = {"service", "at", "attempts", "chunks", "message"} /\ TypedMessage(upstream.message)
  BY <1>1, CallIs DEF TypedCall
<1>4. DOMAIN v = DOMAIN upstream /\ v.service = upstream.service /\ v.message = upstream.message /\ v.at = at
  BY <1>3
<1> HIDE DEF v
<1>5. TypedCall(v) /\ v.at \in {"none", "queued"} => n = <<>>
  BY <1>1, <1>4 DEF TypedCall
<1>6. TypedCall(v)
  BY <1>1, <1>4 DEF TypedCall
<1>7. StreamKeeps(v, n, channel, client)
  BY <1>1, <1>2, <1>4, <1>5, <1>6, OutboxGrows
<1> QED
  BY <1>7 DEF v

\* What the settlement publishes.
LEMMA SettlementEvents ==
  LET n == <<Event("final_usage", 0, <<>>), Event("done", 0, <<>>)>>
  IN n \in Seq(Events) /\ EndsLast(n) /\ \A known : InOrder(n, known)
<1> DEFINE d == Event("final_usage", 0, <<>>)
           e == Event("done", 0, <<>>)
           n == <<d, e>>
<1>1. d \in Events /\ d.kind = "final_usage" /\ e \in Events /\ e.kind = "done"
  <2>1. "final_usage" \in Kinds /\ "done" \in Kinds /\ 0 \in Nat
    BY DEF Kinds
  <2> QED
    BY <2>1, BareFields
<1> HIDE DEF d, e
<1>2. n \in Seq(Events) /\ DOMAIN n = 1..2 /\ n[1] = d /\ n[2] = e
  BY <1>1
<1> HIDE DEF n
<1>3. EndsLast(n)
  BY <1>1, <1>2 DEF EndsLast
<1>4. \A known : InOrder(n, known)
  BY <1>1, <1>2 DEF InOrder
<1> QED
  BY <1>2, <1>3, <1>4 DEF n, d, e

\* The steps of the upstream call.
LEMMA UpstreamSteps ==
  ASSUME StreamInv, StreamKept,
         \/ StreamBegins \/ KeyIsSwitched \/ NoOtherKey \/ CallIsRefused
         \/ ReadChunk \/ EndStream \/ InterruptStream \/ SettleStream
  PROVE  StreamInv'
<1>1. /\ StreamKeeps(upstream, outbox, channel, client) /\ TypedCall(upstream) /\ TypedMessage(upstream.message)
      /\ DOMAIN upstream = {"service", "at", "attempts", "chunks", "message"}
  BY CallIs DEF StreamInv, StreamKeeps, StreamTyped, TypedCall
<1>2. upstream.at \notin {"none", "settled"} => upstream.service \in ServiceProviders /\ upstream.service # "crynux"
  BY DEF StreamKept, ServiceProviders
<1>3. upstream.at = "queued" => outbox = <<>>
  BY <1>1, <1>2 DEF StreamKeeps, EndKept
<1>4. DOMAIN <<>> = {} /\ <<>> \in Seq(Events) /\ EndsLast(<<>>) /\ \A known : InOrder(<<>>, known)
  BY NothingSaid
<1>5. CASE StreamBegins
  <2> DEFINE e == Event("created", 0, <<>>)
  <2>1. upstream.at = "queued" /\ At("reading") /\ outbox' = <<e>> /\ UNCHANGED <<channel, client>>
    BY <1>5 DEF StreamBegins
  <2>2. e \in Events /\ e.kind = "created"
    <3>1. "created" \in Kinds /\ 0 \in Nat
      BY DEF Kinds
    <3> QED
      BY <3>1, BareFields
  <2> HIDE DEF e
  <2>3. /\ <<e>> \in Seq(Events) /\ DOMAIN <<e>> = {1} /\ <<e>>[1] = e /\ EndsLast(<<e>>)
        /\ InOrder(<<e>>, DOMAIN upstream.message.tools)
    BY <2>2, EventAlone
  <2>4. StreamKeeps([upstream EXCEPT !.at = "reading"], <<e>>, channel, client)
    BY <1>3, <2>1, <2>2, <2>3, PhaseAdds
  <2> QED
    BY <2>1, <2>4 DEF At, StreamInv
<1>6. CASE KeyIsSwitched
  <2> DEFINE v == [upstream EXCEPT !.attempts = upstream.attempts + 1]
  <2>1. upstream.at = "queued" /\ upstream' = v /\ UNCHANGED <<outbox, channel, client>>
    BY <1>6 DEF KeyIsSwitched
  <2>2. /\ DOMAIN v = DOMAIN upstream /\ v.service = upstream.service /\ v.message = upstream.message
        /\ v.at = upstream.at
    BY <1>1
  <2> HIDE DEF v
  <2>3. TypedCall(v)
    BY <1>1, <2>2 DEF TypedCall
  <2>4. StreamKeeps(v, <<>>, channel, client)
    BY <1>1, <1>2, <1>3, <1>4, <2>1, <2>2, <2>3, OutboxGrows
  <2> QED
    BY <1>3, <2>1, <2>4 DEF StreamInv
<1>7. CASE NoOtherKey
  <2>1. upstream.at = "queued" /\ At("stranded") /\ UNCHANGED <<outbox, channel, client>>
    BY <1>7 DEF NoOtherKey
  <2>2. StreamKeeps([upstream EXCEPT !.at = "stranded"], <<>>, channel, client)
    BY <1>3, <1>4, <2>1, PhaseAdds
  <2> QED
    BY <1>3, <2>1, <2>2 DEF At, StreamInv
<1>8. CASE CallIsRefused
  <2>1. upstream.at = "queued" /\ At("failed") /\ channel' = Unregistered(channel) /\ UNCHANGED <<outbox, client>>
    BY <1>8 DEF CallIsRefused
  <2>2. StreamKeeps([upstream EXCEPT !.at = "failed"], <<>>, channel, client)
    BY <1>3, <1>4, <2>1, PhaseAdds
  <2>3. StreamKeeps([upstream EXCEPT !.at = "failed"], <<>>, Unregistered(channel), client)
    BY <2>2, ChannelCloses
  <2> QED
    BY <1>3, <2>1, <2>3 DEF At, StreamInv
<1>9. CASE ReadChunk
  <2>1. PICK c \in ChunksOf(upstream.service, upstream.message) :
          /\ upstream' = [upstream EXCEPT !.message = c.message, !.chunks = upstream.chunks + 1]
          /\ outbox' = c.events
    BY <1>9 DEF ReadChunk
  <2>2. upstream.at = "reading" /\ outbox = <<>> /\ UNCHANGED <<channel, client>>
    BY <1>9 DEF ReadChunk
  <2>3. Adds(upstream.message, c)
    BY <1>1, <1>2, <2>2, ChunksAdd
  <2>4. \A i \in DOMAIN c.events : c.events[i].kind \notin {"done", "final_usage"}
    BY <2>3 DEF Adds, ChunkKinds
  <2>5. EndsLast(c.events)
    BY <2>4 DEF EndsLast, EndKinds
  <2> DEFINE v == [upstream EXCEPT !.message = c.message, !.chunks = upstream.chunks + 1]
  <2>6. /\ DOMAIN v = DOMAIN upstream /\ v.service = upstream.service /\ v.message = c.message
        /\ v.at = upstream.at /\ upstream' = v
    BY <1>1, <2>1
  <2> HIDE DEF v
  <2>7. /\ TypedMessage(c.message) /\ c.events \in Seq(Events) /\ InOrder(c.events, DOMAIN upstream.message.tools)
        /\ DOMAIN c.message.tools \subseteq DOMAIN upstream.message.tools \cup Named(c.events, "tool_start")
    BY <2>3 DEF Adds
  <2>8. TypedCall(v)
    BY <1>1, <2>6, <2>7 DEF TypedCall
  <2>9. StreamKeeps(v, c.events, channel, client)
    BY <1>1, <1>2, <2>2, <2>4, <2>5, <2>6, <2>7, <2>8, OutboxGrows
  <2> QED
    BY <2>1, <2>2, <2>6, <2>9 DEF StreamInv
<1>10. CASE EndStream
  <2> DEFINE end == EndOf(upstream.service, upstream.message)
  <2>1. /\ upstream.at = "reading" /\ outbox = <<>> /\ upstream' = [upstream EXCEPT !.at = end.outcome]
        /\ outbox' = end.events /\ UNCHANGED <<channel, client>>
    BY <1>10 DEF EndStream
  <2>2. /\ EndEvents(end.events) /\ InOrder(end.events, DOMAIN upstream.message.tools)
        /\ end.outcome \in {"confirmed", "failed"}
        /\ end.outcome = "failed" => \A i \in DOMAIN end.events : end.events[i].kind # "final_usage"
    BY <1>1, <1>2, <2>1, EndIs
  <2> HIDE DEF end
  <2>3. /\ end.events \in Seq(Events) /\ EndsLast(end.events)
        /\ \A i \in DOMAIN end.events : /\ end.events[i].kind # "done"
                                        /\ end.events[i].kind = "final_usage" => end.outcome = "confirmed"
    BY <2>2 DEF EndEvents
  <2>4. StreamKeeps([upstream EXCEPT !.at = end.outcome], end.events, channel, client)
    BY <2>1, <2>2, <2>3, PhaseAdds
  <2> QED
    BY <2>1, <2>4 DEF StreamInv
<1>11. CASE InterruptStream
  <2>1. PICK code \in {"stream_interrupted", "provider_error"} : outbox' = Failure(code).events
    BY <1>11 DEF InterruptStream
  <2>2. upstream.at = "reading" /\ outbox = <<>> /\ At("failed") /\ UNCHANGED <<channel, client>>
    BY <1>11 DEF InterruptStream
  <2>3. code \in Words
    BY <2>1 DEF Words
  <2> DEFINE n == Failure(code).events
  <2>4. EndEvents(n) /\ InOrder(n, DOMAIN upstream.message.tools) /\ \A i \in DOMAIN n : n[i].kind # "final_usage"
    BY <1>1, <1>2, <2>2, <2>3, EndIs
  <2> HIDE DEF n
  <2>5. n \in Seq(Events) /\ EndsLast(n) /\ \A i \in DOMAIN n : n[i].kind # "done"
    BY <2>4 DEF EndEvents
  <2>6. StreamKeeps([upstream EXCEPT !.at = "failed"], n, channel, client)
    BY <2>2, <2>4, <2>5, PhaseAdds
  <2> QED
    BY <2>1, <2>2, <2>6 DEF StreamInv, At, n
<1>12. CASE SettleStream
  <2> DEFINE n == <<Event("final_usage", 0, <<>>), Event("done", 0, <<>>)>>
  <2>1. upstream.at = "confirmed" /\ outbox = <<>> /\ At("settled") /\ outbox' = n /\ UNCHANGED <<channel, client>>
    BY <1>12 DEF SettleStream
  <2>2. n \in Seq(Events) /\ EndsLast(n) /\ InOrder(n, DOMAIN upstream.message.tools)
    BY SettlementEvents
  <2> HIDE DEF n
  <2>3. StreamKeeps([upstream EXCEPT !.at = "settled"], n, channel, client)
    BY <2>1, <2>2, PhaseAdds
  <2> QED
    BY <2>1, <2>3 DEF StreamInv, At
<1> QED
  BY <1>5, <1>6, <1>7, <1>8, <1>9, <1>10, <1>11, <1>12

\* The steps of the runner and of the client.
LEMMA DeliverySteps ==
  ASSUME StreamInv, PublishNext \/ LeaveStream \/ WriteFrames \/ ChannelIsClosed \/ ClientLeaves
  PROVE  StreamInv'
<1>1. /\ StreamKeeps(upstream, outbox, channel, client) /\ TypedChannel(channel) /\ TypedClient(client)
      /\ outbox \in Seq(Events) /\ channel.events \in Seq(Events)
  BY DEF StreamInv, StreamKeeps, StreamTyped, TypedChannel
<1>2. CASE PublishNext
  <2>1. outbox # <<>> /\ outbox' = Tail(outbox) /\ UNCHANGED <<upstream, client>>
    BY <1>2 DEF PublishNext
  <2>2. CASE channel' = channel /\ (~channel.registered \/ Head(outbox).kind = "final_usage")
    BY <1>1, <2>1, <2>2, EventIsDropped DEF StreamInv
  <2>3. CASE /\ channel' = [channel EXCEPT !.events = Append(channel.events, Head(outbox))] /\ channel.registered
             /\ Head(outbox).kind # "final_usage" \/ upstream.at = "settled"
    BY <1>1, <2>1, <2>3, EventIsPublished DEF StreamInv
  <2>4. CASE channel' = Unregistered(channel)
    <3>1. StreamKeeps(upstream, outbox, Unregistered(channel), client) /\ ~Unregistered(channel).registered
      BY <1>1, ChannelCloses, UnregisteredIs
    <3>2. StreamKeeps(upstream, Tail(outbox), Unregistered(channel), client)
      BY <2>1, <3>1, EventIsDropped
    <3> QED
      BY <2>1, <2>4, <3>2 DEF StreamInv
  <2> QED
    BY <1>2, <2>2, <2>3, <2>4 DEF PublishNext, Publish, Forwarded
<1>3. CASE LeaveStream
  BY <1>1, <1>3, ChannelCloses DEF LeaveStream, StreamInv
<1>4. CASE WriteFrames
  <2> DEFINE e == Head(channel.events)
             last == e.kind \in {"done", "error"}
             g == IF client.api = "responses" THEN ResponsesFrames(e)
                  ELSE ChatFrames(e, client.roleSent, client.includeUsage)
             d == [client EXCEPT !.frames = client.frames \o g,
                                 !.roleSent = client.roleSent \/ e.kind \in {"content", "tool_start"},
                                 !.at = IF last THEN "over" ELSE client.at]
             k == IF last THEN [Unregistered(channel) EXCEPT !.events = <<>>]
                  ELSE [channel EXCEPT !.events = Tail(channel.events)]
  <2>1. /\ client.at = "reading" /\ channel.events # <<>> /\ client' = d /\ channel' = k
        /\ UNCHANGED <<upstream, outbox>>
    BY <1>4 DEF WriteFrames
  <2>2. e \in Events /\ Tail(channel.events) \in Seq(Events)
    BY <1>1, <2>1, FirstEvent
  <2>3. client.roleSent \in BOOLEAN /\ DOMAIN client = {"at", "api", "includeUsage", "roleSent", "frames"}
    BY <1>1 DEF TypedClient, NoClient
  <2>4. WrittenAs(e, g, client.api, client.roleSent)
    <3> HIDE DEF e
    <3>1. CASE client.api = "responses"
      BY <2>2, <2>3, <3>1, ResponsesWritten
    <3>2. CASE client.api # "responses"
      BY <2>2, <2>3, <3>2, ChatWritten
    <3> QED
      BY <3>1, <3>2
  <2>5. /\ TypedChannel(k)
        /\ last => ~k.registered /\ k.events = <<>>
        /\ ~last => k.registered = channel.registered /\ k.events = Tail(channel.events)
    <3>1. CASE last
      BY <1>1, <3>1, UnregisteredIs
    <3>2. CASE ~last
      <4>1. DOMAIN channel = {"events", "registered", "open"}
        BY <1>1 DEF TypedChannel, NoChannel
      <4>2. k = [channel EXCEPT !.events = Tail(channel.events)]
        BY <3>2
      <4> HIDE DEF k, e
      <4>3. DOMAIN k = DOMAIN channel /\ k.events = Tail(channel.events) /\ k.registered = channel.registered /\ k.open = channel.open
        BY <4>1, <4>2
      <4> QED
        BY <1>1, <2>2, <3>2, <4>3 DEF TypedChannel
    <3> QED
      BY <3>1, <3>2
  <2>6. /\ DOMAIN d = DOMAIN client /\ d.frames = client.frames \o g /\ d.api = client.api
        /\ d.roleSent = (client.roleSent \/ e.kind \in {"content", "tool_start"})
        /\ d.at = IF last THEN "over" ELSE "reading"
    <3> HIDE DEF e, g, last
    <3> QED
      BY <2>1, <2>3
  <2>7. IF e.kind \in {"done", "error"} THEN d.at = "over" /\ ~k.registered /\ k.events = <<>>
        ELSE d.at = "reading" /\ k.registered = channel.registered /\ k.events = Tail(channel.events)
    <3> HIDE DEF e, k, d
    <3> QED
      BY <2>5, <2>6
  <2>8. e = Head(channel.events)
    OBVIOUS
  <2> HIDE DEF e, g, d, k, last
  <2>9. StreamKeeps(upstream, outbox, k, d)
    BY <1>1, <2>1, <2>4, <2>5, <2>6, <2>7, <2>8, ClientWrites
  <2> QED
    BY <2>1, <2>9 DEF StreamInv
<1>5. CASE ChannelIsClosed
  <2>1. /\ channel.events = <<>> /\ ~channel.open /\ client' = [client EXCEPT !.at = "over"]
        /\ UNCHANGED <<upstream, outbox, channel>>
    BY <1>5 DEF ChannelIsClosed
  <2>2. ~channel.registered
    BY <1>1, <2>1 DEF TypedChannel
  <2>3. StreamKeeps(upstream, outbox, channel, [client EXCEPT !.at = "over"])
    BY <1>1, <2>1, <2>2, ClientStops
  <2> QED
    BY <2>1, <2>3 DEF StreamInv
<1>6. CASE ClientLeaves
  <2> DEFINE k == [Unregistered(channel) EXCEPT !.events = <<>>]
  <2>1. client' = [client EXCEPT !.at = "left"] /\ channel' = k /\ UNCHANGED <<upstream, outbox>>
    BY <1>6 DEF ClientLeaves
  <2>2. TypedChannel(k) /\ k.events = <<>> /\ ~k.registered
    BY <1>1, UnregisteredIs
  <2> HIDE DEF k
  <2>3. StreamKeeps(upstream, outbox, k, [client EXCEPT !.at = "left"])
    BY <1>1, <2>2, ClientStops
  <2> QED
    BY <2>1, <2>3 DEF StreamInv
<1> QED
  BY <1>2, <1>3, <1>4, <1>5, <1>6

\* Every step of a stream.
LEMMA StreamInvSteps ==
  ASSUME StreamInv, StreamKept, StreamNext \/ SettleStream
  PROVE  StreamInv'
BY UpstreamSteps, DeliverySteps DEF StreamNext

-----------------------------------------------------------------------------
(* Every step of a stream keeps what is told. *)

TellInv == TellKept(upstream, outbox, channel, client)

\* The chunk that is read continues the calls before it.
Continued == Continues(upstream.message, upstream'.message)

\* The events that are published about the call, and not about its message.
LEMMA CallIsSilent ==
  /\ <<Event("created", 0, <<>>)>> \in Seq(Events) /\ Silent(<<Event("created", 0, <<>>)>>)
  /\ <<Event("final_usage", 0, <<>>), Event("done", 0, <<>>)>> \in Seq(Events)
  /\ Silent(<<Event("final_usage", 0, <<>>), Event("done", 0, <<>>)>>)
<1> DEFINE c == Event("created", 0, <<>>)
           d == Event("final_usage", 0, <<>>)
           e == Event("done", 0, <<>>)
<1>1. /\ c \in Events /\ c.kind = "created" /\ d \in Events /\ d.kind = "final_usage"
      /\ e \in Events /\ e.kind = "done"
  <2>1. "created" \in Kinds /\ "final_usage" \in Kinds /\ "done" \in Kinds /\ 0 \in Nat
    BY DEF Kinds
  <2> QED
    BY <2>1, BareFields
<1> HIDE DEF c, d, e
<1>2. <<c>> \in Seq(Events) /\ DOMAIN <<c>> = {1} /\ <<c>>[1] = c
  BY <1>1
<1>3. <<d, e>> \in Seq(Events) /\ DOMAIN <<d, e>> = 1..2 /\ <<d, e>>[1] = d /\ <<d, e>>[2] = e
  BY <1>1
<1>4. Silent(<<c>>)
  BY <1>1, <1>2 DEF Silent
<1> DEFINE s == <<d, e>>
<1>5. DOMAIN s = 1..2 /\ s[1] = d /\ s[2] = e
  BY <1>3
<1> HIDE DEF s
<1>6. Silent(s)
  BY <1>1, <1>5 DEF Silent
<1> QED
  BY <1>2, <1>3, <1>4, <1>6 DEF c, d, e, s

\* The steps of the upstream call.
LEMMA UpstreamTells ==
  ASSUME StreamInv, StreamKept, TellInv, ReadChunk => Continued,
         \/ StreamBegins \/ KeyIsSwitched \/ NoOtherKey \/ CallIsRefused
         \/ ReadChunk \/ EndStream \/ InterruptStream \/ SettleStream
  PROVE  TellInv'
<1>1. /\ StreamKeeps(upstream, outbox, channel, client) /\ TypedCall(upstream) /\ TypedMessage(upstream.message)
      /\ DOMAIN upstream = {"service", "at", "attempts", "chunks", "message"}
      /\ TellKept(upstream, outbox, channel, client)
  BY CallIs DEF StreamInv, StreamKeeps, StreamTyped, TypedCall, TellInv
<1>2. upstream.at \notin {"none", "settled"} => upstream.service \in ServiceProviders /\ upstream.service # "crynux"
  BY DEF StreamKept, ServiceProviders
<1>3. upstream.at = "queued" => outbox = <<>>
  BY <1>1, <1>2 DEF StreamKeeps, EndKept
<1>4. ASSUME upstream.at \notin {"none", "settled"}, outbox = <<>>, NEW n \in Seq(Events), Silent(n), NEW at
      PROVE  TellKept([upstream EXCEPT !.at = at], n, channel, client)
  <2> DEFINE v == [upstream EXCEPT !.at = at]
  <2>1. v.service = upstream.service /\ v.message = upstream.message
    BY <1>1
  <2> HIDE DEF v
  <2>2. TellKept(v, n, channel, client)
    BY <1>1, <1>2, <1>4, <2>1, PhaseTells
  <2> QED
    BY <2>2 DEF v
<1>5. CASE StreamBegins
  <2>1. /\ upstream.at = "queued" /\ At("reading") /\ outbox' = <<Event("created", 0, <<>>)>>
        /\ UNCHANGED <<channel, client>>
    BY <1>5 DEF StreamBegins
  <2> DEFINE n == <<Event("created", 0, <<>>)>>
  <2>2. n \in Seq(Events) /\ Silent(n) /\ outbox' = n
    BY <2>1, CallIsSilent
  <2> HIDE DEF n
  <2>3. TellKept([upstream EXCEPT !.at = "reading"], n, channel, client)
    BY <1>3, <1>4, <2>1, <2>2
  <2> QED
    BY <2>1, <2>2, <2>3 DEF At, TellInv
<1>6. CASE KeyIsSwitched
  <2> DEFINE v == [upstream EXCEPT !.attempts = upstream.attempts + 1]
  <2>1. upstream.at = "queued" /\ upstream' = v /\ UNCHANGED <<outbox, channel, client>>
    BY <1>6 DEF KeyIsSwitched
  <2>2. v.service = upstream.service /\ v.message = upstream.message
    BY <1>1
  <2> HIDE DEF v
  <2>3. TellKept(v, <<>>, channel, client)
    BY <1>1, <1>2, <1>3, <2>1, <2>2, NothingIsSilent, PhaseTells
  <2> QED
    BY <1>3, <2>1, <2>3 DEF TellInv
<1>7. CASE NoOtherKey
  <2>1. upstream.at = "queued" /\ At("stranded") /\ UNCHANGED <<outbox, channel, client>>
    BY <1>7 DEF NoOtherKey
  <2>2. TellKept([upstream EXCEPT !.at = "stranded"], <<>>, channel, client)
    BY <1>3, <1>4, <2>1, NothingIsSilent
  <2> QED
    BY <1>3, <2>1, <2>2 DEF At, TellInv
<1>8. CASE CallIsRefused
  <2>1. upstream.at = "queued" /\ At("failed") /\ channel' = Unregistered(channel) /\ UNCHANGED <<outbox, client>>
    BY <1>8 DEF CallIsRefused
  <2>0. DOMAIN <<>> = {} /\ <<>> \in Seq(Events) /\ EndsLast(<<>>) /\ \A known : InOrder(<<>>, known)
    BY NothingSaid
  <2>2. StreamKeeps([upstream EXCEPT !.at = "failed"], <<>>, channel, client)
    BY <1>3, <2>0, <2>1, PhaseAdds
  <2>3. TellKept([upstream EXCEPT !.at = "failed"], <<>>, channel, client)
    BY <1>3, <1>4, <2>1, NothingIsSilent
  <2>4. TellKept([upstream EXCEPT !.at = "failed"], <<>>, Unregistered(channel), client)
    BY <2>2, <2>3, ChannelTells
  <2> QED
    BY <1>3, <2>1, <2>4 DEF At, TellInv
<1>9. CASE ReadChunk
  <2>1. PICK c \in ChunksOf(upstream.service, upstream.message) :
          /\ upstream' = [upstream EXCEPT !.message = c.message, !.chunks = upstream.chunks + 1]
          /\ outbox' = c.events
    BY <1>9 DEF ReadChunk
  <2>2. upstream.at = "reading" /\ outbox = <<>> /\ UNCHANGED <<channel, client>>
    BY <1>9 DEF ReadChunk
  <2>3. Adds(upstream.message, c)
    BY <1>1, <1>2, <2>2, ChunksAdd
  <2> DEFINE v == [upstream EXCEPT !.message = c.message, !.chunks = upstream.chunks + 1]
  <2>4. v.service = upstream.service /\ v.message = c.message /\ upstream' = v
    BY <1>1, <2>1
  <2> HIDE DEF v
  <2>5. Continues(upstream.message, c.message)
    BY <1>9, <2>4 DEF Continued
  <2>6. SaidIn(c.message) = Then(SaidIn(upstream.message), SaidBy(c.events)) /\ c.events \in Seq(Events)
    BY <1>1, <2>3, <2>5, ChunkSays DEF Adds
  <2>7. TellKept(v, c.events, channel, client)
    BY <1>1, <1>2, <2>2, <2>4, <2>6, OutboxTells
  <2> QED
    BY <2>1, <2>2, <2>4, <2>7 DEF TellInv
<1>10. CASE EndStream
  <2> DEFINE end == EndOf(upstream.service, upstream.message)
  <2>1. /\ upstream.at = "reading" /\ outbox = <<>> /\ upstream' = [upstream EXCEPT !.at = end.outcome]
        /\ outbox' = end.events /\ UNCHANGED <<channel, client>>
    BY <1>10 DEF EndStream
  <2>2. end.events \in Seq(Events) /\ Silent(end.events)
    BY <1>1, <1>2, <2>1, EndIs DEF EndEvents
  <2> HIDE DEF end
  <2>3. TellKept([upstream EXCEPT !.at = end.outcome], end.events, channel, client)
    BY <1>4, <2>1, <2>2
  <2> QED
    BY <2>1, <2>3 DEF TellInv
<1>11. CASE InterruptStream
  <2>1. PICK code \in {"stream_interrupted", "provider_error"} : outbox' = Failure(code).events
    BY <1>11 DEF InterruptStream
  <2>2. upstream.at = "reading" /\ outbox = <<>> /\ At("failed") /\ UNCHANGED <<channel, client>>
    BY <1>11 DEF InterruptStream
  <2>3. code \in Words
    BY <2>1 DEF Words
  <2> DEFINE n == Failure(code).events
  <2>4. n \in Seq(Events) /\ Silent(n)
    BY <1>1, <1>2, <2>2, <2>3, EndIs DEF EndEvents
  <2> HIDE DEF n
  <2>5. TellKept([upstream EXCEPT !.at = "failed"], n, channel, client)
    BY <1>4, <2>2, <2>4
  <2> QED
    BY <2>1, <2>2, <2>5 DEF TellInv, At, n
<1>12. CASE SettleStream
  <2> DEFINE n == <<Event("final_usage", 0, <<>>), Event("done", 0, <<>>)>>
  <2>1. upstream.at = "confirmed" /\ outbox = <<>> /\ At("settled") /\ outbox' = n /\ UNCHANGED <<channel, client>>
    BY <1>12 DEF SettleStream
  <2>2. n \in Seq(Events) /\ Silent(n)
    BY CallIsSilent
  <2> HIDE DEF n
  <2>3. TellKept([upstream EXCEPT !.at = "settled"], n, channel, client)
    BY <1>4, <2>1, <2>2
  <2> QED
    BY <2>1, <2>3 DEF TellInv, At
<1> QED
  BY <1>5, <1>6, <1>7, <1>8, <1>9, <1>10, <1>11, <1>12

\* The steps of the runner and of the client.
LEMMA DeliveryTells ==
  ASSUME StreamInv, TellInv, PublishNext \/ LeaveStream \/ WriteFrames \/ ChannelIsClosed \/ ClientLeaves
  PROVE  TellInv'
<1>1. /\ StreamKeeps(upstream, outbox, channel, client) /\ TypedChannel(channel) /\ TypedClient(client)
      /\ outbox \in Seq(Events) /\ channel.events \in Seq(Events)
      /\ TellKept(upstream, outbox, channel, client)
  BY DEF StreamInv, StreamKeeps, StreamTyped, TypedChannel, TellInv
<1>2. CASE PublishNext
  <2>1. outbox # <<>> /\ outbox' = Tail(outbox) /\ UNCHANGED <<upstream, client>>
    BY <1>2 DEF PublishNext
  <2>2. CASE channel' = channel /\ (~channel.registered \/ Head(outbox).kind = "final_usage")
    BY <1>1, <2>1, <2>2, DroppedTells DEF TellInv
  <2>3. CASE channel' = [channel EXCEPT !.events = Append(channel.events, Head(outbox))] /\ channel.registered
    BY <1>1, <2>1, <2>3, PublishedTells DEF TellInv
  <2>4. CASE channel' = Unregistered(channel)
    <3>1. /\ StreamKeeps(upstream, outbox, Unregistered(channel), client) /\ ~Unregistered(channel).registered
          /\ TellKept(upstream, outbox, Unregistered(channel), client)
      BY <1>1, ChannelCloses, ChannelTells, UnregisteredIs
    <3>2. TellKept(upstream, Tail(outbox), Unregistered(channel), client)
      BY <2>1, <3>1, DroppedTells
    <3> QED
      BY <2>1, <2>4, <3>2 DEF TellInv
  <2> QED
    BY <1>2, <2>2, <2>3, <2>4 DEF PublishNext, Publish, Forwarded
<1>3. CASE LeaveStream
  BY <1>1, <1>3, ChannelTells DEF LeaveStream, TellInv
<1>4. CASE WriteFrames
  <2> DEFINE e == Head(channel.events)
             last == e.kind \in {"done", "error"}
             g == IF client.api = "responses" THEN ResponsesFrames(e)
                  ELSE ChatFrames(e, client.roleSent, client.includeUsage)
             d == [client EXCEPT !.frames = client.frames \o g,
                                 !.roleSent = client.roleSent \/ e.kind \in {"content", "tool_start"},
                                 !.at = IF last THEN "over" ELSE client.at]
             k == IF last THEN [Unregistered(channel) EXCEPT !.events = <<>>]
                  ELSE [channel EXCEPT !.events = Tail(channel.events)]
  <2>1. /\ client.at = "reading" /\ channel.events # <<>> /\ client' = d /\ channel' = k
        /\ UNCHANGED <<upstream, outbox>>
    BY <1>4 DEF WriteFrames
  <2>2. e \in Events
    BY <1>1, <2>1, FirstEvent
  <2>3. client.roleSent \in BOOLEAN /\ DOMAIN client = {"at", "api", "includeUsage", "roleSent", "frames"}
    BY <1>1 DEF TypedClient, NoClient
  <2>4. WrittenAs(e, g, client.api, client.roleSent)
    <3> HIDE DEF e
    <3>1. CASE client.api = "responses"
      BY <2>2, <2>3, <3>1, ResponsesWritten
    <3>2. CASE client.api # "responses"
      BY <2>2, <2>3, <3>2, ChatWritten
    <3> QED
      BY <3>1, <3>2
  <2>5. /\ last => ~k.registered /\ k.events = <<>>
        /\ ~last => k.registered = channel.registered /\ k.events = Tail(channel.events)
    <3>1. CASE last
      BY <1>1, <3>1, UnregisteredIs
    <3>2. CASE ~last
      <4>1. DOMAIN channel = {"events", "registered", "open"}
        BY <1>1 DEF TypedChannel, NoChannel
      <4>2. k = [channel EXCEPT !.events = Tail(channel.events)]
        BY <3>2
      <4> HIDE DEF k, e
      <4>3. k.events = Tail(channel.events) /\ k.registered = channel.registered
        BY <4>1, <4>2
      <4> QED
        BY <3>2, <4>3
    <3> QED
      BY <3>1, <3>2
  <2>6. d.frames = client.frames \o g /\ d.at = IF last THEN "over" ELSE "reading"
    <3> HIDE DEF e, g, last
    <3> QED
      BY <2>1, <2>3
  <2>7. IF e.kind \in {"done", "error"} THEN d.at = "over" /\ ~k.registered /\ k.events = <<>>
        ELSE d.at = "reading" /\ k.registered = channel.registered /\ k.events = Tail(channel.events)
    <3> HIDE DEF e, k, d
    <3> QED
      BY <2>5, <2>6
  <2>8. e = Head(channel.events)
    OBVIOUS
  <2> HIDE DEF e, g, d, k, last
  <2>9. TellKept(upstream, outbox, k, d)
    BY <1>1, <2>1, <2>4, <2>6, <2>7, <2>8, WritingTells
  <2> QED
    BY <2>1, <2>9 DEF TellInv
<1>5. CASE ChannelIsClosed
  <2> DEFINE d == [client EXCEPT !.at = "over"]
  <2>1. ~channel.open /\ client' = d /\ UNCHANGED <<upstream, outbox, channel>>
    BY <1>5 DEF ChannelIsClosed
  <2>2. ~channel.registered
    BY <1>1, <2>1 DEF TypedChannel
  <2>3. d.frames = client.frames /\ d.at # "reading"
    BY <1>1 DEF TypedClient, NoClient
  <2> HIDE DEF d
  <2>4. TellKept(upstream, outbox, channel, d)
    BY <1>1, <2>2, <2>3, StoppedTells
  <2> QED
    BY <2>1, <2>4 DEF TellInv
<1>6. CASE ClientLeaves
  <2> DEFINE k == [Unregistered(channel) EXCEPT !.events = <<>>]
             d == [client EXCEPT !.at = "left"]
  <2>1. client' = d /\ channel' = k /\ UNCHANGED <<upstream, outbox>>
    BY <1>6 DEF ClientLeaves
  <2>2. ~k.registered
    BY <1>1, UnregisteredIs
  <2>3. d.frames = client.frames /\ d.at # "reading"
    BY <1>1 DEF TypedClient, NoClient
  <2> HIDE DEF k, d
  <2>4. TellKept(upstream, outbox, k, d)
    BY <1>1, <2>2, <2>3, StoppedTells
  <2> QED
    BY <2>1, <2>4 DEF TellInv
<1> QED
  BY <1>2, <1>3, <1>4, <1>5, <1>6

\* Every step of a stream.
LEMMA TellSteps ==
  ASSUME StreamInv, StreamKept, TellInv, ReadChunk => Continued, StreamNext \/ SettleStream
  PROVE  TellInv'
BY UpstreamTells, DeliveryTells DEF StreamNext

\* Without any stream nothing is told, and a stream that is opened has told nothing.
LEMMA NothingTold ==
  /\ StreamInit => TellInv
  /\ \A service, api, includeUsage : OpenStream(service, api, includeUsage) => TellInv'
<1> DEFINE Fresh(u, ch, cl) == u.message = NoMessage /\ ch.events = <<>> /\ cl.frames = <<>>
<1>1. ASSUME NEW u, NEW ch, NEW cl, Fresh(u, ch, cl) PROVE TellKept(u, <<>>, ch, cl)
  <2>1. SaidIn(NoMessage) = Silence
    <3>1. TypedMessage(NoMessage) /\ NoMessage.text = <<>> /\ NoMessage.tools = <<>>
      BY CallIs DEF TypedCall, NoMessage
    <3>2. /\ SaidIn(NoMessage).text = <<>> /\ SaidIn(NoMessage).tools = 0 /\ SaidIn(NoMessage) \in Sayings
          /\ \A i \in Nat : SaidIn(NoMessage).args[i] = <<>>
      <4>1. Len(<<>>) = 0 /\ DOMAIN <<>> = {}
        OBVIOUS
      <4>2. \A i \in Nat : ArgsOf(NoMessage, i) = <<>>
        BY <3>1, <4>1 DEF ArgsOf
      <4> QED
        BY <3>1, <4>1, <4>2, MessageSays
    <3>3. /\ Silence \in Sayings /\ Silence.text = <<>> /\ Silence.tools = 0
          /\ \A i \in Nat : Silence.args[i] = <<>>
      <4>1. Silence \in Sayings
        BY ThenLaws
      <4> QED
        BY <4>1 DEF Silence
    <3> QED
      BY <3>2, <3>3, SameSaying
  <2>2. Then(ToldBy(<<>>), SaidBy(<<>>)) = Silence
    BY NothingSays, ThenLaws
  <2>3. Tell(<<>>, <<>>, NoMessage)
    BY <2>1, <2>2 DEF Tell
  <2>4. Coming(<<>>, ch) = <<>>
    BY <1>1, ConcatEmptySeq, EmptySeq DEF Coming
  <2> QED
    BY <1>1, <2>3, <2>4 DEF TellKept
<1>2. Fresh(NoCall, NoChannel, NoClient)
  BY CallIs DEF NoChannel, NoClient
<1>3. ASSUME NEW service, NEW api, NEW includeUsage, OpenStream(service, api, includeUsage)
      PROVE  outbox' = <<>> /\ Fresh(upstream', channel', client')
  BY <1>3, CallIs DEF OpenStream, NoChannel, NoClient
<1>4. StreamInit => TellInv
  BY <1>1, <1>2 DEF StreamInit, TellInv
<1> HIDE DEF Fresh
<1>5. ASSUME NEW service, NEW api, NEW includeUsage, OpenStream(service, api, includeUsage) PROVE TellInv'
  BY <1>1, <1>3, <1>5 DEF TellInv
<1> QED
  BY <1>4, <1>5

-----------------------------------------------------------------------------
(* The stream that is simulated from the result of a Crynux job. *)

Calls == [name : Data, args : Seq(Data)]

\* Sequences over a set are sequences over a larger one.
LEMMA SequencesGrow ==
  ASSUME NEW S, NEW T, S \subseteq T
  PROVE  Seq(S) \subseteq Seq(T)
<1> SUFFICES ASSUME NEW s \in Seq(S) PROVE s \in Seq(T)
  OBVIOUS
<1>1. Len(s) \in Nat /\ s \in [1..Len(s) -> S]
  BY LenProperties
<1>2. s \in [1..Len(s) -> T]
  BY <1>1
<1> QED
  BY <1>1, <1>2

\* A function on 1..n is a sequence.
LEMMA FunctionIsSequence ==
  ASSUME NEW S, NEW n \in Nat, NEW f \in [1..n -> S]
  PROVE  f \in Seq(S)
OBVIOUS

\* What is closed under concatenation is closed under flattening.
LEMMA FlattenKeeps ==
  ASSUME NEW S, NEW P, P \subseteq Seq(S), <<>> \in P, \A x, y \in P : x \o y \in P
  PROVE  \A A \in Seq(P) : FlattenSeq(A) \in P
<1> DEFINE T == {A \in Seq(P) : FlattenSeq(A) \in P}
<1>1. Seq(P) \subseteq Seq(Seq(S))
  BY SequencesGrow
<1>2. <<>> \in T
  BY FlattenEmpty, EmptySeq
<1>3. ASSUME NEW A \in Seq(P) \cap T, NEW x \in P PROVE Append(A, x) \in T
  <2>1. FlattenSeq(Append(A, x)) = FlattenSeq(A) \o x
    BY <1>1, FlattenTyped
  <2> QED
    BY <2>1, AppendProperties
<1> HIDE DEF T
<1>4. Seq(P) \subseteq T
  BY <1>2, <1>3, AllSequences
<1> QED
  BY <1>4 DEF T

\* Strings, and the texts made of them, are data.
LEMMA StringsAreData ==
  /\ STRING \subseteq Data /\ Words \subseteq Data /\ Seq(STRING) \subseteq Seq(Data)
  /\ [name : STRING, args : Seq(STRING)] \subseteq Calls
<1>1. STRING \subseteq Data /\ Words \subseteq Data
  BY DEF Data
<1>2. Seq(STRING) \subseteq Seq(Data)
  BY <1>1, SequencesGrow
<1> QED
  BY <1>1, <1>2 DEF Calls

\* The segments of a content.
LEMMA SegmentsAre ==
  ASSUME NEW content \in Seq(Segments)
  PROVE  /\ Len(content) \in Nat /\ DOMAIN content = 1..Len(content)
         /\ \A i \in DOMAIN content : content[i].data \in Seq(Data) /\ content[i].calls \in Seq(Calls)
<1>1. Len(content) \in Nat /\ DOMAIN content = 1..Len(content) /\ \A i \in DOMAIN content : content[i] \in Segments
  BY LenProperties, ElementOfSeq
<1>2. Seq([name : STRING, args : Seq(STRING)]) \subseteq Seq(Calls)
  BY StringsAreData, SequencesGrow
<1>3. \A g \in Segments : g.data \in Seq(STRING) /\ g.calls \in Seq([name : STRING, args : Seq(STRING)])
  BY DEF Segments
<1> QED
  BY <1>1, <1>2, <1>3, StringsAreData

\* The text of a content is a text, whatever is taken out of it, and its calls are calls.
LEMMA ContentTyped ==
  ASSUME NEW content \in Seq(Segments), NEW taken, NEW tools
  PROVE  TextOf(content, taken) \in Seq(Data) /\ CallsOf(content, taken, tools) \in Seq(Calls)
<1>1. /\ Len(content) \in Nat /\ DOMAIN content = 1..Len(content)
      /\ \A i \in DOMAIN content : content[i].data \in Seq(Data) /\ content[i].calls \in Seq(Calls)
  BY SegmentsAre
<1>2. TextOf(content, taken) \in Seq(Data)
  <2> DEFINE A == [i \in DOMAIN content |-> IF i \in taken THEN <<>> ELSE content[i].data]
             D == Seq(Data)
  <2>1. <<>> \in D /\ \A i \in DOMAIN content : content[i].data \in D
    BY <1>1, EmptySeq
  <2> HIDE DEF D
  <2>2. A \in [1..Len(content) -> D]
    BY <1>1, <2>1
  <2> HIDE DEF A
  <2>3. A \in Seq(D)
    BY <1>1, <2>2, FunctionIsSequence
  <2> QED
    BY <2>3, FlattenTyped DEF TextOf, A, D
<1>3. \A calls \in Seq(Calls) : Declared(calls, tools) \in Seq(Calls)
  <2> SUFFICES ASSUME NEW calls \in Seq(Calls) PROVE Declared(calls, tools) \in Seq(Calls)
    OBVIOUS
  <2> DEFINE A == [i \in DOMAIN calls |-> IF calls[i].name \in tools.declared THEN <<calls[i]>> ELSE <<>>]
             C == Seq(Calls)
  <2>1. Len(calls) \in Nat /\ DOMAIN calls = 1..Len(calls) /\ \A i \in DOMAIN calls : calls[i] \in Calls
    BY LenProperties, ElementOfSeq
  <2>2. <<>> \in C /\ \A i \in DOMAIN calls : <<calls[i]>> \in C
    BY <2>1, EmptySeq
  <2> HIDE DEF C
  <2>3. A \in [1..Len(calls) -> C]
    BY <2>1, <2>2
  <2> HIDE DEF A
  <2>4. A \in Seq(C)
    BY <2>1, <2>3, FunctionIsSequence
  <2> QED
    BY <2>4, FlattenTyped DEF Declared, A, C
<1>4. CallsOf(content, taken, tools) \in Seq(Calls)
  <2> DEFINE A == [i \in DOMAIN content |-> IF i \in taken THEN Declared(content[i].calls, tools) ELSE <<>>]
             C == Seq(Calls)
  <2>1. <<>> \in C /\ \A i \in DOMAIN content : Declared(content[i].calls, tools) \in C
    BY <1>1, <1>3, EmptySeq
  <2> HIDE DEF C
  <2>2. A \in [1..Len(content) -> C]
    BY <1>1, <2>1
  <2> HIDE DEF A
  <2>3. A \in Seq(C)
    BY <1>1, <2>2, FunctionIsSequence
  <2> QED
    BY <2>3, FlattenTyped DEF CallsOf, A, C
<1> QED
  BY <1>2, <1>4

\* The result of an answer: a text, calls and a finish reason.
TypedResult(r) == r.text \in Seq(Data) /\ r.calls \in Seq(Calls) /\ r.finish \in Data

LEMMA ThinkingStripped ==
  ASSUME NEW content \in Seq(Segments)
  PROVE  StripThinking(content) \in Seq(Segments)
<1> DEFINE ends == {i \in DOMAIN content : content[i].kind = "endthink"}
<1>1. Len(content) \in Nat /\ DOMAIN content = 1..Len(content) /\ \A i \in DOMAIN content : content[i] \in Segments
  BY LenProperties, ElementOfSeq
<1>2. ends \in SUBSET Nat /\ ends \subseteq DOMAIN content
  BY <1>1
<1>3. StripThinking(content) = IF ends = {} THEN content ELSE SubSeq(content, Min(ends) + 1, Len(content))
  BY DEF StripThinking
<1> HIDE DEF ends
<1>4. CASE ends # {}
  <2>1. Min(ends) \in 1..Len(content)
    BY <1>1, <1>2, <1>4, LeastIsMin
  <2> DEFINE m == Min(ends) + 1
             n == Len(content)
  <2>2. m \in Int /\ n \in Int /\ \A i \in m..n : content[i] \in Segments
    BY <1>1, <2>1
  <2> HIDE DEF m, n
  <2>3. SubSeq(content, m, n) \in Seq(Segments)
    BY <2>2, SubSeqProperties
  <2> QED
    BY <1>3, <1>4, <2>3 DEF m, n
<1> QED
  BY <1>3, <1>4

LEMMA AssistantContentTyped ==
  ASSUME NEW content \in Seq(Segments), NEW tools, tools.choice \in Data
  PROVE  /\ NormalizeAssistantContentForTask(content, tools).text \in Seq(Data)
         /\ NormalizeAssistantContentForTask(content, tools).calls \in Seq(Calls)
<1> DEFINE found == IF MayParse(tools) THEN Found(content) ELSE {}
           calls == CallsOf(content, found, tools)
           n == NormalizeAssistantContentForTask(content, tools)
           bare == [name |-> tools.choice, args |-> content[1].data]
<1>1. \/ n.text = TextOf(content, Removed(content, found, tools) \cup Unwrapped(content)) /\ n.calls = calls
      \/ IsBareObject(content, tools) /\ n.text = <<>> /\ n.calls = <<bare>>
      \/ n.text = TextOf(content, {}) /\ n.calls = <<>>
  BY DEF NormalizeAssistantContentForTask
<1>2. /\ \A taken : TextOf(content, taken) \in Seq(Data)
      /\ calls \in Seq(Calls) /\ <<>> \in Seq(Data) /\ <<>> \in Seq(Calls)
  BY ContentTyped, EmptySeq
<1>3. IsBareObject(content, tools) => <<bare>> \in Seq(Calls)
  <2> SUFFICES ASSUME IsBareObject(content, tools) PROVE bare \in Calls
    OBVIOUS
  <2>1. 1 \in DOMAIN content
    BY SegmentsAre DEF IsBareObject
  <2>2. content[1].data \in Seq(Data)
    BY <2>1, SegmentsAre
  <2> QED
    BY <2>2 DEF Calls
<1> HIDE DEF found, calls, bare, n
<1> QED
  BY <1>1, <1>2, <1>3 DEF n

\* An answer that a node may give, or none.
IsAnswer(a) == a \in Answers \cup {NoAnswer}

LEMMA ResultTyped ==
  ASSUME NEW answer, IsAnswer(answer), NEW ask, ask.tools.choice \in Data
  PROVE  TypedResult(ResultOf(answer, ask))
<1>1. answer.content \in Seq(Segments) /\ answer.finish \in Words
  <2>1. <<>> \in Seq(Segments)
    BY EmptySeq
  <2>2. NoAnswer.content = <<>> /\ NoAnswer.finish = ""
    BY DEF NoAnswer
  <2>3. \A a \in Answers : a.content \in Seq(Segments) /\ a.finish \in {"", "stop", "length"}
    BY AnswersAssumption
  <2> QED
    BY <2>1, <2>2, <2>3 DEF IsAnswer, Words
<1>2. \A reason \in Words : \A completion, cap : CorrectedFinish(reason, completion, cap) \in Data
  BY StringsAreData DEF CorrectedFinish, Words
<1>3. FinishOf(answer) \in Words /\ "tool_calls" \in Words /\ "" \in Words
  BY <1>1 DEF FinishOf, Words
<1> DEFINE n == NormalizeAssistantContentForTask(answer.content, ask.tools)
<1>4. n.text \in Seq(Data) /\ n.calls \in Seq(Calls)
  BY <1>1, AssistantContentTyped
<1> HIDE DEF n
<1>5. TypedResult(ChatResult(answer, ask))
  <2> DEFINE finish == IF n.calls # <<>> THEN "tool_calls" ELSE FinishOf(answer)
  <2>1. finish \in Words
    BY <1>3
  <2>2. ChatResult(answer, ask) =
          [text |-> n.text, calls |-> n.calls, finish |-> CorrectedFinish(finish, answer.completion, ask.completion)]
    BY DEF ChatResult, n
  <2> HIDE DEF finish
  <2> QED
    BY <1>2, <1>4, <2>1, <2>2 DEF TypedResult
<1>6. TypedResult(CompletionsResult(answer, ask))
  <2>1. TextOf(StripThinking(answer.content), {}) \in Seq(Data) /\ <<>> \in Seq(Calls)
    BY <1>1, ThinkingStripped, ContentTyped, EmptySeq
  <2> QED
    BY <1>2, <1>3, <2>1 DEF TypedResult, CompletionsResult
<1>7. TypedResult(ResponsesResult(answer, ask))
  <2> DEFINE r == ResponsesResult(answer, ask)
  <2>1. r.text = n.text /\ r.calls = n.calls /\ r.finish = ""
    BY DEF ResponsesResult, n
  <2>2. "" \in Data
    BY <1>3, StringsAreData
  <2> HIDE DEF r
  <2>3. r.finish \in Data
    BY <2>1, <2>2
  <2>4. TypedResult(r)
    BY <1>4, <2>1, <2>3 DEF TypedResult
  <2> QED
    BY <2>4 DEF r
<1> QED
  BY <1>5, <1>6, <1>7 DEF ResultOf

-----------------------------------------------------------------------------
(* The frames of a simulated stream. *)

\* Frames between the role and the end.
BodyKinds == {"text", "tool", "args", "finish", "usage"}
Body == {s \in Seq(Events) : ArgsFollow(s) /\ \A i \in DOMAIN s : s[i].kind \in BodyKinds}

\* Frames, with the role first.
Begun(s) ==
  /\ s \in Seq(Events) /\ ArgsFollow(s) /\ RoleFirst(s)
  /\ \A i \in DOMAIN s : s[i].kind \in BodyKinds \cup {"role"}
  /\ 1 \in DOMAIN s /\ s[1].kind = "role"

\* Arguments still follow their tool when more frames follow.
LEMMA ArgsConcat ==
  ASSUME NEW s \in Seq(Events), NEW t \in Seq(Events), ArgsFollow(s), ArgsFollow(t)
  PROVE  ArgsFollow(s \o t)
<1> DEFINE c == s \o t
           n == Len(s)
           Kind == {"args", "args_done"}
<1>1. /\ c \in Seq(Events) /\ Len(s) \in Nat /\ Len(t) \in Nat /\ DOMAIN s = 1..n /\ DOMAIN t = 1..Len(t)
      /\ \A i \in DOMAIN s : i \in DOMAIN c /\ c[i] = s[i]
      /\ \A j \in DOMAIN t : n + j \in DOMAIN c /\ c[n + j] = t[j]
      /\ \A i \in DOMAIN c : i \in DOMAIN s \/ \E j \in DOMAIN t : i = n + j
  BY ConcatPlaces
<1> HIDE DEF c
<1> SUFFICES ASSUME NEW i \in DOMAIN c, c[i].kind \in Kind
             PROVE  \E j \in DOMAIN c : c[j].kind = "tool" /\ j < i /\ c[j].index = c[i].index
  BY DEF ArgsFollow, Places, c
<1>2. CASE i \in DOMAIN s
  <2>1. PICK j \in DOMAIN s : s[j].kind = "tool" /\ j < i /\ s[j].index = s[i].index
    BY <1>1, <1>2 DEF ArgsFollow, Places
  <2> QED
    BY <1>1, <1>2, <2>1
<1>3. CASE \E k \in DOMAIN t : i = n + k
  <2>1. PICK k \in DOMAIN t : i = n + k
    BY <1>3
  <2>2. c[i] = t[k]
    BY <1>1, <2>1
  <2>3. PICK j \in DOMAIN t : t[j].kind = "tool" /\ j < k /\ t[j].index = t[k].index
    BY <2>1, <2>2 DEF ArgsFollow, Places
  <2>4. n + j \in DOMAIN c /\ c[n + j] = t[j] /\ n + j < i
    BY <1>1, <2>1, <2>3
  <2> QED
    BY <2>2, <2>3, <2>4
<1> QED
  BY <1>1, <1>2, <1>3

\* More of the same.
LEMMA BodyConcat ==
  /\ \A s, t \in Body : s \o t \in Body
  /\ <<>> \in Body
<1>1. ASSUME NEW s \in Body, NEW t \in Body PROVE s \o t \in Body
  <2>1. s \in Seq(Events) /\ t \in Seq(Events) /\ ArgsFollow(s) /\ ArgsFollow(t)
    BY DEF Body
  <2>2. ArgsFollow(s \o t)
    BY <2>1, ArgsConcat
  <2>3. /\ s \o t \in Seq(Events)
        /\ \A i \in DOMAIN (s \o t) : i \in DOMAIN s \/ \E j \in DOMAIN t : i = Len(s) + j
        /\ \A i \in DOMAIN s : (s \o t)[i] = s[i]
        /\ \A j \in DOMAIN t : (s \o t)[Len(s) + j] = t[j]
    BY <2>1, ConcatPlaces
  <2>4. \A i \in DOMAIN (s \o t) : (s \o t)[i].kind \in BodyKinds
    BY <2>3 DEF Body
  <2> QED
    BY <2>2, <2>3, <2>4 DEF Body
<1>2. <<>> \in Body
  <2>1. <<>> \in Seq(Events) /\ ArgsFollow(<<>>) /\ DOMAIN <<>> = {}
    BY NothingSaid
  <2> QED
    BY <2>1 DEF Body
<1> QED
  BY <1>1, <1>2

\* A frame that is no argument.
LEMMA FrameIsBody ==
  ASSUME NEW e \in Events, e.kind \in BodyKinds \ {"args"}
  PROVE  <<e>> \in Body
<1>1. <<e>> \in Seq(Events) /\ DOMAIN <<e>> = {1} /\ <<e>>[1] = e
  BY EventAlone
<1>2. ArgsFollow(<<e>>)
  BY <1>1 DEF ArgsFollow, Places, BodyKinds
<1> QED
  BY <1>1, <1>2 DEF Body

\* The role first, and more.
LEMMA BegunConcat ==
  ASSUME NEW s, Begun(s), NEW t \in Body
  PROVE  Begun(s \o t)
<1> DEFINE c == s \o t
           n == Len(s)
<1>1. s \in Seq(Events) /\ t \in Seq(Events) /\ ArgsFollow(s) /\ ArgsFollow(t)
  BY DEF Begun, Body
<1>2. ArgsFollow(c)
  BY <1>1, ArgsConcat
<1>3. /\ c \in Seq(Events) /\ n \in Nat /\ DOMAIN s = 1..n /\ DOMAIN t = 1..Len(t) /\ Len(t) \in Nat
      /\ \A i \in DOMAIN s : i \in DOMAIN c /\ c[i] = s[i]
      /\ \A j \in DOMAIN t : n + j \in DOMAIN c /\ c[n + j] = t[j]
      /\ \A i \in DOMAIN c : i \in DOMAIN s \/ \E j \in DOMAIN t : i = n + j
  BY <1>1, ConcatPlaces
<1>4. 1 \in DOMAIN s /\ s[1].kind = "role" /\ RoleFirst(s)
  BY DEF Begun
<1> HIDE DEF c, n
<1>5. \A j \in DOMAIN t : t[j].kind \in BodyKinds /\ t[j].kind # "role"
  BY DEF Body, BodyKinds
<1>6. 1 \in DOMAIN c /\ c[1].kind = "role"
  BY <1>3, <1>4
<1>7. \A i \in DOMAIN c : c[i].kind \in BodyKinds \cup {"role"}
  BY <1>3, <1>5 DEF Begun
<1>8. \A i \in DOMAIN c : c[i].kind = "role" => i = 1
  BY <1>3, <1>4, <1>5 DEF RoleFirst, Places
<1>9. \A i \in DOMAIN c : 1 <= i
  BY <1>3
<1>10. RoleFirst(c)
  <2>1. Places(c, "role") = {1}
    BY <1>6, <1>8 DEF Places
  <2>2. \A i \in Places(c, "text") \cup Places(c, "tool") : 1 < i
    <3>1. \A i \in DOMAIN c : c[i].kind # "role" => i # 1
      BY <1>6
    <3>2. \A i \in Places(c, "text") \cup Places(c, "tool") : i \in DOMAIN c /\ i # 1
      BY <3>1 DEF Places
    <3>3. \A i \in DOMAIN c : i \in Nat
      BY <1>3
    <3> QED
      BY <1>9, <3>2, <3>3
  <2> QED
    BY <2>1, <2>2 DEF RoleFirst
<1>11. Begun(c)
  BY <1>2, <1>3, <1>6, <1>7, <1>10 DEF Begun
<1> QED
  BY <1>11 DEF c

\* The first frames of frames that keep what a client relies on keep it.
LEMMA FirstFrames ==
  ASSUME NEW s \in Seq(Events), ArgsFollow(s), EndIsLast(s), NEW n \in 0..Len(s)
  PROVE  /\ SubSeq(s, 1, n) \in Seq(Events) /\ ArgsFollow(SubSeq(s, 1, n)) /\ EndIsLast(SubSeq(s, 1, n))
         /\ RoleFirst(s) => RoleFirst(SubSeq(s, 1, n))
<1> DEFINE t == SubSeq(s, 1, n)
<1>1. Len(s) \in Nat /\ DOMAIN s = 1..Len(s) /\ (\A i \in 1..n : s[i] \in Events) /\ n \in Nat /\ 1..n \subseteq 1..Len(s)
  BY LenProperties, ElementOfSeq
<1>2. /\ t \in Seq(Events) /\ Len(t) = n
      /\ \A i \in 1..n : t[i] = s[i]
  <2>1. 1 \in Int /\ n \in Int /\ \A i \in 1..n : s[i] \in Events
    BY <1>1
  <2>2. /\ SubSeq(s, 1, n) \in Seq(Events)
        /\ Len(SubSeq(s, 1, n)) = IF 1 <= n THEN n - 1 + 1 ELSE 0
        /\ \A i \in 1..(n - 1 + 1) : SubSeq(s, 1, n)[i] = s[1 + i - 1]
    BY <2>1, SubSeqProperties
  <2> QED
    BY <1>1, <2>2
<1> HIDE DEF t
<1>3. DOMAIN t = 1..n
  BY <1>2, LenProperties
<1>4. ArgsFollow(t)
  <2> SUFFICES ASSUME NEW i \in 1..n, t[i].kind \in {"args", "args_done"}
               PROVE  \E j \in 1..n : t[j].kind = "tool" /\ j < i /\ t[j].index = t[i].index
    BY <1>3 DEF ArgsFollow, Places
  <2>1. PICK j \in DOMAIN s : s[j].kind = "tool" /\ j < i /\ s[j].index = s[i].index
    BY <1>1, <1>2 DEF ArgsFollow, Places
  <2>2. j \in 1..n
    BY <1>1, <2>1
  <2> QED
    BY <1>2, <2>1, <2>2
<1>5. EndIsLast(t)
  <2>1. \A i \in 1..n : s[i].kind \in Ends => i = Len(s)
    BY <1>1 DEF EndIsLast
  <2>2. ASSUME NEW i \in 1..n, i = Len(s) PROVE i = n
    <3>1. Len(s) \in Nat /\ n \in Nat /\ i \in Nat /\ n <= Len(s) /\ i <= n
      BY <1>1
    <3>2. \A x, y, z \in Nat : y <= x /\ z <= y /\ z = x => z = y
      OBVIOUS
    <3> QED
      BY <2>2, <3>1, <3>2
  <2>3. \A i \in DOMAIN t : t[i].kind \in Ends => i = Len(t)
    BY <1>2, <1>3, <2>1, <2>2
  <2> QED
    BY <2>3 DEF EndIsLast
<1>6. RoleFirst(s) => RoleFirst(t)
  <2> SUFFICES ASSUME RoleFirst(s) PROVE RoleFirst(t)
    OBVIOUS
  <2>1. \A kind : Places(t, kind) = Places(s, kind) \cap (1..n)
    BY <1>1, <1>2, <1>3 DEF Places
  <2>2. \A i, j \in Places(t, "role") : i = j
    BY <2>1 DEF RoleFirst
  <2>3. ASSUME NEW i \in Places(t, "text") \cup Places(t, "tool") PROVE \E j \in Places(t, "role") : j < i
    <3>1. PICK j \in Places(s, "role") : j < i
      BY <2>1 DEF RoleFirst
    <3>2. j \in 1..n
      <4>1. j \in 1..Len(s) /\ i \in 1..n
        BY <1>1, <2>1 DEF Places
      <4> QED
        BY <1>1, <3>1, <4>1
    <3> QED
      BY <2>1, <3>1, <3>2
  <2> QED
    BY <2>2, <2>3 DEF RoleFirst
<1> QED
  BY <1>2, <1>4, <1>5, <1>6 DEF t

\* The text, in chunks.
LEMMA TextIsBody ==
  ASSUME NEW text \in Seq(Data)
  PROVE  TextFrames(text) \in Body
<1> DEFINE last == (Len(text) + TextChunk - 1) \div TextChunk
           chunks == SplitText(text)
           f == TextFrames(text)
<1>1. Len(text) \in Nat /\ TextChunk \in Nat /\ TextChunk > 0 /\ DOMAIN text = 1..Len(text)
      /\ \A i \in DOMAIN text : text[i] \in Data
  <2>1. TextChunk \in Nat \ {0}
    BY AnswersAssumption
  <2> QED
    BY <2>1, LenProperties, ElementOfSeq
<1>2. last \in Nat
  BY <1>1
<1>3. chunks = [k \in 1..last |-> SubSeq(text, (k - 1) * TextChunk + 1, Smaller(k * TextChunk, Len(text)))]
  BY DEF SplitText
<1> HIDE DEF last
<1>4. \A k \in 1..last : chunks[k] \in Seq(Data)
  <2> SUFFICES ASSUME NEW k \in 1..last PROVE chunks[k] \in Seq(Data)
    OBVIOUS
  <2> DEFINE a == (k - 1) * TextChunk + 1
             b == Smaller(k * TextChunk, Len(text))
  <2>1. a \in Nat /\ a >= 1
    <3>1. k - 1 \in Nat
      BY <1>2
    <3>2. \A x, y \in Nat : x * y \in Nat
      OBVIOUS
    <3> QED
      BY <1>1, <3>1, <3>2
  <2>2. b \in Int /\ b <= Len(text)
    <3>1. k * TextChunk \in Int
      BY <1>1, <1>2
    <3> QED
      BY <1>1, <3>1 DEF Smaller
  <2>3. chunks[k] = SubSeq(text, a, b)
    BY <1>3
  <2> HIDE DEF a, b
  <2>4. a \in Int /\ b \in Int /\ \A i \in a..b : text[i] \in Data
    BY <1>1, <2>1, <2>2
  <2>5. SubSeq(text, a, b) \in Seq(Data)
    BY <2>4, SubSeqProperties
  <2> QED
    BY <2>3, <2>5
<1>5. f = [k \in 1..last |-> Event("text", 0, chunks[k])]
  <2>1. DOMAIN chunks = 1..last
    BY <1>3
  <2> HIDE DEF chunks
  <2>2. f = [k \in DOMAIN chunks |-> Event("text", 0, chunks[k])]
    BY DEF TextFrames, chunks
  <2> QED
    BY <2>1, <2>2
<1> HIDE DEF chunks
<1>6. \A k \in 1..last : f[k] \in Events /\ f[k].kind = "text"
  <2>1. "text" \in Kinds /\ 0 \in Nat
    BY DEF Kinds
  <2>2. \A data \in Seq(Data) : Event("text", 0, data) \in Events /\ Event("text", 0, data).kind = "text"
    BY <2>1, FieldsOf
  <2>3. \A k \in 1..last : f[k] = Event("text", 0, chunks[k])
    BY <1>5
  <2> QED
    BY <1>4, <2>2, <2>3
<1>7. f \in [1..last -> Events]
  <2>1. f = [k \in 1..last |-> f[k]]
    BY <1>5
  <2> HIDE DEF f
  <2> QED
    BY <1>6, <2>1
<1> HIDE DEF f
<1>8. f \in Seq(Events) /\ DOMAIN f = 1..last
  BY <1>2, <1>7, FunctionIsSequence
<1>9. ArgsFollow(f)
  BY <1>6, <1>8 DEF ArgsFollow, Places
<1>10. f \in Body
  BY <1>6, <1>8, <1>9 DEF Body, BodyKinds
<1> QED
  BY <1>10 DEF f

\* The calls, each with its arguments behind it.
LEMMA CallsAreBody ==
  ASSUME NEW calls \in Seq(Calls)
  PROVE  CallFrames(calls) \in Body
<1> DEFINE Pair(i) == Frame("tool", i, <<calls[i].name>>) \o Frame("args", i, calls[i].args)
           A == [i \in DOMAIN calls |-> Pair(i)]
<1>1. Len(calls) \in Nat /\ DOMAIN calls = 1..Len(calls) /\ \A i \in DOMAIN calls : calls[i] \in Calls
  BY LenProperties, ElementOfSeq
<1>2. ASSUME NEW i \in DOMAIN calls PROVE Pair(i) \in Body
  <2> DEFINE d == Event("tool", i, <<calls[i].name>>)
             e == Event("args", i, calls[i].args)
  <2>1. i \in Nat /\ <<calls[i].name>> \in Seq(Data) /\ calls[i].args \in Seq(Data)
    BY <1>1 DEF Calls
  <2>2. "tool" \in Kinds /\ "args" \in Kinds
    BY DEF Kinds
  <2>3. /\ d \in Events /\ d.kind = "tool" /\ d.index = i
        /\ e \in Events /\ e.kind = "args" /\ e.index = i
    <3>1. \A kind \in {"tool", "args"}, data \in Seq(Data) :
            Event(kind, i, data) \in Events /\ Event(kind, i, data).kind = kind /\ Event(kind, i, data).index = i
      BY <2>1, <2>2, FieldsOf
    <3> QED
      BY <2>1, <3>1
  <2>4. Pair(i) = <<d>> \o <<e>>
    BY DEF Frame
  <2> HIDE DEF d, e
  <2>5. /\ <<d>> \in Seq(Events) /\ DOMAIN <<d>> = {1} /\ <<d>>[1] = d /\ Named(<<d>>, "tool") = {i}
        /\ <<e>> \in Seq(Events) /\ DOMAIN <<e>> = {1} /\ <<e>>[1] = e
    BY <2>3, EventAlone
  <2> DEFINE p == <<d>> \o <<e>>
  <2>6. /\ p \in Seq(Events)
        /\ \A j \in DOMAIN p : j \in DOMAIN <<d>> \/ \E k \in DOMAIN <<e>> : j = Len(<<d>>) + k
        /\ \A j \in DOMAIN <<d>> : p[j] = <<d>>[j]
        /\ \A k \in DOMAIN <<e>> : p[Len(<<d>>) + k] = <<e>>[k]
    BY <2>5, ConcatPlaces
  <2>7. ArgsFollow(<<d>>)
    BY <2>3, <2>5 DEF ArgsFollow, Places
  <2>8. ArgsFollow(p)
    BY <2>3, <2>5, <2>7, FrameAdded
  <2> HIDE DEF p, Pair
  <2>9. \A j \in DOMAIN p : p[j] = d \/ p[j] = e
    BY <2>5, <2>6
  <2>10. p \in Body
    BY <2>3, <2>6, <2>8, <2>9 DEF Body, BodyKinds
  <2> QED
    BY <2>4, <2>10 DEF p
<1>3. CallFrames(calls) = FlattenSeq(A)
  BY DEF CallFrames
<1> HIDE DEF Pair
<1>4. A \in [1..Len(calls) -> Body]
  BY <1>1, <1>2
<1> HIDE DEF A
<1>5. A \in Seq(Body)
  BY <1>1, <1>4, FunctionIsSequence
<1>6. Body \subseteq Seq(Events)
  BY DEF Body
<1> QED
  BY <1>3, <1>5, <1>6, BodyConcat, FlattenKeeps

\* What comes before the last frame, and the last frame.
LEMMA EndFramesAre ==
  ASSUME NEW result, TypedResult(result), NEW includeUsage
  PROVE  \E b \in Body, d \in Events : d.kind = "done" /\ EndFrames(result, includeUsage) = b \o <<d>>
<1> DEFINE e == Event("finish", 0, <<result.finish>>)
           g == Event("usage", 0, <<>>)
           d == Event("done", 0, <<>>)
           b == <<e>> \o IF includeUsage THEN <<g>> ELSE <<>>
<1>1. "finish" \in Kinds /\ "usage" \in Kinds /\ "done" \in Kinds /\ 0 \in Nat
  BY DEF Kinds
<1>2. e \in Events /\ e.kind = "finish"
  <2>1. \A data \in Seq(Data) : Event("finish", 0, data) \in Events /\ Event("finish", 0, data).kind = "finish"
    BY <1>1, FieldsOf
  <2>2. <<result.finish>> \in Seq(Data)
    BY DEF TypedResult
  <2> QED
    BY <2>1, <2>2
<1>3. g \in Events /\ g.kind = "usage" /\ d \in Events /\ d.kind = "done"
  BY <1>1, BareFields
<1>4. EndFrames(result, includeUsage) = b \o <<d>>
  BY DEF EndFrames, Frame
<1> HIDE DEF e, g, d
<1>5. <<e>> \in Body /\ <<g>> \in Body /\ <<>> \in Body
  BY <1>2, <1>3, FrameIsBody, BodyConcat DEF BodyKinds
<1>6. b \in Body
  <2>1. \A s, t \in Body : s \o t \in Body
    BY BodyConcat
  <2>2. (IF includeUsage THEN <<g>> ELSE <<>>) \in Body
    BY <1>5
  <2> QED
    BY <1>5, <2>1, <2>2
<1> HIDE DEF b
<1> QED
  BY <1>3, <1>4, <1>6

\* Frames between the role and the end, with the end.
LEMMA FramesEnd ==
  ASSUME NEW s \in Seq(Events), ArgsFollow(s), \A i \in DOMAIN s : s[i].kind \in BodyKinds \cup {"role"},
         NEW d \in Events, d.kind = "done"
  PROVE  /\ s \o <<d>> \in Seq(Events) /\ ArgsFollow(s \o <<d>>) /\ EndIsLast(s \o <<d>>)
         /\ RoleFirst(s) => RoleFirst(s \o <<d>>)
<1>1. NotEnded(s)
  BY DEF NotEnded, BodyKinds, Ends
<1> QED
  BY <1>1, FrameAdded

\* A simulated stream keeps what a client relies on.
LEMMA SimulatedFrames ==
  ASSUME NEW result, TypedResult(result), NEW includeUsage
  PROVE  /\ StreamChat(result, includeUsage) \in Seq(Events) /\ ArgsFollow(StreamChat(result, includeUsage))
         /\ EndIsLast(StreamChat(result, includeUsage)) /\ RoleFirst(StreamChat(result, includeUsage))
         /\ StreamCompletions(result, includeUsage) \in Seq(Events)
         /\ ArgsFollow(StreamCompletions(result, includeUsage)) /\ EndIsLast(StreamCompletions(result, includeUsage))
<1> DEFINE t == TextFrames(result.text)
           c == CallFrames(result.calls)
           r == Event("role", 0, <<>>)
<1>1. t \in Body /\ c \in Body
  BY TextIsBody, CallsAreBody DEF TypedResult
<1>2. PICK b \in Body, d \in Events : d.kind = "done" /\ EndFrames(result, includeUsage) = b \o <<d>>
  BY EndFramesAre
<1>3. r \in Events /\ r.kind = "role"
  <2>1. "role" \in Kinds /\ 0 \in Nat
    BY DEF Kinds
  <2> QED
    BY <2>1, BareFields
<1>4. /\ StreamChat(result, includeUsage) = ((<<r>> \o t) \o c) \o (b \o <<d>>)
      /\ StreamCompletions(result, includeUsage) = t \o (b \o <<d>>)
  BY <1>2 DEF StreamChat, StreamCompletions, Frame
<1> HIDE DEF t, c, r
<1>5. Begun(<<r>>)
  <2>1. <<r>> \in Seq(Events) /\ DOMAIN <<r>> = {1} /\ <<r>>[1] = r
    BY <1>3, EventAlone
  <2>2. ArgsFollow(<<r>>) /\ RoleFirst(<<r>>)
    BY <1>3, <2>1 DEF ArgsFollow, RoleFirst, Places
  <2> QED
    BY <1>3, <2>1, <2>2 DEF Begun
<1> DEFINE h == (<<r>> \o t) \o c
<1>6. Begun(h)
  <2>1. Begun(<<r>> \o t)
    BY <1>1, <1>5, BegunConcat
  <2> QED
    BY <1>1, <2>1, BegunConcat
<1> HIDE DEF h
<1>7. b \in Seq(Events) /\ t \in Seq(Events) /\ h \in Seq(Events) /\ <<d>> \in Seq(Events)
  BY <1>1, <1>2, <1>6 DEF Body, Begun
<1>8. h \o (b \o <<d>>) = (h \o b) \o <<d>> /\ t \o (b \o <<d>>) = (t \o b) \o <<d>>
  BY <1>7, ConcatAssociative
<1>9. Begun(h \o b) /\ t \o b \in Body
  <2>1. \A x, y \in Body : x \o y \in Body
    BY BodyConcat
  <2>2. Begun(h \o b)
    BY <1>2, <1>6, BegunConcat
  <2> QED
    BY <1>1, <1>2, <2>1, <2>2
<1> DEFINE x == h \o b
           y == t \o b
<1>10. /\ x \in Seq(Events) /\ ArgsFollow(x) /\ RoleFirst(x) /\ \A i \in DOMAIN x : x[i].kind \in BodyKinds \cup {"role"}
       /\ y \in Seq(Events) /\ ArgsFollow(y) /\ \A i \in DOMAIN y : y[i].kind \in BodyKinds \cup {"role"}
  BY <1>9 DEF Begun, Body
<1> HIDE DEF x, y
<1>11. /\ x \o <<d>> \in Seq(Events) /\ ArgsFollow(x \o <<d>>) /\ EndIsLast(x \o <<d>>) /\ RoleFirst(x \o <<d>>)
       /\ y \o <<d>> \in Seq(Events) /\ ArgsFollow(y \o <<d>>) /\ EndIsLast(y \o <<d>>)
  BY <1>2, <1>10, FramesEnd
<1> QED
  BY <1>4, <1>8, <1>11 DEF x, y, h

-----------------------------------------------------------------------------
(* What a simulated stream tells. *)

\* The chunks of a text are the text.
LEMMA ChunksAreText ==
  ASSUME NEW text \in Seq(Data)
  PROVE  FlattenSeq(SplitText(text)) = text
<1> DEFINE n == Len(text)
           c == TextChunk
           last == (n + c - 1) \div c
           A == SplitText(text)
<1>1. n \in Nat /\ c \in Nat \ {0}
  BY LenProperties, AnswersAssumption
<1>2. last \in Nat /\ last * c <= n + c - 1 /\ n + c - 1 < (last + 1) * c
  <2>1. n + c - 1 \in Nat
    BY <1>1
  <2> HIDE DEF n, c
  <2> QED
    BY <1>1, <2>1, Quotients
<1>3. A = [k \in 1..last |-> SubSeq(text, (k - 1) * c + 1, Smaller(k * c, n))]
  BY DEF SplitText
<1> HIDE DEF n, c, last, A
<1>4. Len(A) = last /\ \A k \in 1..last : A[k] = SubSeq(text, (k - 1) * c + 1, Smaller(k * c, n))
  <2> DEFINE S == {SubSeq(text, (k - 1) * c + 1, Smaller(k * c, n)) : k \in 1..last}
  <2>1. A \in [1..last -> S]
    BY <1>3
  <2>2. \A k \in 1..last : A[k] = SubSeq(text, (k - 1) * c + 1, Smaller(k * c, n))
    BY <1>3
  <2> HIDE DEF S
  <2>3. A \in Seq(S) /\ DOMAIN A = 1..last
    BY <1>2, <2>1, FunctionIsSequence
  <2> QED
    BY <1>2, <2>2, <2>3, LenProperties
<1>5. \A k \in 1..last : (k - 1) * c \in Nat /\ k * c = (k - 1) * c + c /\ (k - 1) * c < n
  <2> SUFFICES ASSUME NEW k \in 1..last PROVE (k - 1) * c \in Nat /\ k * c = (k - 1) * c + c /\ (k - 1) * c < n
    OBVIOUS
  <2>1. k \in Nat /\ k - 1 \in Nat /\ k <= last /\ c \in Nat
    BY <1>1, <1>2
  <2>2. (k - 1) * c \in Nat /\ k * c \in Nat /\ k * c <= last * c
    BY <1>2, <2>1, Products
  <2>3. k * c = (k - 1) * c + c
    <3>1. \A x \in Nat : (x + 1) * c = x * c + c
      BY <2>1
    <3>2. k = (k - 1) + 1
      BY <2>1
    <3> QED
      BY <2>1, <3>1, <3>2
  <2> QED
    BY <1>1, <1>2, <2>1, <2>2, <2>3
<1>6. n <= last * c
  <2>1. (last + 1) * c = last * c + c
    BY <1>1, <1>2
  <2>2. last * c \in Nat
    BY <1>1, <1>2, Products
  <2> QED
    BY <1>1, <1>2, <2>1, <2>2
<1>7. PICK f : /\ \A i \in 1..last : f[i] = IF i = 1 THEN A[i] ELSE f[i - 1] \o A[i]
               /\ FlattenSeq(A) = IF last = 0 THEN A ELSE f[last]
  BY <1>2, <1>4, FlattenIs
<1> DEFINE Up(k) == SubSeq(text, 1, Smaller(k * c, n))
           bad == {k \in 1..last : f[k] # Up(k)}
<1>8. \A k \in 1..last : Smaller(k * c, n) \in Nat /\ Smaller(k * c, n) <= n /\ (k - 1) * c <= Smaller(k * c, n)
  BY <1>1, <1>5 DEF Smaller
<1>9. bad = {}
  <2> SUFFICES ASSUME bad # {} PROVE FALSE
    OBVIOUS
  <2>1. bad \in SUBSET Nat
    BY <1>2
  <2> DEFINE k == Min(bad)
  <2>2. k \in bad /\ \A y \in bad : k <= y
    <3> HIDE DEF bad
    <3> QED
      BY <2>1, LeastIsMin
  <2>3. k \in 1..last /\ f[k] # Up(k)
    BY <2>2
  <2> HIDE DEF k
  <2>4. A[k] = SubSeq(text, (k - 1) * c + 1, Smaller(k * c, n))
    BY <1>4, <2>3
  <2>5. CASE k = 1
    <3>1. (k - 1) * c + 1 = 1
      BY <1>1, <2>5
    <3> QED
      BY <1>7, <2>3, <2>4, <2>5, <3>1
  <2>6. CASE k # 1
    <3>1. k - 1 \in 1..last /\ k - 1 \notin bad
      <4>1. k - 1 \in 1..last /\ ~(k <= k - 1)
        BY <1>2, <2>3, <2>6
      <4> HIDE DEF bad
      <4> QED
        BY <2>2, <4>1
    <3>2. f[k - 1] = Up(k - 1)
      BY <3>1
    <3>3. Smaller((k - 1) * c, n) = (k - 1) * c
      BY <1>1, <1>5, <2>3 DEF Smaller
    <3>4. f[k] = SubSeq(text, 1, (k - 1) * c) \o SubSeq(text, (k - 1) * c + 1, Smaller(k * c, n))
      BY <1>7, <2>3, <2>4, <2>6, <3>2, <3>3
    <3> DEFINE a == (k - 1) * c
               b == Smaller(k * c, n)
    <3>5. a \in Nat /\ b \in Nat /\ a <= b /\ b <= n
      BY <1>5, <1>8, <2>3
    <3>6. f[k] = SubSeq(text, 1, a) \o SubSeq(text, a + 1, b) /\ Up(k) = SubSeq(text, 1, b)
      BY <3>4
    <3> HIDE DEF a, b, Up, bad
    <3>7. 1 \in 1..Len(text) + 1 /\ a \in 1 - 1..Len(text) /\ b \in a..Len(text)
      BY <1>1, <3>5 DEF n
    <3>8. SubSeq(text, 1, a) \o SubSeq(text, a + 1, b) = SubSeq(text, 1, b)
      BY <3>7, ConcatAdjacentSubSeq
    <3> QED
      BY <2>3, <3>6, <3>8
  <2> QED
    BY <2>5, <2>6
<1>10. CASE last = 0
  <2>1. n = 0 /\ A = <<>>
    BY <1>1, <1>3, <1>6, <1>10
  <2>2. text = <<>>
    BY <2>1, EmptySeq DEF n
  <2>3. FlattenSeq(A) = A
    BY <1>7, <1>10
  <2> QED
    BY <2>1, <2>2, <2>3 DEF A
<1>11. CASE last # 0
  <2>0. Up(last) = SubSeq(text, 1, Smaller(last * c, n))
    OBVIOUS
  <2>1. last \in 1..last
    BY <1>2, <1>11
  <2>2. f[last] = Up(last)
    BY <1>9, <2>1
  <2>3. Smaller(last * c, n) = n
    BY <1>1, <1>2, <1>5, <1>6, <2>1 DEF Smaller
  <2> HIDE DEF Up, bad
  <2>4. FlattenSeq(A) = SubSeq(text, 1, Len(text))
    BY <1>7, <1>11, <2>0, <2>2, <2>3 DEF n
  <2> QED
    BY <2>4, SubSeqFull DEF A
<1> QED
  BY <1>10, <1>11 DEF A

\* The frames of a text tell the text.
LEMMA TextTells ==
  ASSUME NEW text \in Seq(Data)
  PROVE  ToldBy(TextFrames(text)) = [Silence EXCEPT !.text = text]
<1> DEFINE A == SplitText(text)
           f == TextFrames(text)
           last == Len(f)
<1>1. f \in Seq(Events) /\ DOMAIN f = 1..last
  BY TextIsBody, LenProperties DEF Body
<1>2. f = [k \in DOMAIN A |-> Event("text", 0, A[k])]
  BY DEF TextFrames
<1>3. DOMAIN A = DOMAIN f /\ A = [k \in DOMAIN A |-> A[k]]
  <2>1. A = [k \in DOMAIN A |-> A[k]]
    BY DEF SplitText
  <2> HIDE DEF A, f
  <2> QED
    BY <1>2, <2>1
<1> HIDE DEF A, f, last
<1>4. \A k \in DOMAIN f : f[k].kind = "text" /\ f[k].index = 0 /\ f[k].data = A[k]
  BY <1>2, <1>3 DEF Event
<1>5. Parts(f, "text", 0) = A
  <2>1. Parts(f, "text", 0) = [k \in DOMAIN f |-> A[k]]
    BY <1>4 DEF Parts
  <2> QED
    BY <1>3, <2>1
<1>6. Said(f, "text", 0) = text
  BY <1>5, ChunksAreText DEF Said, A
<1>7. Cardinality(Places(f, "tool")) = 0
  <2>1. Places(f, "tool") = {}
    BY <1>4 DEF Places
  <2> QED
    BY <2>1, FS_EmptySet
<1>8. \A i \in Nat : Said(f, "args", i) = <<>>
  <2>1. \A i \in DOMAIN f : f[i].kind # "args"
    BY <1>4
  <2> QED
    BY <1>1, <2>1, SaidNothing
<1> DEFINE b == [Silence EXCEPT !.text = text]
<1>9. b \in Sayings /\ b.text = text /\ b.tools = 0 /\ \A i \in Nat : b.args[i] = <<>>
  BY ThenLaws DEF Sayings, Silence
<1> HIDE DEF b
<1>10. ToldBy(f) = b
  BY <1>1, <1>6, <1>7, <1>8, <1>9, SaidLaws, SaidAsIs, SameSaying DEF ToldBy
<1> QED
  BY <1>10 DEF f, b

\* What calls say.
SaidOf(calls) ==
  [text |-> <<>>, tools |-> Len(calls), args |-> [i \in Nat |-> IF i \in DOMAIN calls THEN calls[i].args ELSE <<>>]]

LEMMA SaidOfIs ==
  ASSUME NEW calls \in Seq(Calls)
  PROVE  /\ SaidOf(calls) \in Sayings /\ SaidOf(calls).text = <<>> /\ SaidOf(calls).tools = Len(calls)
         /\ \A i \in Nat : SaidOf(calls).args[i] = IF i \in DOMAIN calls THEN calls[i].args ELSE <<>>
<1>1. Len(calls) \in Nat /\ (\A i \in DOMAIN calls : calls[i].args \in Seq(Data)) /\ <<>> \in Seq(Data)
  <2>1. \A i \in DOMAIN calls : calls[i] \in Calls
    BY ElementOfSeq, LenProperties
  <2> QED
    BY <2>1, LenProperties, EmptySeq DEF Calls
<1> DEFINE args == [i \in Nat |-> IF i \in DOMAIN calls THEN calls[i].args ELSE <<>>]
           none == <<>>
<1>2. \A i \in Nat : args[i] \in Seq(Data)
  BY <1>1
<1>3. args = [i \in Nat |-> args[i]] /\ \A i \in Nat : args[i] = IF i \in DOMAIN calls THEN calls[i].args ELSE <<>>
  OBVIOUS
<1>4. SaidOf(calls) = [text |-> none, tools |-> Len(calls), args |-> args] /\ none \in Seq(Data) /\ none = <<>>
  BY <1>1 DEF SaidOf
<1> HIDE DEF args, none
<1>5. SaidOf(calls) \in Sayings
  BY <1>1, <1>2, <1>3, <1>4, SayingIs
<1> QED
  BY <1>3, <1>4, <1>5

\* What one frame tells.
LEMMA FrameIs ==
  ASSUME NEW x \in Events
  PROVE  /\ ToldBy(<<x>>).text = (IF x.kind = "text" /\ x.index = 0 THEN x.data ELSE <<>>)
         /\ ToldBy(<<x>>).tools = (IF x.kind = "tool" THEN 1 ELSE 0) /\ ToldBy(<<x>>) \in Sayings
         /\ \A i \in Nat : ToldBy(<<x>>).args[i] = IF x.kind = "args" /\ x.index = i THEN x.data ELSE <<>>
<1> DEFINE s == <<x>>
<1>1. Said(s, "text", 0) = IF x.kind = "text" /\ x.index = 0 THEN x.data ELSE <<>>
  BY SaidOne
<1>2. \A i \in Nat : Said(s, "args", i) = IF x.kind = "args" /\ x.index = i THEN x.data ELSE <<>>
  BY SaidOne
<1>3. Cardinality(Places(s, "tool")) = IF x.kind = "tool" THEN 1 ELSE 0
  BY PlacesOne
<1>4. s \in Seq(Events)
  BY EventAlone
<1> HIDE DEF s
<1>5. ToldBy(s) \in Sayings
  BY <1>4, SaidLaws
<1>6. /\ ToldBy(s).text = Said(s, "text", 0) /\ ToldBy(s).tools = Cardinality(Places(s, "tool"))
      /\ \A i \in Nat : ToldBy(s).args[i] = Said(s, "args", i)
  BY DEF ToldBy, SaidAs
<1> QED
  BY <1>1, <1>2, <1>3, <1>5, <1>6 DEF s

\* The frames of a call tell it.
LEMMA CallTells ==
  ASSUME NEW i \in Nat, NEW call \in Calls
  PROVE  LET p == Frame("tool", i, <<call.name>>) \o Frame("args", i, call.args)
         IN /\ p \in Seq(Events) /\ ToldBy(p).text = <<>> /\ ToldBy(p).tools = 1
            /\ \A j \in Nat : ToldBy(p).args[j] = IF j = i THEN call.args ELSE <<>>
<1> DEFINE d == Event("tool", i, <<call.name>>)
           e == Event("args", i, call.args)
<1>1. /\ d \in Events /\ d.kind = "tool"
      /\ e \in Events /\ e.kind = "args" /\ e.index = i /\ e.data = call.args
  <2>1. <<call.name>> \in Seq(Data) /\ call.args \in Seq(Data) /\ "tool" \in Kinds /\ "args" \in Kinds
    BY DEF Calls, Kinds
  <2>2. \A kind \in Kinds, data \in Seq(Data) :
          /\ Event(kind, i, data) \in Events /\ Event(kind, i, data).kind = kind
          /\ Event(kind, i, data).index = i /\ Event(kind, i, data).data = data
    BY FieldsOf
  <2> QED
    BY <2>1, <2>2
<1>2. Frame("tool", i, <<call.name>>) = <<d>> /\ Frame("args", i, call.args) = <<e>>
  BY DEF Frame
<1>3. call.args \in Seq(Data)
  BY DEF Calls
<1> HIDE DEF d, e
<1>4. <<d>> \in Seq(Events) /\ <<e>> \in Seq(Events)
  BY <1>1, EventAlone
<1>5. /\ ToldBy(<<d>>) \in Sayings /\ ToldBy(<<d>>).text = <<>> /\ ToldBy(<<d>>).tools = 1
      /\ \A j \in Nat : ToldBy(<<d>>).args[j] = <<>>
  <2>1. /\ ToldBy(<<d>>).text = (IF d.kind = "text" /\ d.index = 0 THEN d.data ELSE <<>>)
        /\ ToldBy(<<d>>).tools = (IF d.kind = "tool" THEN 1 ELSE 0) /\ ToldBy(<<d>>) \in Sayings
        /\ \A j \in Nat : ToldBy(<<d>>).args[j] = IF d.kind = "args" /\ d.index = j THEN d.data ELSE <<>>
    BY <1>1, FrameIs
  <2> QED
    BY <1>1, <2>1
<1>6. /\ ToldBy(<<e>>) \in Sayings /\ ToldBy(<<e>>).text = <<>> /\ ToldBy(<<e>>).tools = 0
      /\ \A j \in Nat : ToldBy(<<e>>).args[j] = IF j = i THEN call.args ELSE <<>>
  <2>1. /\ ToldBy(<<e>>).text = (IF e.kind = "text" /\ e.index = 0 THEN e.data ELSE <<>>)
        /\ ToldBy(<<e>>).tools = (IF e.kind = "tool" THEN 1 ELSE 0) /\ ToldBy(<<e>>) \in Sayings
        /\ \A j \in Nat : ToldBy(<<e>>).args[j] = IF e.kind = "args" /\ e.index = j THEN e.data ELSE <<>>
    BY <1>1, FrameIs
  <2> QED
    BY <1>1, <2>1
<1> DEFINE a == ToldBy(<<d>>)
           b == ToldBy(<<e>>)
           p == <<d>> \o <<e>>
<1>7. ToldBy(p) = Then(a, b) /\ p \in Seq(Events)
  BY <1>4, SaidLaws, ConcatProperties
<1>8. a \in Sayings /\ b \in Sayings
  BY <1>5, <1>6
<1> HIDE DEF a, b, p
<1>9. /\ Then(a, b).text = a.text \o b.text /\ Then(a, b).tools = a.tools + b.tools
      /\ \A j \in Nat : Then(a, b).args[j] = a.args[j] \o b.args[j]
  BY <1>8, ThenIs
<1>10. <<>> \o <<>> = <<>> /\ <<>> \o call.args = call.args
  BY <1>3, ConcatEmptySeq, EmptySeq
<1>11. /\ ToldBy(p).text = <<>> /\ ToldBy(p).tools = 1
       /\ \A j \in Nat : ToldBy(p).args[j] = IF j = i THEN call.args ELSE <<>>
  BY <1>5, <1>6, <1>7, <1>9, <1>10 DEF a, b
<1> QED
  BY <1>2, <1>7, <1>11 DEF p

\* The frames of calls tell them.
LEMMA CallsTell ==
  \A calls \in Seq(Calls) : ToldBy(CallFrames(calls)) = SaidOf(calls)
<1> DEFINE T == {calls \in Seq(Calls) : ToldBy(CallFrames(calls)) = SaidOf(calls)}
           Pair(i, call) == Frame("tool", i, <<call.name>>) \o Frame("args", i, call.args)
           CallPairs(calls) == [i \in DOMAIN calls |-> Pair(i, calls[i])]
<1>1. \A calls : CallFrames(calls) = FlattenSeq(CallPairs(calls))
  BY DEF CallFrames
<1>2. \A i \in Nat : \A call \in Calls : Pair(i, call) \in Seq(Events)
  BY CallTells
<1> HIDE DEF Pair
<1>3. ASSUME NEW calls \in Seq(Calls) PROVE CallPairs(calls) \in Seq(Seq(Events)) /\ CallFrames(calls) \in Seq(Events)
  <2>1. Len(calls) \in Nat /\ DOMAIN calls = 1..Len(calls) /\ \A i \in DOMAIN calls : calls[i] \in Calls
    BY LenProperties, ElementOfSeq
  <2>2. CallPairs(calls) \in [1..Len(calls) -> Seq(Events)]
    BY <1>2, <2>1
  <2> HIDE DEF CallPairs
  <2>3. CallPairs(calls) \in Seq(Seq(Events))
    BY <2>1, <2>2, FunctionIsSequence
  <2> QED
    BY <1>1, <2>3, FlattenTyped
<1>4. <<>> \in T
  <2>1. CallPairs(<<>>) = <<>>
    OBVIOUS
  <2>2. <<>> \in Seq(Calls) /\ Len(<<>>) = 0 /\ DOMAIN <<>> = {}
    BY EmptySeq
  <2>3. CallFrames(<<>>) = <<>>
    BY <1>1, <2>1, FlattenEmpty
  <2> DEFINE none == <<>>
  <2>4. none \in Seq(Calls) /\ Len(none) = 0 /\ DOMAIN none = {} /\ none = <<>>
    BY <2>2
  <2> HIDE DEF none
  <2>5. SaidOf(none) \in Sayings /\ SaidOf(none).text = <<>> /\ SaidOf(none).tools = 0
        /\ \A i \in Nat : SaidOf(none).args[i] = <<>>
    BY <2>4, SaidOfIs
  <2>6. Silence \in Sayings /\ Silence.text = <<>> /\ Silence.tools = 0 /\ \A i \in Nat : Silence.args[i] = <<>>
    BY ThenLaws DEF Silence
  <2>7. SaidOf(none) = Silence
    BY <2>5, <2>6, SameSaying
  <2> QED
    BY <2>2, <2>3, <2>4, <2>7, NothingSays
<1>5. ASSUME NEW calls \in Seq(Calls) \cap T, NEW call \in Calls PROVE Append(calls, call) \in T
  <2> DEFINE more == Append(calls, call)
             n == Len(calls)
             p == Pair(n + 1, call)
  <2>1. /\ n \in Nat /\ DOMAIN calls = 1..n /\ more \in Seq(Calls) /\ Len(more) = n + 1 /\ DOMAIN more = 1..(n + 1)
        /\ (\A i \in 1..n : more[i] = calls[i]) /\ more[n + 1] = call
    BY AppendProperties, LenProperties
  <2> HIDE DEF more, n, T
  <2>2. CallPairs(more) = Append(CallPairs(calls), p)
    <3> DEFINE A == CallPairs(calls)
               B == CallPairs(more)
    <3>1. DOMAIN A = 1..n /\ DOMAIN B = 1..(n + 1) /\ (\A i \in 1..n : B[i] = A[i]) /\ B[n + 1] = p
      BY <2>1
    <3>2. A \in Seq(Seq(Events)) /\ B \in Seq(Seq(Events)) /\ p \in Seq(Events)
      <4>1. n + 1 \in Nat
        BY <2>1
      <4>2. p \in Seq(Events)
        BY <1>2, <4>1
      <4>3. A \in Seq(Seq(Events)) /\ B \in Seq(Seq(Events))
        BY <1>3, <2>1
      <4> QED
        BY <4>2, <4>3
    <3> HIDE DEF A, B, p
    <3>3. Len(A) = n /\ Len(B) = n + 1
      BY <2>1, <3>1, <3>2, LenProperties
    <3>4. /\ Append(A, p) \in Seq(Seq(Events)) /\ Len(Append(A, p)) = n + 1
          /\ (\A i \in 1..n : Append(A, p)[i] = A[i]) /\ Append(A, p)[n + 1] = p
      BY <3>2, <3>3, AppendProperties
    <3>5. \A i \in 1..(n + 1) : i \in 1..n \/ i = n + 1
      BY <2>1
    <3>6. \A i \in 1..(n + 1) : B[i] = Append(A, p)[i]
      BY <3>1, <3>4, <3>5
    <3>7. B = Append(A, p)
      BY <3>2, <3>3, <3>4, <3>6, SeqEqual
    <3> QED
      BY <3>7 DEF A, B
  <2>3. p \in Seq(Events) /\ CallFrames(calls) \in Seq(Events)
    <3>1. n + 1 \in Nat
      BY <2>1
    <3> QED
      BY <1>2, <1>3, <3>1
  <2>4. CallFrames(more) = CallFrames(calls) \o p
    <3>1. FlattenSeq(Append(CallPairs(calls), p)) = FlattenSeq(CallPairs(calls)) \o p
      BY <1>3, <2>3, FlattenTyped
    <3> QED
      BY <1>1, <2>2, <3>1
  <2>5. /\ ToldBy(p).text = <<>> /\ ToldBy(p).tools = 1
        /\ \A j \in Nat : ToldBy(p).args[j] = IF j = n + 1 THEN call.args ELSE <<>>
    <3>1. n + 1 \in Nat
      BY <2>1
    <3> QED
      BY <3>1, CallTells DEF Pair
  <2> HIDE DEF p
  <2>6. ToldBy(CallFrames(calls)) = SaidOf(calls)
    BY DEF T
  <2> DEFINE a == SaidOf(calls)
             b == ToldBy(p)
             s == SaidOf(more)
  <2>7. ToldBy(CallFrames(more)) = Then(a, b)
    BY <2>3, <2>4, <2>6, SaidLaws
  <2>8. a \in Sayings /\ a.text = <<>> /\ a.tools = n
        /\ \A i \in Nat : a.args[i] = IF i \in DOMAIN calls THEN calls[i].args ELSE <<>>
    BY SaidOfIs DEF n
  <2>9. s \in Sayings /\ s.text = <<>> /\ s.tools = n + 1
        /\ \A i \in Nat : s.args[i] = IF i \in DOMAIN more THEN more[i].args ELSE <<>>
    BY <2>1, SaidOfIs
  <2>10. b \in Sayings
    BY <2>3, SaidLaws
  <2> HIDE DEF a, b, s
  <2>11. /\ Then(a, b) \in Sayings /\ Then(a, b).text = a.text \o b.text /\ Then(a, b).tools = a.tools + b.tools
         /\ \A i \in Nat : Then(a, b).args[i] = a.args[i] \o b.args[i]
    BY <2>8, <2>10, ThenIs
  <2>12. \A i \in Nat : s.args[i] = Then(a, b).args[i]
    <3> SUFFICES ASSUME NEW i \in Nat PROVE s.args[i] = a.args[i] \o b.args[i]
      BY <2>11
    <3>1. b.args[i] = IF i = n + 1 THEN call.args ELSE <<>>
      BY <2>5 DEF b
    <3>2. a.args[i] \in Seq(Data) /\ b.args[i] \in Seq(Data)
      BY <2>8, <2>10 DEF Sayings
    <3>3. CASE i \in 1..n
      <4>1. i # n + 1 /\ i \in DOMAIN more /\ more[i] = calls[i]
        BY <2>1, <3>3
      <4> QED
        BY <2>1, <2>8, <2>9, <3>1, <3>2, <3>3, <4>1, ConcatEmptySeq
    <3>4. CASE i = n + 1
      <4>1. i \notin DOMAIN calls /\ i \in DOMAIN more /\ more[i] = call
        BY <2>1, <3>4
      <4> QED
        BY <2>8, <2>9, <3>1, <3>2, <3>4, <4>1, ConcatEmptySeq
    <3>5. CASE i \notin 1..n /\ i # n + 1
      <4>1. i \notin DOMAIN calls /\ i \notin DOMAIN more
        BY <2>1, <3>5
      <4> QED
        BY <2>8, <2>9, <3>1, <3>2, <3>5, <4>1, ConcatEmptySeq
    <3> QED
      BY <3>3, <3>4, <3>5
  <2>13. a.text \o b.text = <<>> /\ a.tools + b.tools = n + 1
    BY <2>1, <2>5, <2>8, ConcatEmptySeq, EmptySeq DEF b
  <2>14. s = Then(a, b)
    BY <2>9, <2>11, <2>12, <2>13, SameSaying
  <2> QED
    BY <2>1, <2>7, <2>14 DEF T, s, more
<1> HIDE DEF T
<1>6. Seq(Calls) \subseteq T
  BY <1>4, <1>5, AllSequences
<1> QED
  BY <1>6 DEF T

\* A simulated stream keeps the invariant.
LEMMA CompletedKeeps ==
  ASSUME StreamInv, NEW answer, IsAnswer(answer), NEW ask, ask.tools.choice \in Data, WriteCompleted(answer, ask)
  PROVE  StreamInv'
<1> DEFINE result == ResultOf(answer, ask)
           frames == IF ask.api = "chat" THEN StreamChat(result, ask.includeUsage)
                     ELSE StreamCompletions(result, ask.includeUsage)
           tools == [i \in DOMAIN result.calls |-> [id |-> result.calls[i].name, args |-> result.calls[i].args, open |-> FALSE]]
           message == [NoMessage EXCEPT !.text = result.text, !.tools = tools, !.finish = result.finish]
           u == [NoCall EXCEPT !.service = "crynux", !.at = "settled", !.message = message]
<1>1. TypedResult(result)
  BY ResultTyped
<1>2. upstream' = u /\ outbox' = outbox /\ channel' = channel
  BY DEF WriteCompleted
<1>3. PICK n \in 0..Len(frames) :
        client' = [NoClient EXCEPT !.at = IF n = Len(frames) THEN "over" ELSE "left", !.api = ask.api,
                                   !.includeUsage = ask.includeUsage, !.frames = SubSeq(frames, 1, n)]
  BY DEF WriteCompleted
<1> HIDE DEF result
<1>4. TypedCall(u) /\ u.service = "crynux" /\ u.at = "settled"
  <2>1. tools \in Seq(ToolCalls)
    <3>1. Len(result.calls) \in Nat /\ DOMAIN result.calls = 1..Len(result.calls)
          /\ \A i \in DOMAIN result.calls : result.calls[i] \in Calls
      BY <1>1, LenProperties, ElementOfSeq DEF TypedResult
    <3>2. tools \in [1..Len(result.calls) -> ToolCalls]
      BY <3>1 DEF Calls, ToolCalls
    <3> HIDE DEF tools
    <3> QED
      BY <3>1, <3>2, FunctionIsSequence
  <2> HIDE DEF tools
  <2>2. DOMAIN message = DOMAIN NoMessage /\ message.text = result.text /\ message.tools = tools /\ message.finish = result.finish
    BY DEF NoMessage
  <2> HIDE DEF message
  <2>3. TypedMessage(message)
    BY <1>1, <2>1, <2>2 DEF TypedMessage, TypedResult
  <2>4. DOMAIN u = DOMAIN NoCall /\ u.service = "crynux" /\ u.at = "settled" /\ u.message = message
    BY CallIs
  <2> HIDE DEF u
  <2> QED
    BY <2>3, <2>4 DEF TypedCall
<1> HIDE DEF u, message, tools
<1>5. frames \in Seq(Events) /\ ArgsFollow(frames) /\ EndIsLast(frames) /\ (ask.api = "chat" => RoleFirst(frames))
  BY <1>1, SimulatedFrames
<1> HIDE DEF frames
<1> DEFINE cl == client'
           first == SubSeq(frames, 1, n)
<1>6. /\ first \in Seq(Events) /\ ArgsFollow(first) /\ EndIsLast(first)
      /\ ask.api = "chat" => RoleFirst(first)
  BY <1>5, FirstFrames
<1> HIDE DEF first
<1>7. /\ DOMAIN cl = DOMAIN NoClient /\ cl.frames = first /\ cl.api = ask.api /\ cl.roleSent = FALSE /\ cl.at # "reading"
  BY <1>3 DEF NoClient, first
<1> HIDE DEF cl
<1>8. TypedClient(cl)
  BY <1>6, <1>7 DEF TypedClient
<1>9. FramesKept(u, cl)
  BY <1>4, <1>6, <1>7 DEF FramesKept
<1>10. StreamTyped(u, outbox, channel, cl)
  BY <1>4, <1>8 DEF StreamTyped, StreamInv, StreamKeeps
<1>11. StreamKeeps(u, outbox, channel, cl)
  BY <1>4, <1>7, <1>9, <1>10 DEF StreamKeeps
<1> QED
  BY <1>2, <1>11 DEF StreamInv, cl

-----------------------------------------------------------------------------
(* The answer a request was settled with. *)

IsAnswered(r) == IsAnswer(r.generated) /\ r.ask.tools.choice \in Data
GeneratedKept == request = NoRequest \/ IsAnswered(request)


\* A frame of another kind tells nothing.
LEMMA QuietFrame ==
  ASSUME NEW x \in Events, x.kind \notin {"text", "tool", "args"}
  PROVE  ToldBy(<<x>>) = Silence
<1>1. <<x>> \in Seq(Events) /\ \A j \in DOMAIN <<x>> : <<x>>[j].kind \notin {"text", "tool", "args"}
  BY EventAlone
<1> DEFINE s == <<x>>
<1>2. s \in Seq(Events) /\ \A j \in DOMAIN s : s[j].kind \notin {"text", "tool", "args"}
  BY <1>1
<1> HIDE DEF s
<1>3. SaidAs(s, "text", "tool", "args") = Silence
  BY <1>2, KindsAreSilent
<1> QED
  BY <1>3 DEF ToldBy, s

\* The frames of the end tell nothing.
LEMMA EndTells ==
  ASSUME NEW result, TypedResult(result), NEW includeUsage
  PROVE  EndFrames(result, includeUsage) \in Seq(Events) /\ ToldBy(EndFrames(result, includeUsage)) = Silence
<1> DEFINE e == Event("finish", 0, <<result.finish>>)
           g == Event("usage", 0, <<>>)
           d == Event("done", 0, <<>>)
           usage == IF includeUsage THEN <<g>> ELSE <<>>
<1>1. "finish" \in Kinds /\ "usage" \in Kinds /\ "done" \in Kinds /\ 0 \in Nat
  BY DEF Kinds
<1>2. e \in Events /\ e.kind = "finish"
  <2>1. \A data \in Seq(Data) : Event("finish", 0, data) \in Events /\ Event("finish", 0, data).kind = "finish"
    BY <1>1, FieldsOf
  <2>2. <<result.finish>> \in Seq(Data)
    BY DEF TypedResult
  <2> QED
    BY <2>1, <2>2
<1>3. g \in Events /\ g.kind = "usage" /\ d \in Events /\ d.kind = "done"
  BY <1>1, BareFields
<1>4. EndFrames(result, includeUsage) = (<<e>> \o usage) \o <<d>>
  BY DEF EndFrames, Frame
<1> HIDE DEF e, g, d
<1>5. /\ <<e>> \in Seq(Events) /\ <<g>> \in Seq(Events) /\ <<d>> \in Seq(Events) /\ <<>> \in Seq(Events)
      /\ ToldBy(<<e>>) = Silence /\ ToldBy(<<g>>) = Silence /\ ToldBy(<<d>>) = Silence /\ ToldBy(<<>>) = Silence
  BY <1>2, <1>3, EventAlone, QuietFrame, NothingSays
<1>6. usage \in Seq(Events) /\ ToldBy(usage) = Silence
  BY <1>5
<1> HIDE DEF usage
<1>7. \A s, t \in Seq(Events) : ToldBy(s) = Silence /\ ToldBy(t) = Silence => s \o t \in Seq(Events) /\ ToldBy(s \o t) = Silence
  BY SaidLaws, ThenLaws, ConcatProperties
<1> DEFINE a == <<e>>
           c == <<d>>
<1>8. /\ a \in Seq(Events) /\ c \in Seq(Events) /\ ToldBy(a) = Silence /\ ToldBy(c) = Silence
      /\ EndFrames(result, includeUsage) = (a \o usage) \o c
  BY <1>4, <1>5
<1> HIDE DEF a, c
<1>9. a \o usage \in Seq(Events) /\ ToldBy(a \o usage) = Silence
  BY <1>6, <1>7, <1>8
<1>10. (a \o usage) \o c \in Seq(Events) /\ ToldBy((a \o usage) \o c) = Silence
  BY <1>7, <1>8, <1>9
<1> QED
  BY <1>8, <1>10

\* A simulated stream tells the result.
LEMMA SimulatedTells ==
  ASSUME NEW result, TypedResult(result), NEW includeUsage
  PROVE  /\ ToldBy(StreamChat(result, includeUsage)) = Then([Silence EXCEPT !.text = result.text], SaidOf(result.calls))
         /\ ToldBy(StreamCompletions(result, includeUsage)) = [Silence EXCEPT !.text = result.text]
<1> DEFINE t == TextFrames(result.text)
           c == CallFrames(result.calls)
           r == Event("role", 0, <<>>)
           e == EndFrames(result, includeUsage)
           a == [Silence EXCEPT !.text = result.text]
           b == SaidOf(result.calls)
<1>1. t \in Seq(Events) /\ c \in Seq(Events) /\ e \in Seq(Events) /\ ToldBy(e) = Silence
  BY TextIsBody, CallsAreBody, EndTells DEF TypedResult, Body
<1>2. ToldBy(t) = a /\ ToldBy(c) = b
  BY TextTells, CallsTell DEF TypedResult
<1>3. r \in Events /\ r.kind = "role"
  <2>1. "role" \in Kinds /\ 0 \in Nat
    BY DEF Kinds
  <2> QED
    BY <2>1, BareFields
<1> DEFINE q == <<r>>
<1>4. /\ StreamChat(result, includeUsage) = ((q \o t) \o c) \o e
      /\ StreamCompletions(result, includeUsage) = t \o e
  BY DEF StreamChat, StreamCompletions, Frame
<1> HIDE DEF t, c, r, e, a, b
<1>5. q \in Seq(Events) /\ ToldBy(q) = Silence
  BY <1>3, EventAlone, QuietFrame
<1> HIDE DEF q
<1>6. \A x, y \in Seq(Events) : x \o y \in Seq(Events) /\ ToldBy(x \o y) = Then(ToldBy(x), ToldBy(y))
  BY SaidLaws, ConcatProperties
<1>7. a \in Sayings /\ b \in Sayings
  BY <1>1, <1>2, SaidLaws
<1>8. q \o t \in Seq(Events) /\ ToldBy(q \o t) = a
  BY <1>1, <1>2, <1>5, <1>6, <1>7, ThenLaws
<1>9. (q \o t) \o c \in Seq(Events) /\ ToldBy((q \o t) \o c) = Then(a, b)
  BY <1>1, <1>2, <1>6, <1>8
<1>10. Then(a, b) \in Sayings
  BY <1>7, ThenIs
<1>11. ToldBy(((q \o t) \o c) \o e) = Then(a, b)
  BY <1>1, <1>6, <1>9, <1>10, ThenLaws
<1>12. ToldBy(t \o e) = a
  BY <1>1, <1>2, <1>6, <1>7, ThenLaws
<1> QED
  BY <1>4, <1>11, <1>12 DEF a, b

\* A message with the text and the calls of a result says the result.
LEMMA ResultSays ==
  ASSUME NEW result, TypedResult(result), NEW m, TypedMessage(m), m.text = result.text,
         NEW n, n = Len(result.calls), Len(m.tools) = n, DOMAIN m.tools = DOMAIN result.calls,
         \A i \in DOMAIN m.tools : m.tools[i].args = result.calls[i].args
  PROVE  /\ SaidIn(m) = Then([Silence EXCEPT !.text = result.text], SaidOf(result.calls))
         /\ result.calls = <<>> => SaidIn(m) = [Silence EXCEPT !.text = result.text]
<1> DEFINE a == [Silence EXCEPT !.text = result.text]
           b == SaidOf(result.calls)
           s == SaidIn(m)
<1>0. result.text \in Seq(Data) /\ result.calls \in Seq(Calls)
  BY DEF TypedResult
<1>1. a \in Sayings /\ a.text = result.text /\ a.tools = 0 /\ \A i \in Nat : a.args[i] = <<>>
  BY <1>0, ThenLaws DEF Sayings, Silence
<1>2. /\ b \in Sayings /\ b.text = <<>> /\ b.tools = n
      /\ \A i \in Nat : b.args[i] = IF i \in DOMAIN result.calls THEN result.calls[i].args ELSE <<>>
  BY <1>0, SaidOfIs
<1>3. /\ s \in Sayings /\ s.text = result.text /\ s.tools = n
      /\ \A i \in Nat : s.args[i] = IF i \in DOMAIN result.calls THEN result.calls[i].args ELSE <<>>
  BY MessageSays DEF ArgsOf
<1>4. result.calls = <<>> => n = 0 /\ DOMAIN result.calls = {}
  BY EmptySeq
<1> HIDE DEF a, b, s
<1>5. /\ Then(a, b) \in Sayings /\ Then(a, b).text = a.text \o b.text /\ Then(a, b).tools = a.tools + b.tools
      /\ \A i \in Nat : Then(a, b).args[i] = a.args[i] \o b.args[i]
  BY <1>1, <1>2, ThenIs
<1>6. a.text \o <<>> = a.text /\ \A i \in Nat : <<>> \o b.args[i] = b.args[i]
  <2>1. a.text \in Seq(Data) /\ \A i \in Nat : b.args[i] \in Seq(Data)
    BY <1>1, <1>2 DEF Sayings
  <2> QED
    BY <2>1, ConcatEmptySeq
<1>7. s = Then(a, b)
  <2>1. \A i \in Nat : s.args[i] = Then(a, b).args[i]
    BY <1>1, <1>2, <1>3, <1>5, <1>6
  <2>2. a.tools + b.tools = n
    BY <1>1, <1>2 DEF Sayings
  <2>3. s.text = Then(a, b).text /\ s.tools = Then(a, b).tools
    BY <1>1, <1>2, <1>3, <1>5, <1>6, <2>2
  <2> QED
    BY <1>3, <1>5, <2>1, <2>3, SameSaying
<1>8. ASSUME result.calls = <<>> PROVE s = a
  <2>1. s.tools = 0 /\ \A i \in Nat : s.args[i] = <<>>
    BY <1>3, <1>4, <1>8
  <2> QED
    BY <1>1, <1>3, <2>1, SameSaying
<1> QED
  BY <1>7, <1>8 DEF a, b, s

\* A simulated stream whose end was written told the result, which the call has from then on.
LEMMA CompletedTells ==
  ASSUME StreamInv, NEW answer, IsAnswer(answer), NEW ask, ask.tools.choice \in Data,
         ask.api \in {"chat", "completions"}, WriteCompleted(answer, ask)
  PROVE  TellInv' /\ upstream'.service = "crynux"
<1> DEFINE result == ResultOf(answer, ask)
           frames == IF ask.api = "chat" THEN StreamChat(result, ask.includeUsage)
                     ELSE StreamCompletions(result, ask.includeUsage)
           tools == [i \in DOMAIN result.calls |-> [id |-> result.calls[i].name, args |-> result.calls[i].args, open |-> FALSE]]
           message == [NoMessage EXCEPT !.text = result.text, !.tools = tools, !.finish = result.finish]
           u == [NoCall EXCEPT !.service = "crynux", !.at = "settled", !.message = message]
<1>1. TypedResult(result) /\ (ask.api = "completions" => result.calls = <<>>)
  <2>1. TypedResult(result)
    BY ResultTyped
  <2>2. ask.api = "completions" => result.calls = <<>>
    BY DEF ResultOf, CompletionsResult
  <2> QED
    BY <2>1, <2>2
<1>2. upstream' = u /\ outbox' = outbox /\ channel' = channel
  BY DEF WriteCompleted
<1>3. PICK n \in 0..Len(frames) :
        client' = [NoClient EXCEPT !.at = IF n = Len(frames) THEN "over" ELSE "left", !.api = ask.api,
                                   !.includeUsage = ask.includeUsage, !.frames = SubSeq(frames, 1, n)]
  BY DEF WriteCompleted
<1>4. upstream'.service = "crynux" /\ upstream'.message = message
  <2> HIDE DEF message
  <2> QED
    BY <1>2, CallIs
<1>5. StreamInv'
  BY CompletedKeeps
<1> HIDE DEF result
<1>6. SaidIn(message) = ToldBy(frames)
  <2>1. TypedMessage(message)
    BY <1>4, <1>5 DEF StreamInv, StreamKeeps, StreamTyped, TypedCall
  <2>2. message.text = result.text /\ message.tools = tools
    BY DEF NoMessage
  <2>3. DOMAIN tools = DOMAIN result.calls /\ \A i \in DOMAIN tools : tools[i].args = result.calls[i].args
    OBVIOUS
  <2> HIDE DEF message, tools
  <2>4. Len(tools) = Len(result.calls)
    <3>1. Len(result.calls) \in Nat /\ DOMAIN result.calls = 1..Len(result.calls)
      BY <1>1, LenProperties DEF TypedResult
    <3>2. tools \in Seq(ToolCalls)
      BY <2>1, <2>2 DEF TypedMessage
    <3> QED
      BY <2>3, <3>1, <3>2, LenProperties
  <2>5. /\ SaidIn(message) = Then([Silence EXCEPT !.text = result.text], SaidOf(result.calls))
        /\ result.calls = <<>> => SaidIn(message) = [Silence EXCEPT !.text = result.text]
    BY <1>1, <2>1, <2>2, <2>3, <2>4, ResultSays
  <2> QED
    BY <1>1, <2>5, SimulatedTells
<1>7. frames \in Seq(Events) /\ EndIsLast(frames)
  BY <1>1, SimulatedFrames
<1> HIDE DEF frames, message
<1> DEFINE first == SubSeq(frames, 1, n)
<1>8. client'.frames = first
  BY <1>3 DEF NoClient
<1>9. HasEnd(first) => first = frames
  <2> SUFFICES ASSUME HasEnd(first) PROVE first = frames
    OBVIOUS
  <2>1. Len(frames) \in Nat /\ DOMAIN frames = 1..Len(frames) /\ n \in 0..Len(frames)
    BY <1>7, LenProperties
  <2>2. DOMAIN first = 1..n /\ \A i \in 1..n : first[i] = frames[i]
    <3>1. /\ first \in Seq(Events) /\ Len(first) = IF 1 <= n THEN n - 1 + 1 ELSE 0
          /\ \A i \in 1..(n - 1 + 1) : first[i] = frames[1 + i - 1]
      <4>1. 1 \in Int /\ n \in Int /\ \A i \in 1..n : frames[i] \in Events
        BY <1>7, <2>1, ElementOfSeq
      <4> QED
        BY <4>1, SubSeqProperties
    <3> HIDE DEF first
    <3>2. Len(first) = n
      BY <2>1, <3>1
    <3> QED
      BY <2>1, <3>1, <3>2, LenProperties
  <2> HIDE DEF first
  <2>3. PICK i \in 1..n : frames[i].kind \in {"done", "completed"}
    BY <2>2 DEF HasEnd
  <2>4. i = Len(frames)
    <3>1. i \in 1..Len(frames)
      BY <2>1
    <3> QED
      BY <1>7, <2>1, <2>3, <3>1 DEF EndIsLast, Ends
  <2>5. n = Len(frames)
    <3>1. \A l \in Nat : \A k \in 0..l : \A j \in 1..k : j = l => k = l
      OBVIOUS
    <3> QED
      BY <2>1, <2>4, <3>1
  <2> QED
    BY <1>7, <2>5, SubSeqFull DEF first
<1>10. ToldBy(frames) \in Sayings
  BY <1>7, SaidLaws
<1> HIDE DEF first
<1>11. HasEnd(first) => Tell(first, <<>>, message)
  BY <1>6, <1>9, <1>10, NothingSays, ThenLaws DEF Tell
<1>12. TellKept(upstream', outbox', channel', client')
  BY <1>4, <1>8, <1>11 DEF TellKept, Awaits
<1> QED
  BY <1>4, <1>12 DEF TellInv


\* Two requests with the same answer.
SameAnswer(r, k) == DOMAIN k = RequestNames /\ k.ask = r.ask /\ k.generated = r.generated

LEMMA SameAnswerKept ==
  ASSUME NEW r, NEW k, IsAnswered(r), SameAnswer(r, k)
  PROVE  IsAnswered(k)
BY DEF IsAnswered, SameAnswer

\* A step of the handler leaves the answer alone, and so does a refusal.
LEMMA StepAnswers ==
  ASSUME NEW r, DOMAIN r = RequestNames
  PROVE  /\ \A todo : SameAnswer(r, [r EXCEPT !.todo = todo])
         /\ \A todo, answer : SameAnswer(r, [r EXCEPT !.todo = todo, !.answer = answer])
BY DEF SameAnswer, RequestNames

LEMMA AnswerProceeds ==
  ASSUME NEW r, NEW n, SameAnswer(r, n), Proceed(n)
  PROVE  SameAnswer(r, request')
<1>1. SameAnswer(n, [n EXCEPT !.todo = Tail(n.todo)])
  BY StepAnswers DEF SameAnswer
<1>2. request' = [n EXCEPT !.todo = Tail(n.todo)]
  BY DEF Proceed
<1> QED
  BY <1>1, <1>2 DEF SameAnswer

LEMMA AnswerRefused ==
  ASSUME DOMAIN request = RequestNames, NEW answer, Refuse(answer)
  PROVE  SameAnswer(request, request')
BY StepAnswers DEF Refuse

\* A request that is priced on Crynux, or refused for its price, keeps its answer.
LEMMA PriceAnswers ==
  ASSUME DOMAIN request = RequestNames, NEW time, PriceCrynux(time)
  PROVE  SameAnswer(request, request')
<1> DEFINE r == [request EXCEPT !.time = time, !.median = QueueMedianHint]
<1>1. SameAnswer(request, r)
  BY DEF SameAnswer, RequestNames
<1> HIDE DEF r
<1>2. \/ \E answer : Refuse(answer)
      \/ \E offer, hold : Offered(r, offer, hold)
  BY DEF PriceCrynux, r
<1>3. ASSUME NEW offer, NEW hold, Offered(r, offer, hold) PROVE SameAnswer(request, request')
  <2> DEFINE refused == [r EXCEPT !.offer = offer, !.todo = <<>>, !.answer = "bad_request"]
             offered == [r EXCEPT !.offer = offer, !.hold = hold]
  <2>1. SameAnswer(request, refused) /\ SameAnswer(request, offered)
    BY <1>1 DEF SameAnswer, RequestNames
  <2>2. request' = refused \/ Proceed(offered)
    BY <1>3 DEF Offered
  <2> HIDE DEF refused, offered
  <2> QED
    BY <2>1, <2>2, AnswerProceeds
<1> QED
  BY <1>2, <1>3, AnswerRefused

\* The steps of a request that was received and is not settled yet.
LEMMA HandlerAnswers ==
  ASSUME DOMAIN request = RequestNames,
         \/ ResolveExecution \/ ResolveVram \/ ValidateModel \/ ResolveWish
         \/ PriceFromCache \/ PriceFromRelay \/ PriceFails \/ PriceProvider
         \/ CreateCrynuxJob \/ CreateProviderJob \/ CreateIsRefused
         \/ AnswerText \/ ExecuteProvider \/ StreamIsConfirmed \/ SettleProvider \/ JobFails
  PROVE  SameAnswer(request, request')
<1>1. SameAnswer(request, request)
  BY DEF SameAnswer
<1>2. \A dtype, quant, vram : SameAnswer(request, [request EXCEPT !.dtype = dtype, !.quant = quant, !.vram = vram])
  BY DEF SameAnswer, RequestNames
<1>3. \A dtype, quant : SameAnswer(request, [request EXCEPT !.dtype = dtype, !.quant = quant])
  BY DEF SameAnswer, RequestNames
<1>4. /\ \A vram : SameAnswer(request, [request EXCEPT !.vram = vram])
      /\ \A wish : SameAnswer(request, [request EXCEPT !.wish = wish])
      /\ \A usage : SameAnswer(request, [request EXCEPT !.usage = usage])
      /\ \A charge : SameAnswer(request, [request EXCEPT !.charge = charge])
  BY DEF SameAnswer, RequestNames
<1>5. /\ \A offer, todo, answer : SameAnswer(request, [request EXCEPT !.offer = offer, !.todo = todo, !.answer = answer])
      /\ \A offer, hold : SameAnswer(request, [request EXCEPT !.offer = offer, !.hold = hold])
  BY DEF SameAnswer, RequestNames
<1>6. CASE ResolveExecution
  <2>1. \/ Proceed(request) \/ \E answer : Refuse(answer)
        \/ \E dtype, quant : Proceed([request EXCEPT !.dtype = dtype, !.quant = quant])
        \/ \E dtype, quant, vram : Proceed([request EXCEPT !.dtype = dtype, !.quant = quant, !.vram = vram])
    BY <1>6 DEF ResolveExecution
  <2> QED
    BY <1>1, <1>2, <1>3, <2>1, AnswerProceeds, AnswerRefused
<1>7. CASE ResolveVram
  <2>1. (\E answer : Refuse(answer)) \/ \E vram : Proceed([request EXCEPT !.vram = vram])
    BY <1>7 DEF ResolveVram
  <2> QED
    BY <1>4, <2>1, AnswerProceeds, AnswerRefused
<1>8. CASE ValidateModel
  BY <1>1, <1>8, AnswerProceeds, AnswerRefused DEF ValidateModel
<1>9. CASE ResolveWish
  BY <1>4, <1>9, AnswerProceeds, AnswerRefused DEF ResolveWish
<1>10. CASE PriceFromCache \/ PriceFromRelay \/ PriceFails
  BY <1>10, PriceAnswers, AnswerRefused DEF PriceFromCache, PriceFromRelay, PriceFails
<1>11. CASE PriceProvider
  <2>1. \/ \E offer, todo, answer : request' = [request EXCEPT !.offer = offer, !.todo = todo, !.answer = answer]
        \/ \E offer, hold : request' = [request EXCEPT !.offer = offer, !.hold = hold]
    <3> DEFINE offer == ProviderOffer(request)
               hold == Credits(ProviderAmount(request, offer.priority))
    <3>1. \/ request' = [request EXCEPT !.offer = offer, !.todo = <<>>, !.answer = "bad_request"]
          \/ request' = [request EXCEPT !.offer = offer, !.hold = hold]
      BY <1>11 DEF PriceProvider
    <3> HIDE DEF offer, hold
    <3> QED
      BY <3>1
  <2>2. CASE \E offer, todo, answer : request' = [request EXCEPT !.offer = offer, !.todo = todo, !.answer = answer]
    <3>1. PICK offer, todo, answer : request' = [request EXCEPT !.offer = offer, !.todo = todo, !.answer = answer]
      BY <2>2
    <3>2. SameAnswer(request, [request EXCEPT !.offer = offer, !.todo = todo, !.answer = answer])
      BY <1>5
    <3> QED
      BY <3>1, <3>2
  <2>3. CASE \E offer, hold : request' = [request EXCEPT !.offer = offer, !.hold = hold]
    <3>1. PICK offer, hold : request' = [request EXCEPT !.offer = offer, !.hold = hold]
      BY <2>3
    <3>2. SameAnswer(request, [request EXCEPT !.offer = offer, !.hold = hold])
      BY <1>5
    <3> QED
      BY <3>1, <3>2
  <2> QED
    BY <2>1, <2>2, <2>3
<1>12. CASE CreateCrynuxJob \/ CreateProviderJob \/ CreateIsRefused
  BY <1>1, <1>12, AnswerProceeds, AnswerRefused DEF CreateCrynuxJob, CreateProviderJob, CreateIsRefused
<1>13. CASE AnswerText
  BY <1>1, <1>13, AnswerProceeds DEF AnswerText
<1>14. CASE ExecuteProvider
  BY <1>4, <1>14, AnswerProceeds DEF ExecuteProvider
<1>15. CASE StreamIsConfirmed
  BY <1>4, <1>15, AnswerProceeds DEF StreamIsConfirmed
<1>16. CASE SettleProvider
  BY <1>4, <1>16, AnswerProceeds DEF SettleProvider
<1>17. CASE JobFails
  BY <1>17, AnswerRefused DEF JobFails
<1> QED
  BY <1>6, <1>7, <1>8, <1>9, <1>10, <1>11, <1>12, <1>13, <1>14, <1>15, <1>16, <1>17

\* A request starts with no answer and a choice of tools, and is settled with one of the answers.
LEMMA GeneratedSteps ==
  ASSUME RequestKept, GeneratedKept, RequestNext
  PROVE  GeneratedKept'
<1> SUFFICES IsAnswered(request')
  BY DEF GeneratedKept, IsAnswered
<1>1. CASE Receive
  <2>1. PICK ask \in Asks :
          /\ request'.ask = [ask EXCEPT !.tools.choice = NormalizeToolChoice(ask.tools)]
          /\ request'.generated = NoAnswer
    <3>1. PICK ask \in Asks :
            LET started == [todo |-> StepsOf(ask), answer |-> "none", row |-> project,
                            ask |-> [ask EXCEPT !.tools.choice = NormalizeToolChoice(ask.tools)],
                            dtype |-> ask.dtype, quant |-> ask.quant, vram |-> ask.vram, wish |-> -1, time |-> <<>>,
                            offer |-> Rejected("none"), hold |-> 0, median |-> -1, usage |-> NoUsage,
                            generated |-> NoAnswer, charge |-> -1]
            IN request' = IF ~IsAuthorized(ask.key) THEN [started EXCEPT !.todo = <<>>, !.answer = "unauthorized"]
                          ELSE IF IsRefused(ask) THEN [started EXCEPT !.todo = <<>>, !.answer = "bad_request"]
                          ELSE started
      BY <1>1 DEF Receive
    <3> DEFINE asked == [ask EXCEPT !.tools.choice = NormalizeToolChoice(ask.tools)]
               started == [todo |-> StepsOf(ask), answer |-> "none", row |-> project, ask |-> asked,
                           dtype |-> ask.dtype, quant |-> ask.quant, vram |-> ask.vram, wish |-> -1, time |-> <<>>,
                           offer |-> Rejected("none"), hold |-> 0, median |-> -1, usage |-> NoUsage,
                           generated |-> NoAnswer, charge |-> -1]
    <3>2. request' = started \/ \E answer : request' = [started EXCEPT !.todo = <<>>, !.answer = answer]
      BY <3>1
    <3> HIDE DEF asked
    <3>3. DOMAIN started = RequestNames /\ started.ask = asked /\ started.generated = NoAnswer
      BY DEF RequestNames
    <3> HIDE DEF started
    <3>4. \A answer : SameAnswer(started, [started EXCEPT !.todo = <<>>, !.answer = answer])
      BY <3>3, StepAnswers
    <3>5. request'.ask = asked /\ request'.generated = NoAnswer
      BY <3>2, <3>3, <3>4 DEF SameAnswer
    <3> QED
      BY <3>5 DEF asked
  <2>2. ask \in RequestFields
    BY RequestsAssumption
  <2>3. request'.ask.tools.choice = NormalizeToolChoice(ask.tools)
    BY <2>1, <2>2 DEF RequestFields
  <2>4. NormalizeToolChoice(ask.tools) \in Data
    <3>1. ask.tools.choice \in STRING
      BY <2>2 DEF RequestFields
    <3>2. "none" \in Words /\ "auto" \in Words
      BY DEF Words
    <3> QED
      BY <3>1, <3>2, StringsAreData DEF NormalizeToolChoice
  <2> QED
    BY <2>1, <2>3, <2>4 DEF IsAnswered, IsAnswer
<1>2. ASSUME ~Receive PROVE IsAnswered(request')
  <2>1. ~Idle
    BY <1>2 DEF RequestNext, ResolveExecution, ResolveVram, ValidateModel, ResolveWish, PriceFromCache, PriceFromRelay,
       PriceFails, PriceProvider, CreateCrynuxJob, CreateProviderJob, CreateIsRefused, SettleCrynux, AnswerText,
       ExecuteProvider, StreamIsConfirmed, SettleProvider, JobFails, Doing
  <2>2. DOMAIN request = RequestNames /\ IsAnswered(request)
    BY <2>1 DEF Idle, NoRequest, RequestKept, RequestIs, GeneratedKept
  <2>3. CASE SettleCrynux
    <3>0. PICK a \in Answers : \E charge :
            \/ Proceed([request EXCEPT !.charge = charge])
            \/ Proceed([request EXCEPT !.generated = a, !.charge = charge])
      BY <2>3 DEF SettleCrynux
    <3>1. PICK charge :
            \/ Proceed([request EXCEPT !.charge = charge])
            \/ Proceed([request EXCEPT !.generated = a, !.charge = charge])
      BY <3>0
    <3> DEFINE n == [request EXCEPT !.generated = a, !.charge = charge]
               k == [request EXCEPT !.charge = charge]
    <3>2. /\ DOMAIN n = RequestNames /\ n.ask = request.ask /\ n.generated = a
          /\ SameAnswer(request, k)
      BY <2>2 DEF RequestNames, SameAnswer
    <3>3. Proceed(n) \/ Proceed(k)
      BY <3>1
    <3> HIDE DEF n, k
    <3>4. IsAnswered(n) /\ SameAnswer(n, n)
      BY <2>2, <3>2 DEF IsAnswered, IsAnswer, SameAnswer
    <3> QED
      BY <2>2, <3>2, <3>3, <3>4, AnswerProceeds, SameAnswerKept
  <2>4. CASE ~SettleCrynux
    <3>1. SameAnswer(request, request')
      BY <1>2, <2>2, <2>4, HandlerAnswers DEF RequestNext
    <3> QED
      BY <2>2, <3>1, SameAnswerKept
  <2> QED
    BY <2>3, <2>4
<1> QED
  BY <1>1, <1>2

-----------------------------------------------------------------------------
(* The invariant of the specification. *)

StreamsInv == StreamInv /\ GeneratedKept

LEMMA StreamsInvInit == Init => StreamsInv
BY StreamInvInit DEF Init, StreamsInv, GeneratedKept

\* A step that leaves the streams, or the request, alone.
LEMMA StreamsUnchanged ==
  /\ StreamInv /\ UNCHANGED streamVars => StreamInv'
  /\ GeneratedKept /\ UNCHANGED request => GeneratedKept'
BY DEF StreamInv, streamVars, GeneratedKept, IsAnswered

\* What a request does to the streams.
LEMMA RequestStreams ==
  ASSUME RequestsInv, StreamsInv, RequestNext
  PROVE  StreamInv'
<1>0. StreamInv /\ StreamKept /\ RequestKept /\ GeneratedKept
  BY DEF RequestsInv, StreamsInv
<1>1. CASE UNCHANGED streamVars
  BY <1>0, <1>1, StreamsUnchanged
<1>2. CASE CreateProviderJob
  <2>1. RouteOf(request.ask.model).provider \in ServiceProviders
    BY <1>2, ProviderRoute, RoutesTyped DEF CreateProviderJob
  <2> QED
    BY <1>1, <1>2, <2>1, StreamIsOpened DEF CreateProviderJob
<1>3. CASE AnswerText
  <2>1. IsAnswered(request)
    BY <1>0, <1>3, WorkedOn DEF AnswerText, GeneratedKept, NoRequest, Doing, Idle
  <2> QED
    BY <1>0, <1>1, <1>3, <2>1, CompletedKeeps DEF AnswerText, IsAnswered
<1>4. CASE SettleProvider
  BY <1>0, <1>1, <1>4, StreamInvSteps DEF SettleProvider
<1> QED
  BY <1>1, <1>2, <1>3, <1>4 DEF RequestNext, Receive, ResolveExecution, ResolveVram, ValidateModel, ResolveWish,
     PriceFromCache, PriceFromRelay, PriceFails, PriceProvider, CreateCrynuxJob, CreateIsRefused, SettleCrynux,
     ExecuteProvider, StreamIsConfirmed, JobFails

LEMMA StreamsInvStep == RequestsInv /\ StreamsInv /\ [Next]_vars => StreamsInv'
<1> SUFFICES ASSUME RequestsInv, StreamsInv, [Next]_vars PROVE StreamsInv'
  OBVIOUS
<1>0. StreamInv /\ StreamKept /\ RequestKept /\ GeneratedKept
  BY DEF RequestsInv, StreamsInv
<1>1. CASE RequestNext
  BY <1>0, <1>1, GeneratedSteps, RequestStreams DEF StreamsInv
<1>2. CASE StreamNext /\ UNCHANGED request
  BY <1>0, <1>2, StreamInvSteps, StreamsUnchanged DEF StreamsInv
<1>3. CASE UNCHANGED <<streamVars, request>>
  BY <1>0, <1>3, StreamsUnchanged DEF StreamsInv
<1> QED
  BY <1>1, <1>2, <1>3 DEF Next, vars, RetrySettlement

\* What is written is what the frames are.
LEMMA StreamsAreWellFormed == StreamInv => StreamIsWellFormed
<1> SUFFICES ASSUME StreamInv PROVE StreamIsWellFormed
  OBVIOUS
<1> DEFINE frames == client.frames
<1>1. \A kind : Written(kind) = Places(frames, kind)
  BY DEF Written, Places
<1>2. frames \in Seq(Events) /\ FramesKept(upstream, client)
  BY DEF StreamInv, StreamKeeps, StreamTyped, TypedClient
<1>3. client.api = "chat" =>
        /\ Cardinality(Written("role")) <= 1
        /\ \A i \in Written("text") \cup Written("tool") : \E j \in Written("role") : j < i
  <2> SUFFICES ASSUME client.api = "chat" PROVE Cardinality(Places(frames, "role")) <= 1
    BY <1>1, <1>2 DEF FramesKept, RoleFirst
  <2> DEFINE roles == Places(frames, "role")
  <2>1. \A i, j \in roles : i = j
    BY <1>2 DEF FramesKept, RoleFirst
  <2> HIDE DEF roles
  <2>2. CASE roles = {}
    BY <2>2, FS_EmptySet DEF roles
  <2>3. CASE roles # {}
    <3>1. PICK i : roles = {i}
      BY <2>1, <2>3
    <3>2. Cardinality(roles) = 1
      BY <3>1, FS_Singleton
    <3> QED
      BY <3>2 DEF roles
  <2> QED
    BY <2>2, <2>3
<1>4. \A i \in Written("args") \cup Written("args_done") :
        \E j \in Written("tool") : j < i /\ client.frames[j].index = client.frames[i].index
  BY <1>1, <1>2 DEF FramesKept, ArgsFollow
<1>5. \A i \in Written("error") \cup Written("done") \cup Written("completed") : i = Len(client.frames)
  BY <1>2 DEF FramesKept, EndIsLast, Ends, Written
<1>6. Written("done") \cup Written("completed") \cup Written("usage") # {} => upstream.at = "settled"
  BY <1>2 DEF FramesKept, TellsEnd, Written
<1> QED
  BY <1>3, <1>4, <1>5, <1>6 DEF StreamIsWellFormed

\* In every reachable state a client was written a well-formed stream: the role comes first and once,
\* arguments follow their tool, nothing follows an error or the end, and the end and the usage are told
\* only after the settlement. It holds for every size of the buffer, every provider and any interleaving
\* of the upstream, the runner and the client, and for the streams simulated from a Crynux result.
THEOREM StreamsCorrect == Spec => []StreamIsWellFormed
<1>1. Init => RequestsInv /\ StreamsInv
  BY RequestsInvInit, StreamsInvInit
<1>2. RequestsInv /\ StreamsInv /\ [Next]_vars => (RequestsInv /\ StreamsInv)'
  BY RequestsInvStep, StreamsInvStep
<1>3. RequestsInv /\ StreamsInv => StreamIsWellFormed
  BY StreamsAreWellFormed DEF StreamsInv
<1> QED
  BY <1>1, <1>2, <1>3, PTL DEF Spec


-----------------------------------------------------------------------------
(* A client that was written the end was written the result. *)

\* Outside of a simulated stream no two calls have the same id.
IdsKept == upstream.service # "crynux" => IdsDiffer(upstream.message)

\* What a stream keeps beside StreamInv.
ToldInv == IdsKept /\ TellInv

\* A chunk that is read keeps the ids apart, and continues the calls unless Google leaves ids out.
LEMMA ReadingGoesOn ==
  ASSUME StreamInv, StreamKept, IdsKept, ReadChunk
  PROVE  /\ IdsKept' /\ (OwnIds => Continued)
         /\ upstream'.message # upstream.message => DOMAIN upstream.message.tools \subseteq DOMAIN upstream'.message.tools
<1>1. PICK c \in ChunksOf(upstream.service, upstream.message) :
        upstream' = [upstream EXCEPT !.message = c.message, !.chunks = upstream.chunks + 1]
  BY DEF ReadChunk
<1>2. upstream.at = "reading"
  BY DEF ReadChunk
<1>3. TypedMessage(upstream.message) /\ DOMAIN upstream = {"service", "at", "attempts", "chunks", "message"}
  BY CallIs DEF StreamInv, StreamKeeps, StreamTyped, TypedCall
<1>4. upstream.service \in ServiceProviders /\ upstream.service # "crynux"
  BY <1>2 DEF StreamKept, ServiceProviders
<1>5. GoesOn(upstream.message, c.message) /\ Adds(upstream.message, c)
  BY <1>3, <1>4, ChunksGoOn, ChunksAdd DEF IdsKept
<1>6. upstream'.message = c.message /\ upstream'.service = upstream.service
  BY <1>1, <1>3
<1>7. DOMAIN upstream.message.tools \subseteq DOMAIN c.message.tools
  <2> DEFINE s == upstream.message.tools
             t == c.message.tools
             p == Cardinality(Places(c.events, "tool_start"))
  <2>1. s \in Seq(ToolCalls) /\ t \in Seq(ToolCalls) /\ c.events \in Seq(Events) /\ Len(t) = Len(s) + p
    BY <1>3, <1>5 DEF Adds, TypedMessage
  <2>2. p \in Nat
    BY <2>1, PlacesConcat
  <2> HIDE DEF s, t, p
  <2>3. Len(s) \in Nat /\ DOMAIN s = 1..Len(s) /\ DOMAIN t = 1..Len(t)
    BY <2>1, LenProperties
  <2>4. DOMAIN s \subseteq DOMAIN t
    BY <2>1, <2>2, <2>3
  <2> QED
    BY <2>4 DEF s, t
<1> QED
  BY <1>4, <1>5, <1>6, <1>7 DEF IdsKept, GoesOn, Continued

\* Every other step of a stream leaves its message alone.
LEMMA MessageStays ==
  ASSUME StreamInv, StreamNext \/ SettleStream, ~ReadChunk
  PROVE  upstream'.message = upstream.message /\ upstream'.service = upstream.service
<1>1. DOMAIN upstream = {"service", "at", "attempts", "chunks", "message"}
  BY CallIs DEF StreamInv, StreamKeeps, StreamTyped, TypedCall
<1>2. \A at : At(at) => upstream'.message = upstream.message /\ upstream'.service = upstream.service
  BY <1>1 DEF At
<1>3. \/ upstream' = upstream
      \/ \E at : At(at)
      \/ upstream' = [upstream EXCEPT !.attempts = upstream.attempts + 1]
  BY DEF StreamNext, SettleStream, StreamBegins, KeyIsSwitched, NoOtherKey, CallIsRefused, EndStream, InterruptStream,
     PublishNext, LeaveStream, WriteFrames, ChannelIsClosed, ClientLeaves, At
<1> QED
  BY <1>1, <1>2, <1>3

\* A step of a stream, and a step that leaves the streams alone.
LEMMA ToldSteps ==
  ASSUME StreamInv, StreamKept, ToldInv, ReadChunk => Continued, StreamNext \/ SettleStream
  PROVE  ToldInv'
<1>1. TellInv'
  BY TellSteps DEF ToldInv
<1>2. IdsKept'
  <2>1. CASE ReadChunk
    BY <2>1, ReadingGoesOn DEF ToldInv
  <2>2. CASE ~ReadChunk
    BY <2>2, MessageStays DEF ToldInv, IdsKept
  <2> QED
    BY <2>1, <2>2
<1> QED
  BY <1>1, <1>2 DEF ToldInv

LEMMA ToldUnchanged == ToldInv /\ UNCHANGED streamVars => ToldInv'
BY DEF ToldInv, IdsKept, TellInv, streamVars

\* No stream, and a stream that is opened, has calls.
LEMMA ToldBegins ==
  /\ StreamInit => ToldInv
  /\ \A service, api, includeUsage : OpenStream(service, api, includeUsage) => ToldInv'
<1>1. IdsDiffer(NoMessage)
  <2>1. NoMessage.tools = <<>> /\ DOMAIN <<>> = {}
    BY DEF NoMessage
  <2> QED
    BY <2>1 DEF IdsDiffer
<1>2. StreamInit => IdsKept
  BY <1>1, CallIs DEF StreamInit, IdsKept
<1>3. ASSUME NEW service, NEW api, NEW includeUsage, OpenStream(service, api, includeUsage) PROVE IdsKept'
  BY <1>1, <1>3, CallIs DEF OpenStream, IdsKept
<1> QED
  BY <1>2, <1>3, NothingTold DEF ToldInv

\* What a request does to what is told.
LEMMA RequestTells ==
  ASSUME RequestsInv, StreamsInv, ToldInv, ReadChunk => Continued, RequestNext
  PROVE  ToldInv'
<1>0. StreamInv /\ StreamKept /\ RequestKept /\ GeneratedKept
  BY DEF RequestsInv, StreamsInv
<1>1. CASE UNCHANGED streamVars
  BY <1>1, ToldUnchanged
<1>2. CASE CreateProviderJob
  BY <1>1, <1>2, ToldBegins DEF CreateProviderJob
<1>3. CASE AnswerText
  <2>1. IsAnswered(request) /\ RequestIs(request) /\ request.todo # <<>> /\ Head(request.todo) = "answer"
    BY <1>0, <1>3, WorkedOn DEF AnswerText, GeneratedKept, NoRequest, Doing, Idle
  <2>2. CASE request.ask.stream
    <3>1. "answer" \in StepsFor(request.ask)
      BY <2>1, TailsArePlans DEF RequestIs
    <3>2. request.ask.api \in {"chat", "completions"}
      BY <2>2, <3>1 DEF StepsFor, StreamsText
    <3>3. TellInv' /\ upstream'.service = "crynux"
      BY <1>0, <1>3, <2>1, <2>2, <3>2, CompletedTells DEF AnswerText, IsAnswered
    <3> QED
      BY <3>3 DEF ToldInv, IdsKept
  <2> QED
    BY <1>1, <1>3, <2>2 DEF AnswerText
<1>4. CASE SettleProvider
  BY <1>0, <1>1, <1>4, ToldSteps DEF SettleProvider
<1> QED
  BY <1>1, <1>2, <1>3, <1>4 DEF RequestNext, Receive, ResolveExecution, ResolveVram, ValidateModel, ResolveWish,
     PriceFromCache, PriceFromRelay, PriceFails, PriceProvider, CreateCrynuxJob, CreateIsRefused, SettleCrynux,
     ExecuteProvider, StreamIsConfirmed, JobFails

LEMMA ToldInvStep ==
  ASSUME RequestsInv, StreamsInv, ToldInv, ReadChunk => Continued, [Next]_vars
  PROVE  ToldInv'
<1>0. StreamInv /\ StreamKept
  BY DEF RequestsInv, StreamsInv
<1>1. CASE RequestNext
  BY <1>1, RequestTells
<1>2. CASE StreamNext
  BY <1>0, <1>2, ToldSteps
<1>3. CASE UNCHANGED streamVars
  BY <1>3, ToldUnchanged
<1> QED
  BY <1>1, <1>2, <1>3 DEF Next, vars, RetrySettlement

\* What was told to a client that was written the end is the result.
LEMMA ClientIsTold == StreamInv /\ ToldInv => ClientSeesResult
<1> SUFFICES ASSUME StreamInv, TellInv, Written("done") \cup Written("completed") # {}
             PROVE  /\ Joined("text", 0) = upstream.message.text
                    /\ Cardinality(Written("tool")) = Len(upstream.message.tools)
                    /\ \A i \in DOMAIN upstream.message.tools : Joined("args", i) = upstream.message.tools[i].args
  BY DEF ClientSeesResult, ToldInv
<1> DEFINE frames == client.frames
           m == upstream.message
<1>1. frames \in Seq(Events) /\ TypedMessage(m)
  BY DEF StreamInv, StreamKeeps, StreamTyped, TypedClient, TypedCall
<1>2. \A kind : Written(kind) = Places(frames, kind)
  BY DEF Written, Places
<1>3. HasEnd(frames)
  BY DEF Written, HasEnd
<1>4. Joined("text", 0) = Said(frames, "text", 0) /\ \A i : Joined("args", i) = Said(frames, "args", i)
  BY DEF Joined, Said, Parts
<1>5. Tell(frames, <<>>, m)
  BY <1>3 DEF TellInv, TellKept
<1> HIDE DEF frames, m
<1>6. ToldBy(frames) = SaidIn(m)
  BY <1>1, <1>5, SaidLaws, NothingSays, ThenLaws DEF Tell
<1>7. /\ ToldBy(frames).text = Said(frames, "text", 0) /\ ToldBy(frames).tools = Cardinality(Places(frames, "tool"))
      /\ \A i \in Nat : ToldBy(frames).args[i] = Said(frames, "args", i)
  BY DEF ToldBy, SaidAs
<1>8. /\ SaidIn(m).text = m.text /\ SaidIn(m).tools = Len(m.tools)
      /\ \A i \in Nat : SaidIn(m).args[i] = ArgsOf(m, i)
  BY <1>1, MessageSays
<1>9. \A i \in DOMAIN m.tools : i \in Nat /\ ArgsOf(m, i) = m.tools[i].args
  <2>1. DOMAIN m.tools = 1..Len(m.tools) /\ Len(m.tools) \in Nat
    BY <1>1, LenProperties DEF TypedMessage
  <2> QED
    BY <2>1 DEF ArgsOf
<1>10. Said(frames, "text", 0) = m.text
  BY <1>6, <1>7, <1>8
<1>11. Cardinality(Places(frames, "tool")) = Len(m.tools)
  BY <1>6, <1>7, <1>8
<1>12. \A i \in DOMAIN m.tools : Said(frames, "args", i) = m.tools[i].args
  BY <1>6, <1>7, <1>8, <1>9
<1> QED
  BY <1>2, <1>4, <1>10, <1>11, <1>12 DEF m

\* As long as chunks only continue the calls before them, a client that was written the end of its stream
\* was written the text and the calls that its job was settled with, however small its buffer, whatever
\* was dropped for others, and for the streams simulated from a Crynux result.
THEOREM ContinuedIsTold == Spec /\ CallsAreOnlyContinued => []ClientSeesResult
<1> DEFINE ArgsGrow == [\A i \in DOMAIN upstream.message.tools \cap DOMAIN upstream'.message.tools :
                           IsPrefix(upstream.message.tools[i].args, upstream'.message.tools[i].args)]_upstream
           Inv == RequestsInv /\ StreamsInv /\ ToldInv
<1>1. Init => Inv
  BY RequestsInvInit, StreamsInvInit, ToldBegins DEF Init
<1>2. Inv /\ [Next]_vars /\ ArgsGrow => Inv'
  <2> SUFFICES ASSUME RequestsInv, StreamsInv, ToldInv, [Next]_vars, ArgsGrow PROVE Inv'
    OBVIOUS
  <2>1. RequestsInv' /\ StreamsInv'
    BY RequestsInvStep, StreamsInvStep
  <2>2. ASSUME ReadChunk PROVE Continued
    <3>1. StreamInv /\ StreamKept /\ IdsKept /\ TypedMessage(upstream.message)
      BY DEF RequestsInv, StreamsInv, ToldInv, StreamInv, StreamKeeps, StreamTyped, TypedCall
    <3>2. CASE upstream'.message = upstream.message
      <4>1. \A i \in DOMAIN upstream.message.tools : IsPrefix(upstream.message.tools[i].args, upstream.message.tools[i].args)
        BY <3>1, MessageIs, PrefixIs
      <4> QED
        BY <3>2, <4>1 DEF Continued, Continues
    <3>3. CASE upstream'.message # upstream.message
      <4>1. DOMAIN upstream.message.tools \subseteq DOMAIN upstream'.message.tools
        BY <2>2, <3>1, <3>3, ReadingGoesOn
      <4> QED
        BY <3>3, <4>1 DEF Continued, Continues
    <3> QED
      BY <3>2, <3>3
  <2>3. ToldInv'
    BY <2>2, ToldInvStep
  <2> QED
    BY <2>1, <2>3
<1>3. Inv => ClientSeesResult
  BY ClientIsTold DEF StreamsInv
<1> HIDE DEF Inv
<1> QED
  BY <1>1, <1>2, <1>3, PTL DEF Spec, CallsAreOnlyContinued

\* Where every call has an id of its own that holds without more: neither the bounded buffer, nor the
\* interleaving of the upstream, the runner and the client, nor what Google repeats, takes anything away
\* from a client that is told of the end.
THEOREM ClientsCorrect ==
  ASSUME "" \notin CallIds
  PROVE  Spec => []ClientSeesResult
<1> DEFINE Inv == RequestsInv /\ StreamsInv /\ ToldInv
<1>1. Init => Inv
  BY RequestsInvInit, StreamsInvInit, ToldBegins DEF Init
<1>2. Inv /\ [Next]_vars => Inv'
  <2> SUFFICES ASSUME RequestsInv, StreamsInv, ToldInv, [Next]_vars PROVE Inv'
    OBVIOUS
  <2>1. RequestsInv' /\ StreamsInv'
    BY RequestsInvStep, StreamsInvStep
  <2>2. OwnIds
    BY DEF OwnIds
  <2>3. ReadChunk => Continued
    BY <2>2, ReadingGoesOn DEF RequestsInv, StreamsInv, ToldInv
  <2>4. ToldInv'
    BY <2>3, ToldInvStep
  <2> QED
    BY <2>1, <2>4
<1>3. Inv => ClientSeesResult
  BY ClientIsTold DEF StreamsInv
<1> HIDE DEF Inv
<1> QED
  BY <1>1, <1>2, <1>3, PTL DEF Spec

-----------------------------------------------------------------------------
(* What a client gets of a generated text. *)

\* What DeclaredOf computes, place by place.
PicksUpto(calls, D, n, f) ==
  f = [i \in 0..n |-> IF i = 0 THEN <<>> ELSE IF calls[i].name \in D THEN Append(f[i - 1], calls[i]) ELSE f[i - 1]]

LEMMA PicksExist ==
  ASSUME NEW calls, NEW D, NEW m \in Nat
  PROVE  \E f : PicksUpto(calls, D, m, f)
<1> DEFINE B == {n \in Nat : ~\E g : PicksUpto(calls, D, n, g)}
<1> SUFFICES ASSUME B # {} PROVE FALSE
  OBVIOUS
<1>1. PICK n \in B : \A k \in B : n <= k
  <2>1. B \in SUBSET Nat
    OBVIOUS
  <2> HIDE DEF B
  <2> QED
    BY <2>1, Least
<1>2. n # 0
  <2>1. PicksUpto(calls, D, 0, [i \in 0..0 |-> <<>>])
    BY DEF PicksUpto
  <2> QED
    BY <1>1, <2>1
<1>3. PICK g : PicksUpto(calls, D, n - 1, g)
  <2>1. n - 1 \in Nat /\ ~(n <= n - 1)
    BY <1>1, <1>2
  <2> QED
    BY <1>1, <2>1
<1> DEFINE Next1(i, f) == IF i = 0 THEN <<>> ELSE IF calls[i].name \in D THEN Append(f[i - 1], calls[i]) ELSE f[i - 1]
           h == [i \in 0..n |-> Next1(i, g)]
<1>4. \A i \in 0..n : i # n => h[i] = g[i]
  <2>1. \A i \in 0..n : i # n => i \in 0..(n - 1)
    BY <1>1
  <2>2. \A i \in 0..(n - 1) : g[i] = Next1(i, g)
    BY <1>3 DEF PicksUpto
  <2> QED
    BY <2>1, <2>2
<1>5. PicksUpto(calls, D, n, h)
  <2>1. \A i \in 0..n : i # 0 => h[i - 1] = g[i - 1]
    BY <1>1, <1>4
  <2>2. \A i \in 0..n : h[i] = Next1(i, h)
    BY <2>1
  <2>3. h = [i \in 0..n |-> h[i]]
    OBVIOUS
  <2> HIDE DEF h
  <2>4. h = [i \in 0..n |-> Next1(i, h)]
    BY <2>2, <2>3
  <2> QED
    BY <2>4 DEF PicksUpto
<1> QED
  BY <1>1, <1>5

LEMMA PicksAre ==
  ASSUME NEW calls, NEW D, Len(calls) \in Nat
  PROVE  \E f : /\ f[0] = <<>> /\ DeclaredOf(calls, D) = f[Len(calls)]
                /\ \A i \in 1..Len(calls) :
                     f[i] = IF calls[i].name \in D THEN Append(f[i - 1], calls[i]) ELSE f[i - 1]
<1> DEFINE f == CHOOSE f : PicksUpto(calls, D, Len(calls), f)
<1>1. PicksUpto(calls, D, Len(calls), f)
  BY PicksExist
<1>2. DeclaredOf(calls, D) = f[Len(calls)]
  BY DEF DeclaredOf, PicksUpto
<1> HIDE DEF f
<1>3. \A i \in 0..Len(calls) :
        f[i] = IF i = 0 THEN <<>> ELSE IF calls[i].name \in D THEN Append(f[i - 1], calls[i]) ELSE f[i - 1]
  BY <1>1 DEF PicksUpto
<1>4. f[0] = <<>>
  BY <1>3
<1>5. \A i \in 1..Len(calls) : f[i] = IF calls[i].name \in D THEN Append(f[i - 1], calls[i]) ELSE f[i - 1]
  BY <1>3
<1> QED
  BY <1>2, <1>4, <1>5

\* The calls that are declared, with one call more.
LEMMA DeclaredOfIs ==
  ASSUME NEW S, NEW D
  PROVE  /\ DeclaredOf(<<>>, D) = <<>>
         /\ \A calls \in Seq(S) : \A c \in S :
              DeclaredOf(Append(calls, c), D) =
                IF c.name \in D THEN Append(DeclaredOf(calls, D), c) ELSE DeclaredOf(calls, D)
<1>1. DeclaredOf(<<>>, D) = <<>>
  BY PicksAre
<1>2. ASSUME NEW calls \in Seq(S), NEW c \in S
      PROVE  DeclaredOf(Append(calls, c), D) =
               IF c.name \in D THEN Append(DeclaredOf(calls, D), c) ELSE DeclaredOf(calls, D)
  <2> DEFINE E == Append(calls, c)
             n == Len(calls)
  <2>1. n \in Nat /\ Len(E) = n + 1 /\ (\A i \in 1..n : E[i] = calls[i]) /\ E[n + 1] = c
    BY AppendProperties, LenProperties
  <2> HIDE DEF E
  <2>2. PICK f : /\ f[0] = <<>> /\ DeclaredOf(calls, D) = f[n]
                 /\ \A i \in 1..n : f[i] = IF calls[i].name \in D THEN Append(f[i - 1], calls[i]) ELSE f[i - 1]
    <3>1. Len(calls) \in Nat
      BY <2>1
    <3> QED
      BY <3>1, PicksAre
  <2>3. PICK g : /\ g[0] = <<>> /\ DeclaredOf(E, D) = g[n + 1]
                 /\ \A i \in 1..(n + 1) : g[i] = IF E[i].name \in D THEN Append(g[i - 1], E[i]) ELSE g[i - 1]
    <3>1. Len(E) \in Nat
      BY <2>1
    <3>2. PICK g : /\ g[0] = <<>> /\ DeclaredOf(E, D) = g[Len(E)]
                   /\ \A i \in 1..Len(E) : g[i] = IF E[i].name \in D THEN Append(g[i - 1], E[i]) ELSE g[i - 1]
      BY <3>1, PicksAre
    <3> QED
      BY <2>1, <3>2
  <2> HIDE DEF n
  <2>4. \A i \in 0..n : f[i] = g[i]
    <3> DEFINE B == {i \in 0..n : f[i] # g[i]}
    <3> SUFFICES ASSUME B # {} PROVE FALSE
      OBVIOUS
    <3>1. PICK i \in B : \A k \in B : i <= k
      <4>1. B \in SUBSET Nat
        BY <2>1
      <4> HIDE DEF B
      <4> QED
        BY <4>1, Least
    <3>2. i \in 0..n /\ i # 0 /\ f[i] # g[i]
      BY <2>2, <2>3, <3>1
    <3>3. i \in 1..n /\ i \in 1..(n + 1) /\ i - 1 \in 0..n /\ ~(i <= i - 1)
      BY <2>1, <3>2
    <3>4. f[i - 1] = g[i - 1]
      BY <3>1, <3>3
    <3>5. E[i] = calls[i]
      BY <2>1, <3>3
    <3> QED
      BY <2>2, <2>3, <3>2, <3>3, <3>4, <3>5
  <2>5. n + 1 \in 1..(n + 1) /\ (n + 1) - 1 = n /\ n \in 0..n
    BY <2>1
  <2>6. g[n + 1] = IF c.name \in D THEN Append(g[n], c) ELSE g[n]
    BY <2>1, <2>3, <2>5
  <2> QED
    BY <2>2, <2>3, <2>4, <2>5, <2>6 DEF E
<1> QED
  BY <1>1, <1>2

\* What filterDeclaredToolCalls keeps are the declared calls in their order.
LEMMA DeclaredIs ==
  ASSUME NEW S, NEW tools
  PROVE  \A calls \in Seq(S) : /\ Declared(calls, tools) = DeclaredOf(calls, tools.declared)
                              /\ Declared(calls, tools) \in Seq({c \in S : c.name \in tools.declared})
<1> DEFINE C == {c \in S : c.name \in tools.declared}
           Z == Seq(C)
           Part(c) == IF c.name \in tools.declared THEN <<c>> ELSE <<>>
           Parts1(calls) == [i \in DOMAIN calls |-> Part(calls[i])]
           T == {calls \in Seq(S) : /\ Parts1(calls) \in Seq(Z)
                                    /\ Declared(calls, tools) = DeclaredOf(calls, tools.declared)
                                    /\ Declared(calls, tools) \in Z}
<1>1. \A calls : Declared(calls, tools) = FlattenSeq(Parts1(calls))
  BY DEF Declared
<1>2. \A c \in S : Part(c) \in Z
  <2> SUFFICES ASSUME NEW c \in S PROVE Part(c) \in Z
    OBVIOUS
  <2>1. <<>> \in Z
    BY EmptySeq
  <2>2. c.name \in tools.declared => <<c>> \in Z
    OBVIOUS
  <2> QED
    BY <2>1, <2>2
<1>3. \A A \in Seq(Z) : FlattenSeq(A) \in Z /\ \A x \in Z : FlattenSeq(Append(A, x)) = FlattenSeq(A) \o x
  BY FlattenTyped
<1>4. <<>> \in T
  <2>1. Parts1(<<>>) = <<>>
    OBVIOUS
  <2>2. Declared(<<>>, tools) = <<>>
    BY <1>1, <2>1, FlattenEmpty
  <2>3. <<>> \in Seq(S) /\ <<>> \in Z /\ <<>> \in Seq(Z)
    BY EmptySeq
  <2> HIDE DEF Z, Parts1
  <2> QED
    BY <2>1, <2>2, <2>3, DeclaredOfIs
<1>5. ASSUME NEW calls \in Seq(S) \cap T, NEW c \in S PROVE Append(calls, c) \in T
  <2> DEFINE E == Append(calls, c)
  <2>1. E \in Seq(S) /\ Parts1(calls) \in Seq(Z)
    BY AppendProperties
  <2>2. Parts1(E) = Append(Parts1(calls), Part(c))
    <3>1. Len(calls) \in Nat /\ DOMAIN calls = 1..Len(calls) /\ DOMAIN E = 1..(Len(calls) + 1)
      BY AppendProperties, LenProperties
    <3>2. (\A i \in DOMAIN calls : E[i] = calls[i]) /\ E[Len(calls) + 1] = c
      BY AppendProperties, LenProperties
    <3>3. Parts1(calls) \in [1..Len(calls) -> Z]
      <4>1. \A i \in DOMAIN calls : calls[i] \in S
        BY ElementOfSeq
      <4> HIDE DEF Z, Part
      <4> QED
        BY <1>2, <3>1, <4>1
    <3>4. Len(Parts1(calls)) = Len(calls)
      BY <3>1
    <3> DEFINE L == Append(Parts1(calls), Part(c))
    <3>5. /\ DOMAIN L = 1..(Len(calls) + 1) /\ L[Len(calls) + 1] = Part(c)
          /\ \A i \in 1..Len(calls) : L[i] = Part(calls[i])
      <4>1. Part(c) \in Z
        BY <1>2
      <4>2. /\ Len(L) = Len(calls) + 1 /\ L[Len(calls) + 1] = Part(c) /\ L \in Seq(Z)
            /\ \A i \in 1..Len(calls) : L[i] = Parts1(calls)[i]
        <5> HIDE DEF Part, Parts1, Z
        <5> QED
          BY <2>1, <3>4, <4>1, AppendProperties
      <4>3. \A i \in 1..Len(calls) : Parts1(calls)[i] = Part(calls[i])
        BY <3>1
      <4> HIDE DEF L, Part, Parts1, Z
      <4> QED
        BY <3>1, <4>2, <4>3, LenProperties
    <3>6. L = [i \in DOMAIN E |-> Part(E[i])]
      <4>1. L = [i \in DOMAIN L |-> L[i]]
        OBVIOUS
      <4>2. \A i \in DOMAIN E : L[i] = Part(E[i])
        <5> HIDE DEF L, E, Part, Parts1
        <5> QED
          BY <3>1, <3>2, <3>5
      <4> HIDE DEF L, E, Part, Parts1
      <4> QED
        BY <3>1, <3>5, <4>1, <4>2
    <3> QED
      BY <3>6
  <2>3. Part(c) \in Z
    BY <1>2
  <2>4. Parts1(E) \in Seq(Z)
    <3> HIDE DEF Parts1, Part, Z, E
    <3> QED
      BY <2>1, <2>2, <2>3, AppendProperties
  <2>5. Declared(E, tools) = Declared(calls, tools) \o Part(c) /\ Declared(E, tools) \in Z
    <3> HIDE DEF Parts1, Part, Z, E, T
    <3> QED
      BY <1>1, <1>3, <2>1, <2>2, <2>3, <2>4
  <2>6. DeclaredOf(E, tools.declared) =
          IF c.name \in tools.declared THEN Append(DeclaredOf(calls, tools.declared), c)
          ELSE DeclaredOf(calls, tools.declared)
    <3>1. calls \in Seq(S)
      OBVIOUS
    <3> DEFINE D == tools.declared
    <3> HIDE DEF D
    <3>2. \A s \in Seq(S) : \A x \in S :
            DeclaredOf(Append(s, x), D) = IF x.name \in D THEN Append(DeclaredOf(s, D), x) ELSE DeclaredOf(s, D)
      BY DeclaredOfIs
    <3>3. DeclaredOf(Append(calls, c), D) = IF c.name \in D THEN Append(DeclaredOf(calls, D), c) ELSE DeclaredOf(calls, D)
      BY <3>1, <3>2
    <3> QED
      BY <3>3 DEF D
  <2>7. Declared(calls, tools) = DeclaredOf(calls, tools.declared) /\ Declared(calls, tools) \in Z
    OBVIOUS
  <2>8. Declared(E, tools) = DeclaredOf(E, tools.declared)
    <3> DEFINE d == Declared(calls, tools)
    <3>1. CASE c.name \in tools.declared
      <4>1. Append(d, c) = d \o <<c>> /\ Part(c) = <<c>>
        BY <2>7, <3>1, AppendIsConcat
      <4> HIDE DEF Part, E
      <4> QED
        BY <2>5, <2>6, <2>7, <3>1, <4>1
    <3>2. CASE c.name \notin tools.declared
      <4>1. Part(c) = <<>> /\ d \o <<>> = d
        BY <2>7, <3>2, ConcatEmptySeq
      <4> HIDE DEF Part, E
      <4> QED
        BY <2>5, <2>6, <2>7, <3>2, <4>1
    <3> QED
      BY <3>1, <3>2
  <2> HIDE DEF E, Parts1, Z
  <2> QED
    BY <2>1, <2>4, <2>5, <2>8 DEF E
<1> HIDE DEF T
<1>6. Seq(S) \subseteq T
  BY <1>4, <1>5, AllSequences
<1> QED
  BY <1>6 DEF T

\* The text behind the first k segments, up to the first end of thinking.
ShowsBehind(content, text, k) ==
  /\ text = Shown(content, (k + 1)..Len(content))
  /\ \A i \in 1..k : content[i].kind = "endthink" <=> i = k
  /\ k = 0 => \A i \in DOMAIN content : content[i].kind # "endthink"

\* What a chat or a response is read as.
ReadsAs(result, content, tools) ==
  \/ IsChosenCall(result, content, tools)
  \/ \E read \in SUBSET MayCall(content) : \E out \in SUBSET (read \cup Marks(content)) :
       IsParsed(result, content, tools.declared, read, out)

LEMMA WholeIs ==
  ASSUME NEW result, NEW answer, NEW ask
  PROVE  /\ /\ ask.api = "completions" /\ result.calls = <<>>
            /\ \E k \in 0..Len(answer.content) : ShowsBehind(answer.content, result.text, k)
            => IsWhole(result, answer, ask)
         /\ /\ ask.api # "completions"
            /\ ReadsAs(result, answer.content, ask.tools)
            => IsWhole(result, answer, ask)
BY DEF IsWhole, ShowsBehind, ReadsAs

\* Nothing is shown of no segment, and nothing called.
LEMMA NothingFlattens ==
  ASSUME NEW n \in Nat
  PROVE  FlattenSeq([i \in 1..n |-> <<>>]) = <<>>
<1> DEFINE P == {<<>>}
           A == [i \in 1..n |-> <<>>]
<1>1. P \subseteq Seq({}) /\ \A x, y \in P : x \o y \in P
  BY EmptySeq, ConcatEmptySeq
<1>2. A \in Seq(P)
  <2>1. A \in [1..n -> P]
    OBVIOUS
  <2> HIDE DEF A, P
  <2> QED
    BY <2>1, FunctionIsSequence
<1>3. <<>> \in P
  OBVIOUS
<1> HIDE DEF P, A
<1>4. FlattenSeq(A) \in P
  BY <1>1, <1>2, <1>3, FlattenKeeps
<1> QED
  BY <1>4 DEF P, A

LEMMA NothingTaken ==
  ASSUME NEW content \in Seq(Segments), NEW tools
  PROVE  /\ CallsOf(content, {}, tools) = <<>>
         /\ Called(content, {}, tools.declared) = <<>>
<1>1. Len(content) \in Nat /\ DOMAIN content = 1..Len(content)
  BY SegmentsAre
<1>2. CallsOf(content, {}, tools) = FlattenSeq([i \in 1..Len(content) |-> <<>>])
  BY <1>1 DEF CallsOf
<1>3. Called(content, {}, tools.declared) = FlattenSeq([i \in 1..Len(content) |-> <<>>])
  BY <1>1 DEF Called
<1> QED
  BY <1>1, <1>2, <1>3, NothingFlattens

\* What a parser finds may be calls.
LEMMA FoundMayCall == \A content : DOMAIN content \in SUBSET Nat => Found(content) \subseteq MayCall(content)
<1> SUFFICES ASSUME NEW content, DOMAIN content \in SUBSET Nat PROVE Found(content) \subseteq MayCall(content)
  OBVIOUS
<1>1. ASSUME NEW format PROVE FoundBy(content, format) \subseteq MayCall(content)
  <2> DEFINE same == {i \in DOMAIN content : content[i].kind = "calls" /\ content[i].format = format}
  <2>1. same \subseteq MayCall(content) /\ same \in SUBSET Nat
    BY DEF MayCall
  <2>2. FoundBy(content, format) = IF format \in SectionParsers /\ same # {} THEN {Min(same)} ELSE same
    BY DEF FoundBy
  <2> HIDE DEF same
  <2> QED
    BY <2>1, <2>2, LeastIsMin
<1> QED
  BY <1>1 DEF Found

LEMMA TextIsShown ==
  ASSUME NEW content, NEW taken
  PROVE  TextOf(content, taken) = Shown(content, DOMAIN content \ taken)
<1>1. [i \in DOMAIN content |-> IF i \in taken THEN <<>> ELSE content[i].data]
        = [i \in DOMAIN content |-> IF i \in DOMAIN content \ taken THEN content[i].data ELSE <<>>]
  OBVIOUS
<1> QED
  BY <1>1 DEF TextOf, Shown

\* The calls of what a parser found are all that are declared there.
LEMMA CallsAreDeclared ==
  ASSUME NEW content \in Seq(Segments), NEW found \in SUBSET MayCall(content), NEW tools
  PROVE  /\ CallsOf(content, found, tools) \in Seq({c \in Calls : c.name \in tools.declared})
         /\ CallsOf(content, found, tools) = Called(content, found, tools.declared)
<1> DEFINE C == Seq({c \in Calls : c.name \in tools.declared})
           A == [i \in DOMAIN content |-> IF i \in found THEN Declared(content[i].calls, tools) ELSE <<>>]
<1>1. Len(content) \in Nat /\ DOMAIN content = 1..Len(content)
  BY SegmentsAre
<1>2. \A i \in DOMAIN content : /\ Declared(content[i].calls, tools) = DeclaredOf(content[i].calls, tools.declared)
                               /\ Declared(content[i].calls, tools) \in C
  BY SegmentsAre, DeclaredIs
<1>3. CallsOf(content, found, tools) \in C
  <2>1. <<>> \in C
    BY EmptySeq
  <2> HIDE DEF C
  <2>2. A \in [1..Len(content) -> C]
    BY <1>1, <1>2, <2>1
  <2> HIDE DEF A
  <2>3. A \in Seq(C)
    BY <1>1, <2>2, FunctionIsSequence
  <2> QED
    BY <2>3, FlattenTyped DEF CallsOf, A, C
<1>4. CallsOf(content, found, tools) = Called(content, found, tools.declared)
  <2>1. A = [i \in DOMAIN content |-> IF i \in found THEN DeclaredOf(content[i].calls, tools.declared) ELSE <<>>]
    BY <1>2
  <2> HIDE DEF A
  <2> QED
    BY <2>1 DEF CallsOf, Called, A
<1> QED
  BY <1>3, <1>4

\* Marks are taken out only beside a section of Kimi K3, and hold no calls.
LEMMA MarksAreUnwrapped ==
  ASSUME NEW content
  PROVE  /\ Unwrapped(content) \subseteq Marks(content)
         /\ Marks(content) \cap MayCall(content) = {}
         /\ Unwrapped(content) # {} => \E i \in MayCall(content) : content[i].format = "kimi_k3"
<1> DEFINE opening == {i \in DOMAIN content : content[i].kind = "opening"}
           U == {i \in DOMAIN content : content[i].kind = "closing" \/ (i \in opening /\ \A j \in opening : i <= j)}
<1>1. U \subseteq Marks(content)
  BY DEF Marks
<1>2. Unwrapped(content) =
        IF \A i \in DOMAIN content : content[i].kind = "calls" => content[i].format # "kimi_k3" THEN {} ELSE U
  BY DEF Unwrapped
<1>3. Marks(content) \cap MayCall(content) = {}
  BY DEF Marks, MayCall
<1> HIDE DEF U
<1> QED
  BY <1>1, <1>2, <1>3 DEF MayCall

\* A choice that is not left out: a request got it checked and normalized, or was refused.
IsChosen(tools) == tools.choice \in {"none", "auto", "required"} \cup tools.declared

LEMMA AssistantIsWhole ==
  ASSUME NEW content \in Seq(Segments), NEW tools, IsChosen(tools)
  PROVE  LET n == NormalizeAssistantContentForTask(content, tools)
         IN /\ ReadsAs(n, content, tools)
            /\ \A i \in DOMAIN n.calls : n.calls[i].name \in tools.declared /\ tools.choice # "none"
<1> DEFINE found == IF MayParse(tools) THEN Found(content) ELSE {}
           calls == CallsOf(content, found, tools)
           n == NormalizeAssistantContentForTask(content, tools)
           bare == [name |-> tools.choice, args |-> content[1].data]
           R == Removed(content, found, tools)
           U == Unwrapped(content)
<1>1. \/ n.text = TextOf(content, R \cup U) /\ n.calls = calls /\ calls # <<>>
      \/ IsBareObject(content, tools) /\ n.text = <<>> /\ n.calls = <<bare>>
      \/ n.text = TextOf(content, {}) /\ n.calls = <<>>
  BY DEF NormalizeAssistantContentForTask
<1>2. /\ found \in SUBSET MayCall(content)
      /\ R \subseteq found /\ \A i \in found : i \in R <=> BeginsDeclared(content[i], tools.declared)
  <2>1. DOMAIN content \in SUBSET Nat
    BY SegmentsAre
  <2>2. found \in SUBSET MayCall(content)
    BY <2>1, FoundMayCall
  <2> HIDE DEF found
  <2> QED
    BY <2>2 DEF Removed, BeginsDeclared
<1>3. /\ calls \in Seq({c \in Calls : c.name \in tools.declared})
      /\ calls = Called(content, found, tools.declared)
  <2> HIDE DEF found
  <2> QED
    BY <1>2, CallsAreDeclared
<1>4. \A i \in DOMAIN calls : calls[i].name \in tools.declared
  <2> HIDE DEF calls
  <2> QED
    BY <1>3, ElementOfSeq
<1>5. calls = <<>> \/ tools.choice # "none"
  <2>1. ~MayParse(tools) => calls = <<>>
    BY NothingTaken
  <2> QED
    BY <2>1 DEF MayParse
<1>6. IsBareObject(content, tools) =>
        /\ tools.choice \in tools.declared /\ Len(content) = 1 /\ tools.choice # "none"
        /\ content[1].kind = "object" \/ content[1].format = "llama"
  BY DEF IsBareObject, IsChosen
<1>7. /\ TextOf(content, R \cup U) = Shown(content, DOMAIN content \ (R \cup U))
      /\ TextOf(content, {}) = Shown(content, DOMAIN content \ {})
      /\ Called(content, {}, tools.declared) = <<>>
  BY TextIsShown, NothingTaken
<1>8. DOMAIN <<bare>> = {1} /\ <<bare>>[1] = bare /\ bare.name = tools.choice /\ (\A i \in DOMAIN <<>> : FALSE)
  OBVIOUS
<1>9. /\ U \subseteq Marks(content) /\ Marks(content) \cap MayCall(content) = {}
      /\ U # {} => \E i \in MayCall(content) : content[i].format = "kimi_k3"
  BY MarksAreUnwrapped
<1> HIDE DEF found, calls, n, R, U, bare
<1>10. \A i \in DOMAIN n.calls : n.calls[i].name \in tools.declared /\ tools.choice # "none"
  BY <1>1, <1>4, <1>5, <1>6, <1>8
<1>11. CASE n.text = TextOf(content, R \cup U) /\ n.calls = calls /\ calls # <<>>
  <2> DEFINE out == R \cup U
  <2>1. out \in SUBSET (found \cup Marks(content))
    BY <1>2, <1>9
  <2>2. \A i \in found : i \in out <=> BeginsDeclared(content[i], tools.declared)
    BY <1>2, <1>9
  <2>3. out \cap Marks(content) # {} => U # {}
    BY <1>2, <1>9
  <2>4. n.text = Shown(content, DOMAIN content \ out)
    BY <1>7, <1>11
  <2> HIDE DEF out
  <2>5. IsParsed(n, content, tools.declared, found, out)
    BY <1>3, <1>9, <1>11, <2>2, <2>3, <2>4 DEF IsParsed
  <2> QED
    BY <1>2, <1>10, <2>1, <2>5 DEF ReadsAs, n
<1>12. CASE IsBareObject(content, tools) /\ n.text = <<>> /\ n.calls = <<bare>>
  <2>1. IsChosenCall(n, content, tools)
    BY <1>6, <1>12 DEF IsChosenCall, bare
  <2> QED
    BY <1>10, <2>1 DEF ReadsAs, n
<1>13. CASE n.text = TextOf(content, {}) /\ n.calls = <<>>
  <2>1. {} \in SUBSET MayCall(content) /\ {} \in SUBSET ({} \cup Marks(content))
    OBVIOUS
  <2>2. IsParsed(n, content, tools.declared, {}, {})
    BY <1>7, <1>13 DEF IsParsed
  <2> QED
    BY <1>10, <2>1, <2>2 DEF ReadsAs, n
<1> QED
  BY <1>1, <1>11, <1>12, <1>13

\* Completions show what is behind the first end of thinking.
LEMMA ThinkingIsStripped ==
  ASSUME NEW content \in Seq(Segments)
  PROVE  \E k \in 0..Len(content) : ShowsBehind(content, TextOf(StripThinking(content), {}), k)
<1> DEFINE ends == {i \in DOMAIN content : content[i].kind = "endthink"}
           n == Len(content)
           D == Seq(Data)
<1>1. n \in Nat /\ DOMAIN content = 1..n /\ \A i \in 1..n : content[i].data \in D
  BY SegmentsAre
<1>2. ends \in SUBSET Nat /\ ends \subseteq 1..n
  BY <1>1
<1>3. StripThinking(content) = IF ends = {} THEN content ELSE SubSeq(content, Min(ends) + 1, n)
  BY DEF StripThinking
<1>4. CASE ends = {}
  <2>1. TextOf(content, {}) = Shown(content, 1..n)
    BY <1>1, TextIsShown
  <2>2. \A i \in DOMAIN content : content[i].kind # "endthink"
    BY <1>4
  <2>3. 0 \in 0..n /\ (0 + 1)..n = 1..n /\ \A i \in 1..0 : FALSE
    BY <1>1
  <2> HIDE DEF ends
  <2>4. StripThinking(content) = content
    BY <1>3, <1>4
  <2> QED
    BY <2>1, <2>2, <2>3, <2>4 DEF ShowsBehind
<1>5. CASE ends # {}
  <2> DEFINE k == Min(ends)
             s == SubSeq(content, k + 1, n)
             A == [i \in 1..k |-> <<>>]
             B == [i \in 1..(n - k) |-> content[i + k].data]
             E == [i \in DOMAIN content |-> IF i \in (k + 1)..n THEN content[i].data ELSE <<>>]
  <2>1. k \in ends /\ \A i \in ends : k <= i
    <3> HIDE DEF ends
    <3> QED
      BY <1>2, <1>5, LeastIsMin
  <2>2. k \in 1..n /\ \A i \in 1..k : content[i].kind = "endthink" <=> i = k
    <3>1. k \in 1..n /\ content[k].kind = "endthink"
      BY <1>1, <2>1
    <3>2. \A i \in 1..n : content[i].kind = "endthink" => k <= i
      BY <1>1, <2>1
    <3> HIDE DEF k, ends
    <3> QED
      BY <1>1, <3>1, <3>2
  <2> HIDE DEF ends, k
  <2>3. A \in Seq(D) /\ B \in Seq(D)
    <3>1. <<>> \in D
      BY EmptySeq
    <3> HIDE DEF D
    <3>2. A \in [1..k -> D]
      BY <3>1
    <3>3. B \in [1..(n - k) -> D]
      <4>1. \A i \in 1..(n - k) : i + k \in 1..n
        BY <1>1, <2>2
      <4> QED
        BY <1>1, <4>1
    <3>4. k \in Nat /\ n - k \in Nat
      BY <1>1, <2>2
    <3> HIDE DEF A, B
    <3> QED
      BY <3>2, <3>3, <3>4, FunctionIsSequence
  <2>4. E = A \o B
    <3> DEFINE F == A \o B
    <3>1. Len(A) = k /\ Len(B) = n - k
      BY <1>1, <2>2
    <3>2. /\ F \in Seq(D) /\ Len(F) = n
          /\ \A i \in 1..k : F[i] = A[i]
          /\ \A i \in (k + 1)..n : F[i] = B[i - k]
      <4> HIDE DEF A, B, D
      <4>1. Len(F) = k + (n - k) /\ F \in Seq(D) /\ \A i \in 1..Len(F) : F[i] = IF i <= k THEN A[i] ELSE B[i - k]
        BY <2>3, <3>1, ConcatProperties
      <4> HIDE DEF F
      <4> QED
        BY <1>1, <2>2, <4>1
    <3>3. \A i \in (k + 1)..n : B[i - k] = content[i].data
      <4> SUFFICES ASSUME NEW i \in (k + 1)..n PROVE B[i - k] = content[i].data
        OBVIOUS
      <4>1. i - k \in 1..(n - k) /\ (i - k) + k = i
        BY <1>1, <2>2
      <4> QED
        BY <4>1
    <3>4. \A i \in 1..n : E[i] = F[i]
      <4>1. \A i \in 1..n : i \in (k + 1)..n \/ (i \in 1..k /\ i \notin (k + 1)..n)
        BY <1>1, <2>2
      <4>2. \A i \in 1..k : A[i] = <<>>
        OBVIOUS
      <4>3. \A i \in 1..n : E[i] = IF i \in (k + 1)..n THEN content[i].data ELSE <<>>
        BY <1>1
      <4> HIDE DEF A, B, E, F
      <4> QED
        BY <3>2, <3>3, <4>1, <4>2, <4>3
    <3>5. E = [i \in 1..n |-> E[i]]
      BY <1>1
    <3>6. F = [i \in 1..n |-> F[i]]
      <4> HIDE DEF F, D
      <4> QED
        BY <3>2, LenProperties
    <3> HIDE DEF E, F
    <3> QED
      BY <3>4, <3>5, <3>6 DEF F
  <2>5. FlattenSeq(A) = <<>>
    BY <2>2, NothingFlattens
  <2>6. FlattenSeq(E) = FlattenSeq(B)
    <3>1. FlattenSeq(A \o B) = FlattenSeq(A) \o FlattenSeq(B) /\ FlattenSeq(B) \in Seq(Data)
      <4> HIDE DEF A, B
      <4> QED
        BY <2>3, FlattenConcat, FlattenTyped DEF D
    <3> HIDE DEF A, B, E
    <3> QED
      BY <2>4, <2>5, <3>1, ConcatEmptySeq
  <2>7. [i \in DOMAIN s |-> IF i \in {} THEN <<>> ELSE s[i].data] = B
    <3>1. DOMAIN s = 1..(n - k) /\ \A i \in 1..(n - k) : s[i] = content[i + k]
      <4>1. \A i \in (k + 1)..n : content[i] \in Segments
        BY <1>1, <2>2, ElementOfSeq
      <4>2. k + 1 \in Int /\ n \in Int
        BY <1>1, <2>2
      <4>3. /\ s \in Seq(Segments) /\ Len(s) = (IF k + 1 <= n THEN n - (k + 1) + 1 ELSE 0)
            /\ \A i \in 1..(n - (k + 1) + 1) : s[i] = content[(k + 1) + i - 1]
        <5> DEFINE m == k + 1
                   p == n
        <5> HIDE DEF m, p
        <5>1. m \in Int /\ p \in Int /\ \A i \in m..p : content[i] \in Segments
          BY <4>1, <4>2 DEF m, p
        <5>2. /\ SubSeq(content, m, p) \in Seq(Segments) /\ Len(SubSeq(content, m, p)) = (IF m <= p THEN p - m + 1 ELSE 0)
              /\ \A i \in 1..(p - m + 1) : SubSeq(content, m, p)[i] = content[m + i - 1]
          BY <5>1, SubSeqProperties
        <5> QED
          BY <5>2 DEF m, p
      <4>4. Len(s) = n - k /\ n - (k + 1) + 1 = n - k /\ \A i \in 1..(n - k) : (k + 1) + i - 1 = i + k
        <5>1. k \in Int /\ n \in Int /\ k <= n /\ Len(s) = (IF k + 1 <= n THEN n - (k + 1) + 1 ELSE 0)
          BY <1>1, <2>2, <4>3
        <5> DEFINE l == Len(s)
                   p == n
        <5> HIDE DEF s, l, p
        <5>2. k \in Int /\ p \in Int /\ k <= p /\ l = (IF k + 1 <= p THEN p - (k + 1) + 1 ELSE 0)
          BY <5>1 DEF l, p
        <5>3. l = p - k /\ p - (k + 1) + 1 = p - k /\ \A i \in 1..(p - k) : (k + 1) + i - 1 = i + k
          BY <5>2
        <5> QED
          BY <5>3 DEF l, p
      <4>5. DOMAIN s = 1..Len(s)
        <5> HIDE DEF s
        <5> QED
          BY <4>3, LenProperties
      <4> HIDE DEF s
      <4> QED
        BY <4>3, <4>4, <4>5
    <3> HIDE DEF s
    <3> QED
      BY <3>1
  <2>8. TextOf(s, {}) = Shown(content, (k + 1)..n)
    BY <2>6, <2>7 DEF TextOf, Shown
  <2>9. StripThinking(content) = s
    BY <1>3, <1>5 DEF k
  <2>10. k \in 0..n /\ k # 0
    BY <1>1, <2>2
  <2> HIDE DEF s
  <2> QED
    BY <2>2, <2>8, <2>9, <2>10 DEF ShowsBehind
<1> QED
  BY <1>4, <1>5

-----------------------------------------------------------------------------
(* The result a request is answered with. *)

\* A request that goes on has a choice of tools, and its answer keeps to its cap.
IsAsked(r) ==
  /\ r.ask.completion \in Nat
  /\ IsChosen(r.ask.tools) \/ (r.todo = <<>> /\ r.generated = NoAnswer)
  /\ r.generated = NoAnswer \/ (r.generated \in Answers /\ r.generated.completion <= r.ask.completion)
AskedKept == request = NoRequest \/ IsAsked(request)

\* Receive: what is not refused has a choice that was checked.
LEMMA ReceivedIsAsked == Receive => IsAsked(request')
<1> SUFFICES ASSUME Receive PROVE IsAsked(request')
  OBVIOUS
<1>1. PICK ask \in Asks :
        LET started == [todo |-> StepsOf(ask), answer |-> "none", row |-> project,
                        ask |-> [ask EXCEPT !.tools.choice = NormalizeToolChoice(ask.tools)],
                        dtype |-> ask.dtype, quant |-> ask.quant, vram |-> ask.vram, wish |-> -1, time |-> <<>>,
                        offer |-> Rejected("none"), hold |-> 0, median |-> -1, usage |-> NoUsage,
                        generated |-> NoAnswer, charge |-> -1]
        IN request' = IF ~IsAuthorized(ask.key) THEN [started EXCEPT !.todo = <<>>, !.answer = "unauthorized"]
                      ELSE IF IsRefused(ask) THEN [started EXCEPT !.todo = <<>>, !.answer = "bad_request"]
                      ELSE started
  BY DEF Receive
<1> DEFINE asked == [ask EXCEPT !.tools.choice = NormalizeToolChoice(ask.tools)]
           started == [todo |-> StepsOf(ask), answer |-> "none", row |-> project, ask |-> asked,
                       dtype |-> ask.dtype, quant |-> ask.quant, vram |-> ask.vram, wish |-> -1, time |-> <<>>,
                       offer |-> Rejected("none"), hold |-> 0, median |-> -1, usage |-> NoUsage,
                       generated |-> NoAnswer, charge |-> -1]
<1>2. ask \in RequestFields
  BY RequestsAssumption
<1>3. /\ asked.completion \in Nat /\ asked.tools.declared = ask.tools.declared
      /\ asked.tools.choice = NormalizeToolChoice(ask.tools)
  BY <1>2 DEF RequestFields
<1>4. \/ request' = started /\ ~IsRefused(ask)
      \/ \E answer : request' = [started EXCEPT !.todo = <<>>, !.answer = answer]
  BY <1>1
<1>5. ~IsRefused(ask) => IsChosen(asked.tools)
  <2> SUFFICES ASSUME IsChoice(ask.tools) PROVE IsChosen(asked.tools)
    BY DEF IsRefused
  <2>1. NormalizeToolChoice(ask.tools) \in {"none", "auto", "required"} \cup ask.tools.declared
    BY DEF IsChoice, NormalizeToolChoice
  <2> HIDE DEF asked
  <2> QED
    BY <1>3, <2>1 DEF IsChosen
<1> HIDE DEF asked
<1>6. DOMAIN started = RequestNames /\ started.ask = asked /\ started.generated = NoAnswer
  BY DEF RequestNames
<1> HIDE DEF started
<1>7. \A answer : /\ SameAnswer(started, [started EXCEPT !.todo = <<>>, !.answer = answer])
                  /\ [started EXCEPT !.todo = <<>>, !.answer = answer].todo = <<>>
  BY <1>6, StepAnswers DEF RequestNames
<1>8. request'.ask = asked /\ request'.generated = NoAnswer /\ (~IsRefused(ask) \/ request'.todo = <<>>)
  BY <1>4, <1>6, <1>7 DEF SameAnswer
<1> QED
  BY <1>3, <1>5, <1>8 DEF IsAsked

LEMMA AskedSteps ==
  ASSUME RequestKept, AskedKept, RequestNext
  PROVE  AskedKept'
<1>1. CASE Receive
  BY <1>1, ReceivedIsAsked DEF AskedKept, IsAsked
<1>2. ASSUME ~Receive PROVE IsAsked(request')
  <2>1. ~Idle
    BY <1>2 DEF RequestNext, ResolveExecution, ResolveVram, ValidateModel, ResolveWish, PriceFromCache, PriceFromRelay,
       PriceFails, PriceProvider, CreateCrynuxJob, CreateProviderJob, CreateIsRefused, SettleCrynux, AnswerText,
       ExecuteProvider, StreamIsConfirmed, SettleProvider, JobFails, Doing
  <2>2. DOMAIN request = RequestNames /\ IsAsked(request) /\ IsChosen(request.ask.tools)
    BY <2>1 DEF Idle, NoRequest, RequestKept, RequestIs, AskedKept, IsAsked
  <2>3. CASE SettleCrynux
    <3>1. PICK a \in {a \in Answers : a.prompt <= request.ask.prompt /\ a.completion <= request.ask.completion} : \E charge :
            \/ Proceed([request EXCEPT !.charge = charge])
            \/ Proceed([request EXCEPT !.generated = a, !.charge = charge])
      BY <2>3 DEF SettleCrynux
    <3>2. PICK charge :
            \/ Proceed([request EXCEPT !.charge = charge])
            \/ Proceed([request EXCEPT !.generated = a, !.charge = charge])
      BY <3>1
    <3> DEFINE n == [request EXCEPT !.generated = a, !.charge = charge]
               k == [request EXCEPT !.charge = charge]
    <3>3. /\ DOMAIN n = RequestNames /\ n.ask = request.ask /\ n.generated = a
          /\ SameAnswer(request, k) /\ a \in Answers /\ a.completion <= request.ask.completion
      BY <2>2 DEF RequestNames, SameAnswer
    <3>4. Proceed(n) \/ Proceed(k)
      BY <3>2
    <3> HIDE DEF n, k
    <3>5. SameAnswer(n, n)
      BY <3>3 DEF SameAnswer
    <3>6. SameAnswer(n, request') \/ SameAnswer(request, request')
      BY <3>3, <3>4, <3>5, AnswerProceeds
    <3> QED
      BY <2>2, <3>3, <3>6 DEF IsAsked, SameAnswer
  <2>4. CASE ~SettleCrynux
    <3>1. SameAnswer(request, request')
      BY <1>2, <2>2, <2>4, HandlerAnswers DEF RequestNext
    <3> QED
      BY <2>2, <3>1 DEF IsAsked, SameAnswer
  <2> QED
    BY <2>3, <2>4
<1> QED
  BY <1>1, <1>2 DEF AskedKept, IsAsked

LEMMA AskedStep == RequestKept /\ AskedKept /\ [Next]_vars => AskedKept'
<1> SUFFICES ASSUME RequestKept, AskedKept, [Next]_vars PROVE AskedKept'
  OBVIOUS
<1>1. CASE RequestNext
  BY <1>1, AskedSteps
<1>2. CASE UNCHANGED request
  BY <1>2 DEF AskedKept, IsAsked
<1> QED
  BY <1>1, <1>2 DEF Next, vars, RetrySettlement

\* correctFinishReasonForLengthCap: a cap is told only of an answer that reached it.
LEMMA CappedFinish ==
  ASSUME NEW reason, NEW completion \in Nat, NEW cap \in Nat, completion <= cap
  PROVE  /\ CorrectedFinish(reason, completion, cap) = "length" => completion = cap
         /\ CorrectedFinish(reason, completion, cap) = "tool_calls" <=> reason = "tool_calls"
BY DEF CorrectedFinish

LEMMA AnswersAreWhole == AskedKept => AnswerIsWhole
<1> SUFFICES ASSUME AskedKept, request # NoRequest, request.generated # NoAnswer, ~IsRaw(request.ask)
             PROVE  LET answer == request.generated
                        result == ResultOf(answer, request.ask)
                    IN /\ IsWhole(result, answer, request.ask)
                       /\ \A i \in DOMAIN result.calls :
                            result.calls[i].name \in request.ask.tools.declared /\ request.ask.tools.choice # "none"
                       /\ result.finish = "length" => answer.completion = request.ask.completion
                       /\ request.ask.api = "chat" => (result.finish = "tool_calls" <=> result.calls # <<>>)
  BY DEF AnswerIsWhole, HasResult
<1> DEFINE answer == request.generated
           ask == request.ask
           tools == ask.tools
           content == answer.content
           result == ResultOf(answer, ask)
           n == NormalizeAssistantContentForTask(content, tools)
<1>1. /\ answer \in Answers /\ answer.completion <= ask.completion /\ ask.completion \in Nat /\ IsChosen(tools)
  BY DEF AskedKept, IsAsked
<1> HIDE DEF answer, ask
<1>2. content \in Seq(Segments) /\ answer.completion \in Nat /\ FinishOf(answer) # "tool_calls"
  BY <1>1, AnswersAssumption DEF FinishOf
<1> HIDE DEF content, tools
<1>3. /\ ReadsAs(n, content, tools)
      /\ \A i \in DOMAIN n.calls : n.calls[i].name \in tools.declared /\ tools.choice # "none"
  BY <1>1, <1>2, AssistantIsWhole
<1>4. \A reason : /\ CorrectedFinish(reason, answer.completion, ask.completion) = "length" =>
                       answer.completion = ask.completion
                  /\ CorrectedFinish(reason, answer.completion, ask.completion) = "tool_calls" <=> reason = "tool_calls"
  BY <1>1, <1>2, CappedFinish
<1> HIDE DEF n
<1>5. ASSUME ask.api # "completions", result.text = n.text, result.calls = n.calls
      PROVE  /\ IsWhole(result, answer, ask)
             /\ \A i \in DOMAIN result.calls : result.calls[i].name \in tools.declared /\ tools.choice # "none"
  <2> HIDE DEF result
  <2>1. ReadsAs(result, content, tools)
    BY <1>3, <1>5 DEF ReadsAs, IsChosenCall, IsParsed
  <2> QED
    BY <1>3, <1>5, <2>1, WholeIs DEF content, tools
<1>6. CASE ask.api = "chat"
  <2>1. PICK reason : /\ result = [text |-> n.text, calls |-> n.calls,
                                  finish |-> CorrectedFinish(reason, answer.completion, ask.completion)]
                      /\ reason = "tool_calls" <=> n.calls # <<>>
    <3>1. result = ChatResult(answer, ask)
      BY <1>6 DEF ResultOf
    <3> QED
      BY <1>2, <3>1 DEF ChatResult, n, content, tools
  <2>2. result.text = n.text /\ result.calls = n.calls
        /\ result.finish = CorrectedFinish(reason, answer.completion, ask.completion)
    BY <2>1
  <2> HIDE DEF result
  <2> QED
    BY <1>4, <1>5, <1>6, <2>1, <2>2 DEF answer, ask, tools, content, result
<1>7. CASE ask.api = "completions"
  <2>1. /\ result.calls = <<>> /\ result.text = TextOf(StripThinking(content), {})
        /\ result.finish = CorrectedFinish(FinishOf(answer), answer.completion, ask.completion)
    BY <1>7 DEF ResultOf, CompletionsResult, content
  <2>2. \E k \in 0..Len(content) : ShowsBehind(content, result.text, k)
    BY <1>2, <2>1, ThinkingIsStripped
  <2> HIDE DEF result
  <2>3. IsWhole(result, answer, ask)
    BY <1>7, <2>1, <2>2, WholeIs DEF content
  <2>4. \A i \in DOMAIN result.calls : FALSE
    BY <2>1
  <2> QED
    BY <1>4, <1>7, <2>1, <2>3, <2>4 DEF answer, ask, tools, content, result
<1>8. CASE ask.api \notin {"chat", "completions"}
  <2>1. result.text = n.text /\ result.calls = n.calls /\ result.finish = ""
    BY <1>8 DEF ResultOf, ResponsesResult, n, content, tools
  <2> HIDE DEF result
  <2> QED
    BY <1>5, <1>8, <2>1 DEF answer, ask, tools, content, result
<1> QED
  BY <1>6, <1>7, <1>8

\* In every reachable state the result of a Crynux job is whole.  Either a bare object is the call that was
\* chosen; or calls are read in some segments, all that are declared there and in their order, and the text is
\* the content in its order without those segments that begin with a declared call and, beside a section of
\* Kimi K3, without its marks; and nothing is taken out when nothing is called.  No undeclared tool is called,
\* none when the choice is "none"; a cap is told only of an answer that reached it, and tool_calls is the
\* finish reason just when there are some.  It holds for any generated text, tools and choice.
THEOREM AnswersCorrect == Spec => []AnswerIsWhole
<1>1. Init => RequestsInv /\ AskedKept
  BY RequestsInvInit DEF Init, AskedKept
<1>2. RequestsInv /\ AskedKept /\ [Next]_vars => (RequestsInv /\ AskedKept)'
  BY RequestsInvStep, AskedStep DEF RequestsInv
<1>3. AskedKept => AnswerIsWhole
  BY AnswersAreWhole
<1> QED
  BY <1>1, <1>2, <1>3, PTL DEF Spec
=============================================================================
