---------------------- MODULE TCPCommandServer_proofs ----------------------
(***************************************************************************)
(* TCPCommandServer keeps its sessions as a call of Feed needs them and    *)
(* leaves them, and every connection's history is made of such calls.  In  *)
(* the order of its script: a session stands where the bytes it has read   *)
(* end, and what comes next is what the script has next.                   *)
(***************************************************************************)
EXTENDS TCPCommandServer, SocketCommandSession_proofs

-----------------------------------------------------------------------------
(* The inductive invariant.                                                *)

Notes == [under : Hooks, did : Deeds, context : Contexts, result : Result, observed : BOOLEAN]

Histories ==
  [fed : Nat, log : Seq(Notes), answers : Seq(Seq(Nat)), silent : BOOLEAN, astray : BOOLEAN]

\* A slot: its session is one that Feed can take, and it has the server's hooks.
Attends(slot, c, h) ==
  /\ Settled(slot.session)
  /\ slot.session.config = c
  /\ slot.of # None => slot.session.hooks = h

\* What the hooks of the moment decided, and to each request its answer.
Recorded(mode, h) ==
  /\ \A j \in 1..Len(h.log) : Ruled(h.log[j], h.log[j].under)
  /\ MaximumRequestBytes =< Widest /\ ~h.silent =>
       /\ Len(h.answers) = Len(h.log)
       /\ \A j \in 1..Len(h.log) : Replied(mode, h.log[j], h.answers[j])

Attended ==
  /\ slots \in [Slots -> [of : Connections \cup {None}, session : Session]]
  /\ \A i \in Slots : Attends(slots[i], config, hooks)

Kept ==
  /\ history \in [Connections -> Histories]
  /\ \A k \in Connections : Recorded(config.mode, history[k])

IInv == TypeOK /\ Attended /\ Kept

-----------------------------------------------------------------------------
(* The operators of the server.                                            *)

(* The bounds are numbers.                                                 *)
LEMMA Bounds ==
  /\ MaximumRequestBytes \in Nat /\ HookChanges \in Nat /\ Configs \subseteq Config
  /\ ReadSizes \subseteq Nat \ {0} /\ None \notin Connections
BY ServerAssumption

(* A new session, and one that has the hooks.                              *)
LEMMA NewSessions ==
  ASSUME NEW c \in Config, NEW h \in Hooks
  PROVE  /\ NewSession(c) \in Session /\ Settled(NewSession(c)) /\ NewSession(c).config = c
         /\ [NewSession(c) EXCEPT !.hooks = h] \in Session
         /\ Settled([NewSession(c) EXCEPT !.hooks = h])
         /\ [NewSession(c) EXCEPT !.hooks = h].config = c
         /\ [NewSession(c) EXCEPT !.hooks = h].hooks = h
<1>1. NoHooks \in Hooks
  BY DEF NoHooks, Hooks
<1>2. <<>> \in Seq(Nat) /\ Len(<<>>) = 0 /\ 0 =< MaximumRequestBytes /\ 0 < HeaderBytes
  BY Bounds DEF HeaderBytes
<1>3. PICK s : s = NewSession(c)
  OBVIOUS
<1>4. PICK no \in BOOLEAN : no = FALSE
  OBVIOUS
<1>5. s = [config |-> c, hooks |-> NoHooks, requestID |-> 0, line |-> <<>>, structured |-> <<>>,
           discardUntilNewline |-> no, expectedStructuredBytes |-> 0]
  BY <1>3, <1>4, Zenon DEF NewSession
<1>6. PICK t : t = [s EXCEPT !.hooks = h]
  OBVIOUS
<1>7. t = [config |-> c, hooks |-> h, requestID |-> 0, line |-> <<>>, structured |-> <<>>,
           discardUntilNewline |-> no, expectedStructuredBytes |-> 0]
  BY <1>5, <1>6
<1>8. ASSUME NEW x, NEW g \in Hooks,
             x = [config |-> c, hooks |-> g, requestID |-> 0, line |-> <<>>, structured |-> <<>>,
                  discardUntilNewline |-> no, expectedStructuredBytes |-> 0]
      PROVE  x \in Session /\ Settled(x) /\ x.config = c /\ x.hooks = g
  <2>1. x \in Session
    BY <1>2, <1>8 DEF Session
  <2>2. x.line = <<>> /\ x.structured = <<>> /\ x.expectedStructuredBytes = 0
        /\ x.config = c /\ x.hooks = g
    BY <1>8
  <2>3. Settled(x)
    BY <1>2, <2>2, Zenon DEF Settled, Resting
  <2> QED
    BY <2>1, <2>2, <2>3
<1>9. s \in Session /\ Settled(s) /\ s.config = c
  BY <1>1, <1>5, <1>8
<1>10. t \in Session /\ Settled(t) /\ t.config = c /\ t.hooks = h
  BY <1>7, <1>8
<1> QED
  BY <1>3, <1>6, <1>9, <1>10, Zenon

(* What a client sends is bytes.                                           *)
LEMMA StreamType ==
  ASSUME NEW k \in Connections, config \in Configs
  PROVE  Stream(k) \in Seq(Nat)
<1>1. PICK mode \in {"Line", "StructuredBinary"} : mode = config.mode
  BY Bounds DEF Config
<1>2. PICK requests : requests = Script[k]
  OBVIOUS
<1>3. /\ requests \in Seq(ToSet(requests))
      /\ \A r \in ToSet(requests) : r.text \in Seq(Nat) /\ r.payload \in Seq(Nat)
  BY <1>2, ServerAssumption, Zenon
<1>4. ASSUME NEW r, r.text \in Seq(Nat), r.payload \in Seq(Nat) PROVE SentBytes(mode, r) \in Seq(Nat)
  <2>1. PICK text \in Seq(Nat) : text = r.text
    BY <1>4
  <2>2. PICK payload \in Seq(Nat) : payload = r.payload
    BY <1>4
  <2>3. <<CR, LF>> \in Seq(Nat)
    BY DEF CR, LF
  <2>4. text \o <<CR, LF>> \in Seq(Nat)
    BY <2>3, ConcatProperties
  <2>5. Len(payload) \in Nat
    OBVIOUS
  <2>6. Len(payload) \div 256 \in Nat /\ Len(payload) % 256 \in Nat
    BY <2>5
  <2>7. <<Len(payload) \div 256, Len(payload) % 256>> \in Seq(Nat)
    BY <2>6
  <2>8. FrameStructuredPayload(payload) \in Seq(Nat)
    BY <2>7, ConcatProperties DEF FrameStructuredPayload
  <2> QED
    BY <2>1, <2>2, <2>4, <2>8, Zenon DEF SentBytes
<1>5. PICK pieces : pieces = [i \in DOMAIN requests |-> SentBytes(mode, requests[i])]
  OBVIOUS
<1>6. pieces \in Seq(Seq(Nat))
  <2>1. DOMAIN requests = 1..Len(requests) /\ Len(requests) \in Nat
        /\ \A i \in 1..Len(requests) : requests[i] \in ToSet(requests)
    BY <1>3
  <2>2. \A i \in 1..Len(requests) : SentBytes(mode, requests[i]) \in Seq(Nat)
    BY <1>3, <1>4, <2>1, Zenon
  <2>3. pieces \in [1..Len(requests) -> Seq(Nat)]
    BY <1>5, <2>1, <2>2
  <2> QED
    BY <2>1, <2>3
<1>7. Stream(k) = FlattenSeq(pieces)
  BY <1>1, <1>2, <1>5 DEF Stream, Streams
<1> QED
  BY <1>6, <1>7, FlattenType, Zenon

(* What a read takes of what is left.                                      *)
LEMMA ReadTakes ==
  ASSUME NEW S \in Seq(Nat), NEW fed \in 0..Len(S), NEW size \in Nat \ {0}, NEW left,
         left = SubSeq(S, fed + 1, Len(S)), left # <<>>, NEW n, n = Min({size, Len(left)})
  PROVE  /\ n \in Nat /\ fed + n \in 0..Len(S)
         /\ SubSeq(left, 1, n) \in Seq(Nat) /\ Len(SubSeq(left, 1, n)) = n
<1>1. fed \in Nat /\ fed =< Len(S) /\ Len(S) \in Nat
  OBVIOUS
<1>2. left \in Seq(Nat) /\ Len(left) = Len(S) - fed
  BY <1>1, Pieces
<1>3. Len(left) \in Nat
  BY <1>2
<1>4. PICK pair : pair = {size, Len(left)}
  OBVIOUS
<1>5. pair \in SUBSET Nat /\ pair # {} /\ Len(left) \in pair
  BY <1>3, <1>4
<1>6. Min(pair) \in pair /\ \A x \in pair : Min(pair) =< x
  BY <1>5, Extremes
<1>7. n \in Nat /\ n =< Len(left)
  BY <1>4, <1>5, <1>6
<1>8. fed + n \in 0..Len(S)
  <2>1. \A a, b, l, m \in Nat : a =< l /\ m = l - a /\ b =< m => a + b \in 0..l
    OBVIOUS
  <2> QED
    BY <1>1, <1>2, <1>3, <1>7, <2>1, Zenon
<1>9. SubSeq(left, 1, n) \in Seq(Nat) /\ Len(SubSeq(left, 1, n)) = n
  BY <1>2, <1>7, Pieces
<1> QED
  BY <1>7, <1>8, <1>9

(* An outcome of a read is a call of Feed, all of whose answers are taken  *)
(* if it does not fail.                                                    *)
LEMMA OutcomeFed ==
  ASSUME NEW session \in Session, Settled(session), NEW data \in Seq(Nat),
         NEW o \in Outcomes(session, data)
  PROVE  /\ o.failed \in BOOLEAN
         /\ \E w \in Nat : o.fed = Feed(session, data, w) /\ (~o.failed => w = Len(data))
<1>1. PICK all : all = Feed(session, data, Len(data))
  OBVIOUS
<1>2. Len(data) \in Nat
  OBVIOUS
<1>3. Leaves(session, Len(data), data, all)
  BY <1>1, <1>2, Bounds, Fed
<1>4. all \in Calls
  BY <1>3, Zenon DEF Leaves, Sound
<1>5. all.answers \in Seq(Seq(Nat))
  BY <1>4, CallFields, Zenon
<1>6. Len(all.answers) \in Nat
  BY <1>5
<1>7. \/ o = [fed |-> all, failed |-> FALSE]
      \/ \E taken \in 0..(Len(all.answers) - 1) :
           o = [fed |-> Feed(session, data, taken), failed |-> TRUE]
  BY <1>1, Zenon DEF Outcomes
<1>8. CASE o = [fed |-> all, failed |-> FALSE]
  <2>1. o.fed = all /\ o.failed = FALSE
    BY <1>8
  <2> QED
    BY <1>1, <1>2, <2>1, Zenon
<1>9. ASSUME NEW taken \in 0..(Len(all.answers) - 1),
             o = [fed |-> Feed(session, data, taken), failed |-> TRUE]
      PROVE  /\ o.failed \in BOOLEAN
             /\ \E w \in Nat : o.fed = Feed(session, data, w) /\ (~o.failed => w = Len(data))
  <2>1. taken \in Nat
    BY <1>6
  <2>2. PICK f : f = Feed(session, data, taken)
    OBVIOUS
  <2>3. o.fed = f /\ o.failed = TRUE
    BY <1>9, <2>2
  <2> QED
    BY <2>1, <2>2, <2>3, Zenon
<1> QED
  BY <1>7, <1>8, <1>9, Zenon

\* q is s, and after it t.
After(s, t, q) ==
  /\ Len(q) = Len(s) + Len(t)
  /\ \A j \in 1..Len(q) : q[j] = IF j =< Len(s) THEN s[j] ELSE t[j - Len(s)]

(* One sequence after another.                                             *)
LEMMA OneAfterAnother ==
  ASSUME NEW T, NEW s \in Seq(T), NEW t \in Seq(T), NEW q, q = s \o t
  PROVE  q \in Seq(T) /\ After(s, t, q)
<1>1. q \in Seq(T) /\ Len(q) = Len(s) + Len(t)
  BY ConcatProperties, Zenon
<1>2. \A j \in 1..(Len(s) + Len(t)) : q[j] = IF j =< Len(s) THEN s[j] ELSE t[j - Len(s)]
  BY ConcatProperties, Zenon
<1> QED
  BY <1>1, <1>2, Zenon DEF After

(* The parts of a history.                                                 *)
LEMMA HistoryMade ==
  ASSUME NEW fed \in Nat, NEW log \in Seq(Notes), NEW answers \in Seq(Seq(Nat)),
         NEW silent \in BOOLEAN, NEW astray \in BOOLEAN, NEW g,
         g = [fed |-> fed, log |-> log, answers |-> answers, silent |-> silent, astray |-> astray]
  PROVE  /\ g \in Histories /\ g.fed = fed /\ g.log = log /\ g.answers = answers
         /\ g.silent = silent
BY DEF Histories

(* What is noted of a request is what the call says of it.                 *)
LEMMA NotedEntry ==
  ASSUME hooks \in Hooks, NEW e \in Entry
  PROVE  /\ Noted(e) \in Notes
         /\ Ruled(e, hooks) => Ruled(Noted(e), Noted(e).under)
         /\ \A mode, a : Replied(mode, e, a) => Replied(mode, Noted(e), a)
<1>1. PICK under \in Hooks : under = hooks
  OBVIOUS
<1>2. PICK did \in Deeds : did = e.did
  BY DEF Entry, Deeds
<1>3. PICK context \in Contexts : context = e.context
  BY DEF Entry, Contexts
<1>4. PICK result \in Result : result = e.result
  BY DEF Entry, Result
<1>5. PICK observed \in BOOLEAN : observed = e.observed
  BY DEF Entry
<1>6. PICK n : n = Noted(e)
  OBVIOUS
<1>7. n = [under |-> under, did |-> did, context |-> context, result |-> result,
           observed |-> observed]
  BY <1>1, <1>2, <1>3, <1>4, <1>5, <1>6, Zenon DEF Noted
<1>8. n \in Notes
  BY <1>7, Zenon DEF Notes
<1>9. n.under = under /\ n.did = did /\ n.context = context /\ n.result = result
      /\ n.observed = observed
  BY <1>7, Zenon
<1>10. Ruled(e, hooks) => Ruled(n, n.under)
  BY <1>1, <1>2, <1>3, <1>5, <1>9, Zenon DEF Ruled
<1>11. ASSUME NEW mode, NEW a, Replied(mode, e, a) PROVE Replied(mode, n, a)
  BY <1>2, <1>3, <1>4, <1>9, <1>11, Zenon DEF Replied
<1> QED
  BY <1>6, <1>8, <1>10, <1>11, Zenon

\* g is the history h, and after it what the call f did, when fed bytes have
\* been read in all.
Extends(h, f, failed, fed, astray, g) ==
  /\ astray \in BOOLEAN
  /\ g = [fed |-> fed, log |-> h.log \o [j \in DOMAIN f.log |-> Noted(f.log[j])],
          answers |-> IF h.silent \/ failed THEN <<>> ELSE h.answers \o f.answers,
          silent |-> h.silent \/ failed, astray |-> astray]

\* A call, judged by the hooks there are.
Called(f) == f \in Calls /\ \A j \in 1..Len(f.log) : Ruled(f.log[j], hooks)

\* A call that does not fail answers every request.
Complete(mode, f, failed, w) ==
  MaximumRequestBytes =< Widest /\ ~failed => Matched(mode, f, w)

(* A history, and after it the notes of a call, is a history.              *)
LEMMA Extended ==
  ASSUME hooks \in Hooks, NEW mode, NEW h \in Histories, Recorded(mode, h),
         NEW f, Called(f), NEW failed, NEW w, Complete(mode, f, failed, w),
         NEW fed \in Nat, NEW astray, NEW g, Extends(h, f, failed, fed, astray, g)
  PROVE  g \in Histories /\ Recorded(mode, g) /\ g.fed = fed
<1>1. f \in Calls /\ \A j \in 1..Len(f.log) : Ruled(f.log[j], hooks)
  BY Zenon DEF Called
<1>2. PICK entries \in Seq(Entry) : entries = f.log
  BY <1>1, CallFields, Zenon
<1>3. PICK fresh \in Seq(Seq(Nat)) : fresh = f.answers
  BY <1>1, CallFields, Zenon
<1>4. PICK log \in Seq(Notes) : log = h.log
  BY DEF Histories
<1>5. PICK answers \in Seq(Seq(Nat)) : answers = h.answers
  BY DEF Histories
<1>6. PICK silent \in BOOLEAN : silent = h.silent
  BY DEF Histories
<1>7. PICK notes : notes = [j \in DOMAIN entries |-> Noted(entries[j])]
  OBVIOUS
<1>8. /\ DOMAIN entries = 1..Len(entries) /\ Len(entries) \in Nat
      /\ \A j \in 1..Len(entries) : entries[j] \in Entry
  OBVIOUS
<1>9. ASSUME NEW j \in 1..Len(entries)
      PROVE  /\ notes[j] = Noted(entries[j]) /\ notes[j] \in Notes
             /\ Ruled(notes[j], notes[j].under)
             /\ \A a : Replied(mode, entries[j], a) => Replied(mode, notes[j], a)
  <2>1. notes[j] = Noted(entries[j])
    BY <1>7, <1>8, Zenon
  <2>2. entries[j] \in Entry /\ Ruled(entries[j], hooks)
    BY <1>1, <1>2, <1>8, Zenon
  <2> QED
    BY <2>1, <2>2, NotedEntry, Zenon
<1>10. notes \in Seq(Notes) /\ Len(notes) = Len(entries)
  <2>1. notes = [j \in 1..Len(entries) |-> notes[j]]
    BY <1>7, <1>8, Zenon
  <2>2. notes \in [1..Len(entries) -> Notes]
    BY <1>9, <2>1, Zenon
  <2> QED
    BY <1>8, <2>2, AsSequence, Zenon
<1>11. PICK whole : whole = log \o notes
  OBVIOUS
<1>12. /\ whole \in Seq(Notes) /\ Len(whole) = Len(log) + Len(entries)
       /\ \A j \in 1..Len(whole) : whole[j] = IF j =< Len(log) THEN log[j] ELSE notes[j - Len(log)]
  <2>1. whole \in Seq(Notes) /\ After(log, notes, whole)
    BY <1>10, <1>11, OneAfterAnother, Zenon
  <2> QED
    BY <1>10, <2>1, Zenon DEF After
<1>13. Len(log) \in Nat
  OBVIOUS
<1>14. ASSUME NEW j \in 1..Len(whole)
       PROVE  \/ j \in 1..Len(log) /\ whole[j] = log[j] /\ j =< Len(log)
              \/ /\ j - Len(log) \in 1..Len(entries) /\ whole[j] = notes[j - Len(log)]
                 /\ ~(j =< Len(log))
  <2>1. \A i, a, b \in Nat : i \in 1..(a + b) =>
           (i \in 1..a /\ i =< a) \/ (i - a \in 1..b /\ ~(i =< a))
    OBVIOUS
  <2>2. j \in Nat /\ j \in 1..(Len(log) + Len(entries))
    BY <1>12
  <2>3. (j \in 1..Len(log) /\ j =< Len(log)) \/ (j - Len(log) \in 1..Len(entries) /\ ~(j =< Len(log)))
    BY <1>8, <1>13, <2>1, <2>2, Zenon
  <2> QED
    BY <1>12, <2>3, Zenon
<1>15. PICK s \in BOOLEAN : s = (silent \/ failed)
  OBVIOUS
<1>16. PICK written : written = IF s THEN <<>> ELSE answers \o fresh
  OBVIOUS
<1>17. written \in Seq(Seq(Nat))
  <2>1. answers \o fresh \in Seq(Seq(Nat)) /\ <<>> \in Seq(Seq(Nat))
    BY ConcatProperties
  <2> QED
    BY <1>16, <2>1, Zenon
<1>18. PICK k : k = [fed |-> fed, log |-> whole, answers |-> written, silent |-> s, astray |-> astray]
  OBVIOUS
<1>19. whole \in Seq(Notes) /\ astray \in BOOLEAN
  BY <1>12 DEF Extends
<1>20. k \in Histories /\ k.fed = fed /\ k.log = whole /\ k.answers = written /\ k.silent = s
  BY <1>17, <1>18, <1>19, HistoryMade
<1>21. g = k
  BY <1>2, <1>3, <1>4, <1>5, <1>6, <1>7, <1>11, <1>15, <1>16, <1>18, Zenon DEF Extends
<1>22. g \in Histories /\ g.fed = fed /\ g.log = whole /\ g.answers = written /\ g.silent = s
  BY <1>20, <1>21, Zenon
<1>23. ASSUME NEW j \in 1..Len(whole) PROVE Ruled(whole[j], whole[j].under)
  <2>1. CASE j \in 1..Len(log) /\ whole[j] = log[j]
    BY <1>4, <2>1, Zenon DEF Recorded
  <2>2. CASE j - Len(log) \in 1..Len(entries) /\ whole[j] = notes[j - Len(log)]
    BY <1>9, <2>2, Zenon
  <2> QED
    BY <1>14, <2>1, <2>2, Zenon
<1>24. ASSUME MaximumRequestBytes =< Widest, ~s
       PROVE  Len(written) = Len(whole) /\ \A j \in 1..Len(whole) : Replied(mode, whole[j], written[j])
  <2>1. ~silent /\ ~failed
    BY <1>15, <1>24, Zenon
  <2>2. Matched(mode, f, w)
    BY <1>24, <2>1, Zenon DEF Complete
  <2>3. Len(fresh) = Len(entries) /\ \A j \in 1..Len(entries) : Replied(mode, entries[j], fresh[j])
    BY <1>2, <1>3, <2>2, Zenon DEF Matched
  <2>4. Len(answers) = Len(log) /\ \A j \in 1..Len(log) : Replied(mode, log[j], answers[j])
    BY <1>4, <1>5, <1>6, <1>24, <2>1, Zenon DEF Recorded
  <2>5. written = answers \o fresh
    BY <1>16, <1>24, Zenon
  <2>6. /\ Len(written) = Len(answers) + Len(fresh)
        /\ \A j \in 1..Len(written) :
             written[j] = IF j =< Len(answers) THEN answers[j] ELSE fresh[j - Len(answers)]
    <3>1. After(answers, fresh, written)
      BY <2>5, OneAfterAnother, Zenon
    <3> QED
      BY <3>1, Zenon DEF After
  <2>7. Len(written) = Len(whole)
    BY <1>12, <2>3, <2>4, <2>6, Zenon
  <2>8. ASSUME NEW j \in 1..Len(whole) PROVE Replied(mode, whole[j], written[j])
    <3>1. written[j] = IF j =< Len(log) THEN answers[j] ELSE fresh[j - Len(log)]
      BY <2>4, <2>6, <2>7, <2>8, Zenon
    <3>2. CASE j \in 1..Len(log) /\ whole[j] = log[j] /\ j =< Len(log)
      BY <2>4, <3>1, <3>2, Zenon
    <3>3. CASE /\ j - Len(log) \in 1..Len(entries) /\ whole[j] = notes[j - Len(log)]
               /\ ~(j =< Len(log))
      BY <1>9, <2>3, <3>1, <3>3, Zenon
    <3> QED
      BY <1>14, <3>2, <3>3, Zenon
  <2> QED
    BY <2>7, <2>8
<1> QED
  BY <1>22, <1>23, <1>24, Zenon DEF Recorded

-----------------------------------------------------------------------------
(* The invariant, part by part.                                            *)

Statuses == {"new", "waiting", "open", "lost", "closed"}
Places == [of : Connections \cup {None}, session : Session]

Simple ==
  /\ config \in Configs /\ running \in BOOLEAN /\ hooks \in Hooks /\ changes \in 0..HookChanges
  /\ status \in [Connections -> Statuses]

\* A slot serves a connection that is open or lost, no other slot does, and
\* none does when the server is down.
Live == {"open", "lost"}
Lively(st, run, p) ==
  p.of \in Connections \cup {None} /\ (p.of = None \/ st[p.of] \in Live) /\ (~run => p.of = None)
Alone(sl, i) == \A j \in Slots \ {i} : sl[i].of = None \/ sl[i].of # sl[j].of
Placed(st, run, sl) == \A i \in Slots : Lively(st, run, sl[i]) /\ Alone(sl, i)

Occupied(c, h, sl) == sl \in [Slots -> Places] /\ \A i \in Slots : Attends(sl[i], c, h)

\* A connection's history, none of it beyond what the connection sends.
Remembered(c, k, h) == h \in Histories /\ Recorded(c.mode, h) /\ h.fed \in 0..Len(Streams[c.mode][k])
Memories(c, hi) ==
  DOMAIN hi = Connections /\ hi = [k \in Connections |-> hi[k]]
  /\ \A k \in Connections : Remembered(c, k, hi[k])

(* The invariant is its parts.                                             *)
LEMMA Parts ==
  IInv <=> /\ Simple /\ Placed(status, running, slots) /\ Occupied(config, hooks, slots)
           /\ Memories(config, history)
<1>1. ASSUME IInv
      PROVE  /\ Simple /\ Placed(status, running, slots) /\ Occupied(config, hooks, slots)
             /\ Memories(config, history)
  <2>1. Simple
    BY <1>1, Zenon DEF IInv, TypeOK, Simple, Statuses
  <2>2. Placed(status, running, slots)
    BY <1>1, Zenon DEF IInv, TypeOK, Placed, Lively, Alone, Live
  <2>3. Occupied(config, hooks, slots)
    BY <1>1, Zenon DEF IInv, Attended, Occupied, Places
  <2>4. history \in [Connections -> Histories]
    BY <1>1, Zenon DEF IInv, Kept
  <2>5. /\ DOMAIN history = Connections /\ history = [k \in Connections |-> history[k]]
        /\ \A k \in Connections : history[k] \in Histories
    BY <2>4, Zenon
  <2>6. \A k \in Connections : Recorded(config.mode, history[k])
    BY <1>1, Zenon DEF IInv, Kept
  <2>7. \A k \in Connections : history[k].fed \in 0..Len(Streams[config.mode][k])
    BY <1>1, Zenon DEF IInv, TypeOK, Stream
  <2>8. Memories(config, history)
    BY <2>5, <2>6, <2>7, Zenon DEF Memories, Remembered
  <2> QED
    BY <2>1, <2>2, <2>3, <2>8
<1>2. ASSUME Simple, Placed(status, running, slots), Occupied(config, hooks, slots),
             Memories(config, history)
      PROVE  IInv
  <2>1. Attended
    BY <1>2, Zenon DEF Attended, Occupied, Places
  <2>2. \A k \in Connections : /\ history[k] \in Histories /\ Recorded(config.mode, history[k])
                               /\ history[k].fed \in 0..Len(Stream(k))
    BY <1>2, Zenon DEF Memories, Remembered, Stream
  <2>3. history = [k \in Connections |-> history[k]]
    BY <1>2, Zenon DEF Memories
  <2>4. history \in [Connections -> Histories]
    BY <2>2, <2>3
  <2>5. Kept
    BY <2>2, <2>4, Zenon DEF Kept
  <2>6. TypeOK
    BY <1>2, <2>2, Zenon DEF TypeOK, Simple, Statuses, Placed, Lively, Alone, Live
  <2> QED
    BY <2>1, <2>5, <2>6 DEF IInv
<1> QED
  BY <1>1, <1>2

(* And so after a step.                                                    *)
LEMMA PartsNext ==
  ASSUME Simple', Placed(status', running', slots'), Occupied(config', hooks', slots'),
         Memories(config', history')
  PROVE  IInv'
<1>1. (Simple /\ Placed(status, running, slots) /\ Occupied(config, hooks, slots)
         /\ Memories(config, history))' <=> IInv'
  BY Parts, PTL
<1> QED
  BY <1>1

(* A place, and what is in it.                                             *)
LEMMA PlaceFields ==
  ASSUME NEW p \in Places
  PROVE  p.of \in Connections \cup {None} /\ p.session \in Session
BY DEF Places

(* A place made.                                                           *)
LEMMA PlaceMade ==
  ASSUME NEW of \in Connections \cup {None}, NEW session \in Session, NEW p,
         p = [of |-> of, session |-> session]
  PROVE  p \in Places /\ p.of = of /\ p.session = session
BY DEF Places

(* A place that serves nobody has a new session, with no hooks to have.    *)
LEMMA FreePlace ==
  ASSUME config \in Configs, NEW h
  PROVE  Free \in Places /\ Free.of = None /\ Attends(Free, config, h)
<1>1. PICK session : session = NewSession(config)
  OBVIOUS
<1>2. config \in Config
  BY Bounds
<1>3. NoHooks \in Hooks
  BY DEF NoHooks, Hooks
<1>4. session \in Session /\ Settled(session) /\ session.config = config
  BY <1>1, <1>2, <1>3, NewSessions, Zenon
<1>5. PICK p : p = Free
  OBVIOUS
<1>6. p = [of |-> None, session |-> session]
  BY <1>1, <1>5, Zenon DEF Free
<1>7. None \in Connections \cup {None}
  OBVIOUS
<1>8. p \in Places /\ p.of = None /\ p.session = session
  BY <1>4, <1>6, <1>7, PlaceMade, Zenon
<1> QED
  BY <1>4, <1>5, <1>8, Zenon DEF Attends

(* A history of nothing.                                                   *)
LEMMA NothingRemembered ==
  ASSUME NEW c \in Configs, NEW k \in Connections, Streams[c.mode][k] \in Seq(Nat)
  PROVE  Remembered(c, k, NoHistory)
<1>1. PICK no \in BOOLEAN : no = FALSE
  OBVIOUS
<1>2. PICK h : h = NoHistory
  OBVIOUS
<1>3. PICK fed \in Nat : fed = 0
  OBVIOUS
<1>12. <<>> \in Seq(Notes) /\ <<>> \in Seq(Seq(Nat))
  OBVIOUS
<1>4. PICK log \in Seq(Notes) : log = <<>>
  BY <1>12, Zenon
<1>5. PICK answers \in Seq(Seq(Nat)) : answers = <<>>
  BY <1>12, Zenon
<1>6. h = [fed |-> fed, log |-> log, answers |-> answers, silent |-> no, astray |-> no]
  BY <1>1, <1>2, <1>3, <1>4, <1>5, Zenon DEF NoHistory
<1>7. h \in Histories /\ h.fed = fed /\ h.log = log /\ h.answers = answers
  BY <1>6, HistoryMade
<1>8. Len(<<>>) = 0 /\ ~(\E j \in 1..0 : TRUE)
  OBVIOUS
<1>9. Recorded(c.mode, h)
  BY <1>4, <1>5, <1>7, <1>8, Zenon DEF Recorded
<1>10. 0 \in 0..Len(Streams[c.mode][k])
  <2>1. Len(Streams[c.mode][k]) \in Nat
    OBVIOUS
  <2> QED
    BY <2>1
<1> QED
  BY <1>2, <1>3, <1>7, <1>9, <1>10, Zenon DEF Remembered

-----------------------------------------------------------------------------
(* The first state, and the steps.                                         *)

(* The invariant holds at first.                                           *)
LEMMA Initially ==
  ASSUME Init
  PROVE  IInv
<1>1. config \in Configs /\ hooks = NoHooks /\ changes = 0 /\ running = TRUE
      /\ status = [k \in Connections |-> "new"] /\ slots = [i \in Slots |-> Free]
      /\ history = [k \in Connections |-> NoHistory]
  BY Zenon DEF Init
<1>2. Simple
  <2>1. NoHooks \in Hooks
    BY DEF NoHooks, Hooks
  <2>2. 0 \in 0..HookChanges
    BY Bounds
  <2>3. status \in [Connections -> Statuses]
    BY <1>1 DEF Statuses
  <2> QED
    BY <1>1, <2>1, <2>2, <2>3, Zenon DEF Simple
<1>3. Free \in Places /\ Free.of = None /\ Attends(Free, config, hooks)
  BY <1>1, FreePlace, Zenon
<1>4. PICK free : free = Free
  OBVIOUS
<1>5. slots = [i \in Slots |-> free] /\ \A i \in Slots : slots[i] = free
  BY <1>1, <1>4, Zenon
<1>6. Placed(status, running, slots)
  BY <1>3, <1>4, <1>5, Zenon DEF Placed, Lively, Alone
<1>7. Occupied(config, hooks, slots)
  <2>1. slots \in [Slots -> Places]
    BY <1>3, <1>4, <1>5
  <2> QED
    BY <1>3, <1>4, <1>5, <2>1, Zenon DEF Occupied
<1>8. Memories(config, history)
  <2>1. \A k \in Connections : Streams[config.mode][k] \in Seq(Nat)
    BY <1>1, StreamType, Zenon DEF Stream
  <2>2. \A k \in Connections : Remembered(config, k, NoHistory)
    BY <1>1, <2>1, NothingRemembered, Zenon
  <2> QED
    BY <1>1, <2>2, Zenon DEF Memories
<1> QED
  BY <1>2, <1>6, <1>7, <1>8, Parts

(* A connection's status changes, but that a slot serves it only to lost.  *)
LEMMA StatusMoved ==
  ASSUME IInv, NEW k \in Connections, NEW s \in Statuses, Become(k, s),
         status[k] \in Live => s \in Live,
         UNCHANGED <<config, running, hooks, changes, slots, history>>
  PROVE  IInv'
<1>1. /\ Simple /\ Placed(status, running, slots) /\ Occupied(config, hooks, slots)
      /\ Memories(config, history)
  BY Parts
<1>2. /\ config' = config /\ running' = running /\ hooks' = hooks /\ changes' = changes
      /\ slots' = slots /\ history' = history /\ status' = [status EXCEPT ![k] = s]
  BY Zenon DEF Become
<1>3. status \in [Connections -> Statuses]
  BY <1>1, Zenon DEF Simple
<1>4. status' \in [Connections -> Statuses]
  BY <1>2, <1>3
<1>5. ASSUME NEW c \in Connections PROVE status'[c] = IF c = k THEN s ELSE status[c]
  BY <1>2, <1>3
<1>6. Simple'
  BY <1>1, <1>2, <1>4, Zenon DEF Simple
<1>7. Placed(status', running', slots')
  <2> SUFFICES ASSUME NEW i \in Slots PROVE Lively(status', running', slots'[i]) /\ Alone(slots', i)
    BY Zenon DEF Placed
  <2>1. Lively(status, running, slots[i]) /\ Alone(slots, i)
    BY <1>1, Zenon DEF Placed
  <2>2. PICK p : p = slots[i]
    OBVIOUS
  <2>3. p.of \in Connections => (status[p.of] \in Live => status'[p.of] \in Live)
    BY <1>5, Zenon
  <2>5. ~running' => ~running
    BY <1>2
  <2>4. Lively(status', running', p)
    BY <2>1, <2>2, <2>3, <2>5 DEF Lively
  <2> QED
    BY <1>2, <2>1, <2>2, <2>4, Zenon
<1>8. Occupied(config', hooks', slots') /\ Memories(config', history')
  BY <1>1, <1>2, Zenon
<1> QED
  BY <1>6, <1>7, <1>8, PartsNext

(* A slot is given a place: of nobody, or of whom no other slot serves; the *)
(* connections that other slots serve keep their status.                   *)
LEMMA SlotGiven ==
  ASSUME IInv, NEW i \in Slots, NEW p \in Places, slots' = [slots EXCEPT ![i] = p],
         Lively(status', running, p), Attends(p, config, hooks),
         \A j \in Slots \ {i} : p.of = None \/ slots[j].of # p.of,
         \A j \in Slots \ {i} : slots[j].of # None => status'[slots[j].of] = status[slots[j].of],
         status' \in [Connections -> Statuses],
         UNCHANGED <<config, running, hooks, changes>>,
         Memories(config, history')
  PROVE  IInv'
<1>1. Simple /\ Placed(status, running, slots) /\ Occupied(config, hooks, slots)
  BY Parts
<1>2. config' = config /\ hooks' = hooks /\ changes' = changes /\ running' = running
  OBVIOUS
<1>3. running' \in BOOLEAN
  BY <1>1, <1>2 DEF Simple
<1>4. Simple'
  BY <1>1, <1>2, <1>3, Zenon DEF Simple
<1>5. slots \in [Slots -> Places] /\ \A j \in Slots : Attends(slots[j], config, hooks)
  BY <1>1, Zenon DEF Occupied
<1>6. slots' \in [Slots -> Places]
  BY <1>5, Zenon
<1>7. slots'[i] = p /\ \A j \in Slots \ {i} : slots'[j] = slots[j]
  BY <1>5, Zenon
<1>8. Occupied(config', hooks', slots')
  BY <1>2, <1>5, <1>6, <1>7, Zenon DEF Occupied
<1>9. ASSUME NEW j \in Slots PROVE Lively(status', running', slots'[j]) /\ Alone(slots', j)
  <2>1. CASE j = i
    <3>1. Alone(slots', j)
      BY <1>7, <2>1, Zenon DEF Alone
    <3>2. ~running' => ~running
      BY <1>2
    <3>3. Lively(status', running', p)
      BY <3>2, Zenon DEF Lively
    <3> QED
      BY <1>7, <2>1, <3>1, <3>3, Zenon
  <2>2. CASE j # i
    <3>1. j \in Slots \ {i} /\ slots'[j] = slots[j]
      BY <1>7, <2>2, Zenon
    <3>2. Lively(status, running, slots[j]) /\ Alone(slots, j)
      BY <1>1, Zenon DEF Placed
    <3>3. PICK q : q = slots[j]
      OBVIOUS
    <3>4. q.of # None => status'[q.of] = status[q.of]
      BY <3>1, <3>3, Zenon
    <3>5. ~running' => ~running
      BY <1>2
    <3>6. Lively(status', running', q)
      BY <3>2, <3>3, <3>4, <3>5, Zenon DEF Lively
    <3>7. ASSUME NEW m \in Slots \ {j} PROVE q.of = None \/ q.of # slots'[m].of
      <4>1. CASE m = i
        <5>1. p.of = None \/ q.of # p.of
          BY <3>1, <3>3, Zenon
        <5> QED
          BY <1>7, <4>1, <5>1, Zenon
      <4>2. CASE m # i
        BY <1>7, <3>2, <3>3, <4>2, Zenon DEF Alone
      <4> QED
        BY <4>1, <4>2
    <3>8. Alone(slots', j)
      BY <3>1, <3>3, <3>7, Zenon DEF Alone
    <3> QED
      BY <3>1, <3>3, <3>6, <3>8, Zenon
  <2> QED
    BY <2>1, <2>2
<1>10. Placed(status', running', slots')
  BY <1>9, Zenon DEF Placed
<1>11. Memories(config', history')
  BY <1>2, Zenon
<1> QED
  BY <1>4, <1>8, <1>10, <1>11, PartsNext

(* A slot whose connection is lost becomes free.                           *)
LEMMA Reaped ==
  ASSUME IInv, NEW i \in Slots, ReapClient(i)
  PROVE  IInv'
<1>1. /\ Simple /\ Placed(status, running, slots) /\ Occupied(config, hooks, slots)
      /\ Memories(config, history)
  BY Parts
<1>2. PICK k : k = slots[i].of
  OBVIOUS
<1>3. k # None /\ status' = [status EXCEPT ![k] = "closed"]
      /\ slots' = [slots EXCEPT ![i] = Free] /\ history' = history
      /\ UNCHANGED <<config, running, hooks, changes>>
  BY <1>2, Zenon DEF ReapClient, Lost, Serves, Become
<1>4. Free \in Places /\ Free.of = None /\ Attends(Free, config, hooks)
  BY <1>1, FreePlace, Zenon DEF Simple
<1>5. status \in [Connections -> Statuses] /\ "closed" \in Statuses
  BY <1>1, Zenon DEF Simple, Statuses
<1>6. status' \in [Connections -> Statuses]
  BY <1>3, <1>5, Zenon
<1>7. Lively(status', running, Free)
  BY <1>4, Zenon DEF Lively
<1>8. ASSUME NEW j \in Slots \ {i}, slots[j].of # None
      PROVE  status'[slots[j].of] = status[slots[j].of]
  <2>1. slots[j].of \in Connections
    BY <1>1, <1>8, Zenon DEF Placed, Lively
  <2>2. slots[j].of # k
    BY <1>1, <1>2, <1>3, Zenon DEF Placed, Alone
  <2> QED
    BY <1>3, <1>5, <2>1, <2>2, Zenon
<1>9. Memories(config, history')
  BY <1>1, <1>3, Zenon
<1>10. PICK p : p = Free
  OBVIOUS
<1> QED
  BY <1>3, <1>4, <1>6, <1>7, <1>8, <1>9, <1>10, SlotGiven, Zenon

(* After a shutdown no slot serves anybody.                                *)
LEMMA Stopped ==
  ASSUME IInv, Shutdown
  PROVE  IInv'
<1>1. Simple /\ Memories(config, history)
  BY Parts
<1>2. /\ running' = FALSE /\ slots' = [i \in Slots |-> Free]
      /\ status' = [k \in Connections |-> IF status[k] = "new" THEN "new" ELSE "closed"]
      /\ config' = config /\ hooks' = hooks /\ changes' = changes /\ history' = history
  BY Zenon DEF Shutdown
<1>3. status' \in [Connections -> Statuses]
  BY <1>2 DEF Statuses
<1>4. running' \in BOOLEAN
  BY <1>2
<1>5. Simple'
  BY <1>1, <1>2, <1>3, <1>4, Zenon DEF Simple
<1>6. Free \in Places /\ Free.of = None /\ Attends(Free, config, hooks)
  BY <1>1, FreePlace, Zenon DEF Simple
<1>7. PICK free : free = Free
  OBVIOUS
<1>8. slots' = [i \in Slots |-> free] /\ \A i \in Slots : slots'[i] = free
  BY <1>2, <1>7, Zenon
<1>9. Placed(status', running', slots')
  BY <1>6, <1>7, <1>8, Zenon DEF Placed, Lively, Alone
<1>10. slots' \in [Slots -> Places]
  BY <1>6, <1>7, <1>8
<1>11. Occupied(config', hooks', slots')
  BY <1>2, <1>6, <1>7, <1>8, <1>10, Zenon DEF Occupied
<1>12. Memories(config', history')
  BY <1>1, <1>2, Zenon
<1> QED
  BY <1>5, <1>9, <1>11, <1>12, PartsNext

(* The worker is started again.                                            *)
LEMMA Restarted ==
  ASSUME IInv, Initialize
  PROVE  IInv'
<1>1. /\ Simple /\ Placed(status, running, slots) /\ Occupied(config, hooks, slots)
      /\ Memories(config, history)
  BY Parts
<1>2. /\ running' = TRUE /\ config' = config /\ hooks' = hooks /\ changes' = changes
      /\ status' = status /\ slots' = slots /\ history' = history
  BY Zenon DEF Initialize
<1>3. running' \in BOOLEAN
  BY <1>2
<1>4. Simple'
  BY <1>1, <1>2, <1>3, Zenon DEF Simple
<1>5. Placed(status', running', slots')
  BY <1>1, <1>2, Zenon DEF Placed, Lively
<1>6. Occupied(config', hooks', slots') /\ Memories(config', history')
  BY <1>1, <1>2, Zenon
<1> QED
  BY <1>4, <1>5, <1>6, PartsNext

(* A place whose session is handed the hooks.                              *)
LEMMA HooksHanded ==
  ASSUME NEW p \in Places, NEW c, NEW g, NEW h \in Hooks, Attends(p, c, g), NEW q,
         q = [p EXCEPT !.session.hooks = h]
  PROVE  q \in Places /\ q.of = p.of /\ Attends(q, c, h)
<1>1. PICK of \in Connections \cup {None} : of = p.of
  BY PlaceFields, Zenon
<1>2. PICK s \in Session : s = p.session
  BY PlaceFields, Zenon
<1>3. p = [of |-> of, session |-> s]
  BY <1>1, <1>2 DEF Places
<1>4. PICK t : t = [s EXCEPT !.hooks = h]
  OBVIOUS
<1>5. q = [of |-> of, session |-> t]
  BY <1>3, <1>4
<1>6. PICK co, id, l, st, d, x : co = s.config /\ id = s.requestID /\ l = s.line
        /\ st = s.structured /\ d = s.discardUntilNewline /\ x = s.expectedStructuredBytes
  OBVIOUS
<1>7. PICK hh : hh = s.hooks
  OBVIOUS
<1>8. s = [config |-> co, hooks |-> hh, requestID |-> id, line |-> l, structured |-> st,
           discardUntilNewline |-> d, expectedStructuredBytes |-> x]
  BY <1>6, <1>7 DEF Session
<1>9. t = [config |-> co, hooks |-> h, requestID |-> id, line |-> l, structured |-> st,
           discardUntilNewline |-> d, expectedStructuredBytes |-> x]
  BY <1>4, <1>8
<1>10. t \in Session
  BY <1>6, <1>9, SessionFields DEF Session
<1>11. t.config = s.config /\ t.hooks = h /\ t.line = s.line /\ t.structured = s.structured
       /\ t.expectedStructuredBytes = s.expectedStructuredBytes
  BY <1>6, <1>9
<1>12. Settled(s) /\ s.config = c
  BY <1>2, Zenon DEF Attends
<1>13. Settled(t) /\ t.config = c
  BY <1>11, <1>12, Zenon DEF Settled, Resting
<1>14. q \in Places /\ q.of = of /\ q.session = t
  BY <1>5, <1>10 DEF Places
<1> QED
  BY <1>1, <1>11, <1>13, <1>14, Zenon DEF Attends

(* The hooks are set: sessions that serve somebody have them.              *)
LEMMA HooksChanged ==
  ASSUME IInv, NEW h \in Hooks, SetHooks(h)
  PROVE  IInv'
<1>1. /\ Simple /\ Placed(status, running, slots) /\ Occupied(config, hooks, slots)
      /\ Memories(config, history)
  BY Parts
<1>2. /\ changes < HookChanges /\ changes' = changes + 1 /\ hooks' = h
      /\ slots' = [i \in Slots |-> IF slots[i].of = None THEN slots[i]
                                   ELSE [slots[i] EXCEPT !.session.hooks = h]]
      /\ config' = config /\ running' = running /\ status' = status /\ history' = history
  BY Zenon DEF SetHooks, Serves
<1>3. changes' \in 0..HookChanges
  BY <1>1, <1>2, Bounds DEF Simple
<1>4. running' \in BOOLEAN
  BY <1>1, <1>2 DEF Simple
<1>5. Simple'
  BY <1>1, <1>2, <1>3, <1>4, Zenon DEF Simple
<1>6. ASSUME NEW i \in Slots
      PROVE  slots'[i] \in Places /\ slots'[i].of = slots[i].of /\ Attends(slots'[i], config, h)
  <2>1. PICK p \in Places : p = slots[i]
    BY <1>1, Zenon DEF Occupied
  <2>2. Attends(p, config, hooks)
    BY <1>1, <2>1, Zenon DEF Occupied
  <2>3. CASE p.of = None
    <3>1. slots'[i] = p
      BY <1>2, <2>1, <2>3, Zenon
    <3>2. Attends(p, config, h)
      BY <2>2, <2>3, Zenon DEF Attends
    <3> QED
      BY <2>1, <3>1, <3>2, Zenon
  <2>4. CASE p.of # None
    <3>1. PICK q : q = [p EXCEPT !.session.hooks = h]
      OBVIOUS
    <3>2. slots'[i] = q
      BY <1>2, <2>1, <2>4, <3>1, Zenon
    <3>3. q \in Places /\ q.of = p.of /\ Attends(q, config, h)
      BY <2>2, <3>1, HooksHanded
    <3> QED
      BY <2>1, <3>2, <3>3, Zenon
  <2> QED
    BY <2>3, <2>4
<1>7. slots' \in [Slots -> Places]
  <2>1. slots' = [i \in Slots |-> slots'[i]]
    BY <1>2, Zenon
  <2> QED
    BY <1>6, <2>1, Zenon
<1>8. Occupied(config', hooks', slots')
  BY <1>2, <1>6, <1>7, Zenon DEF Occupied
<1>9. ASSUME NEW i \in Slots PROVE Lively(status', running', slots'[i]) /\ Alone(slots', i)
  <2>1. Lively(status, running, slots[i]) /\ Alone(slots, i)
    BY <1>1, Zenon DEF Placed
  <2>2. ~running' => ~running
    BY <1>2
  <2>3. Lively(status', running', slots'[i])
    BY <1>2, <1>6, <2>1, <2>2, Zenon DEF Lively
  <2>4. Alone(slots', i)
    BY <1>6, <2>1, Zenon DEF Alone
  <2> QED
    BY <2>3, <2>4
<1>10. Placed(status', running', slots')
  BY <1>9, Zenon DEF Placed
<1>11. Memories(config', history')
  BY <1>1, <1>2, Zenon
<1> QED
  BY <1>5, <1>8, <1>10, <1>11, PartsNext

(* A connection is accepted, into a slot that serves nobody any more.      *)
LEMMA Accepted ==
  ASSUME IInv, NEW k \in Connections, NEW i \in Slots, AcceptClient(k, i)
  PROVE  IInv'
<1>1. /\ Simple /\ Placed(status, running, slots) /\ Occupied(config, hooks, slots)
      /\ Memories(config, history)
  BY Parts
<1>2. status[k] = "waiting" /\ UNCHANGED <<config, running, hooks, changes>>
  BY Zenon DEF AcceptClient, Accept
<1>3. status' = [c \in Connections |-> IF c = k THEN "open" ELSE IF slots[i].of = c THEN "closed"
                                       ELSE status[c]]
  BY Zenon DEF AcceptClient, Accept, Serves
<1>4. history' = [c \in Connections |-> IF \E j \in Slots \ {i} : slots[j].of = c THEN history[c]
                                        ELSE NoHistory]
  BY Zenon DEF AcceptClient, Accept, Serves
<1>5. PICK session : session = [NewSession(config) EXCEPT !.hooks = hooks]
  OBVIOUS
<1>6. PICK p : p = [of |-> k, session |-> session]
  OBVIOUS
<1>7. slots' = [slots EXCEPT ![i] = p]
  BY <1>5, <1>6, Zenon DEF AcceptClient
<1>8. config \in Config /\ hooks \in Hooks
  BY <1>1, Bounds, Zenon DEF Simple
<1>9. session \in Session /\ Settled(session) /\ session.config = config /\ session.hooks = hooks
  BY <1>5, <1>8, NewSessions, Zenon
<1>10. k \in Connections \cup {None} /\ k # None
  BY Bounds
<1>11. p \in Places /\ p.of = k /\ p.session = session
  BY <1>6, <1>9, <1>10, PlaceMade, Zenon
<1>12. Attends(p, config, hooks)
  BY <1>9, <1>11, Zenon DEF Attends
<1>13. status \in [Connections -> Statuses] /\ "open" \in Statuses /\ "closed" \in Statuses
       /\ "open" \in Live /\ "waiting" \notin Live
  BY <1>1 DEF Simple, Statuses, Live
<1>14. status' \in [Connections -> Statuses]
  BY <1>3, <1>13
<1>15. running \in BOOLEAN /\ running
  BY <1>1, Zenon DEF AcceptClient, Accept, Simple
<1>16. Lively(status', running, p)
  <2>1. status'[k] = "open"
    BY <1>3, Zenon
  <2> QED
    BY <1>10, <1>11, <1>13, <1>15, <2>1, Zenon DEF Lively
<1>17. ASSUME NEW j \in Slots \ {i}
       PROVE  /\ slots[j].of # k
              /\ slots[j].of # None => /\ status'[slots[j].of] = status[slots[j].of]
  <2>1. Lively(status, running, slots[j]) /\ Alone(slots, j)
    BY <1>1, Zenon DEF Placed
  <2>2. PICK c : c = slots[j].of
    OBVIOUS
  <2>3. c # k
    BY <1>2, <1>10, <1>13, <2>1, <2>2, Zenon DEF Lively
  <2>4. ASSUME c # None PROVE status'[c] = status[c]
    <3>1. c \in Connections
      BY <2>1, <2>2, <2>4, Zenon DEF Lively
    <3>2. c # slots[i].of
      BY <2>1, <2>2, <2>4, Zenon DEF Alone
    <3> QED
      BY <1>3, <2>3, <3>1, <3>2, Zenon
  <2> QED
    BY <2>2, <2>3, <2>4, Zenon
<1>18. Memories(config, history')
  <2>1. ASSUME NEW c \in Connections PROVE Remembered(config, c, history'[c])
    <3>1. Streams[config.mode][c] \in Seq(Nat)
      BY <1>1, StreamType, Zenon DEF Stream, Simple
    <3>2. Remembered(config, c, NoHistory)
      BY <1>1, <3>1, NothingRemembered, Zenon DEF Simple
    <3>3. Remembered(config, c, history[c])
      BY <1>1, Zenon DEF Memories
    <3>4. history'[c] = history[c] \/ history'[c] = NoHistory
      BY <1>4, Zenon
    <3> QED
      BY <3>2, <3>3, <3>4, Zenon
  <2>2. DOMAIN history' = Connections /\ history' = [c \in Connections |-> history'[c]]
    BY <1>4, Zenon
  <2> QED
    BY <2>1, <2>2, Zenon DEF Memories
<1> QED
  BY <1>2, <1>7, <1>11, <1>12, <1>14, <1>16, <1>17, <1>18, SlotGiven, Zenon

\* A read of n bytes from k, and what comes of feeding them.
Reading(i, k, n, o) ==
  LET f == o.fed
      reset == ~f.success /\ config.disconnectOnProtocolError
  IN  /\ status[k] = "lost" => o.failed \/ f.answers = <<>>
      /\ slots' = [slots EXCEPT ![i] = IF reset THEN Free
                                       ELSE [of |-> k, session |-> f.session]]
      /\ \/ ~reset /\ UNCHANGED status
         \/ ~reset /\ o.failed /\ Become(k, "lost")
         \/ reset /\ Become(k, "closed")
      /\ history' = [history EXCEPT ![k] =
           [fed |-> @.fed + n,
            log |-> @.log \o [j \in DOMAIN f.log |-> Noted(f.log[j])],
            answers |-> IF @.silent \/ o.failed THEN <<>> ELSE @.answers \o f.answers,
            silent |-> @.silent \/ o.failed,
            astray |-> @.astray \/ f.returned]]

(* What a read brings is fed to the session of a slot.                     *)
LEMMA Served ==
  ASSUME IInv, NEW i \in Slots, ServeClient(i)
  PROVE  IInv'
<1>1. /\ Simple /\ Placed(status, running, slots) /\ Occupied(config, hooks, slots)
      /\ Memories(config, history)
  BY Parts
<1>2. PICK k : k = slots[i].of
  OBVIOUS
<1>3. k # None /\ Left(k) # <<>> /\ UNCHANGED <<config, running, hooks, changes>>
  BY <1>2, Zenon DEF ServeClient, HasInput, Serves
<1>4. PICK size, n, o :
        /\ size \in ReadSizes
        /\ n = Min({size, Len(Left(k))}) /\ o \in Outcomes(slots[i].session, SubSeq(Left(k), 1, n))
        /\ Reading(i, k, n, o)
  <2>1. \E size \in ReadSizes : \E n \in {Min({size, Len(Left(slots[i].of))})} :
          \E o \in Outcomes(slots[i].session, SubSeq(Left(slots[i].of), 1, n)) :
            Reading(i, slots[i].of, n, o)
    BY Zenon DEF ServeClient, Reading
  <2> QED
    BY <1>2, <2>1, Zenon
<1>5. k \in Connections /\ status[k] \in Live
  BY <1>1, <1>2, <1>3, Zenon DEF Placed, Lively
<1>6. PICK place \in Places : place = slots[i] /\ Attends(place, config, hooks)
  BY <1>1, Zenon DEF Occupied
<1>7. PICK session \in Session : session = slots[i].session
  BY <1>6, PlaceFields, Zenon
<1>8. Settled(session) /\ session.config = config /\ session.hooks = hooks
  BY <1>2, <1>3, <1>6, <1>7, Zenon DEF Attends
<1>9. PICK S \in Seq(Nat) : S = Streams[config.mode][k]
  BY <1>1, <1>5, StreamType, Zenon DEF Stream, Simple
<1>10. Remembered(config, k, history[k])
  BY <1>1, <1>5, Zenon DEF Memories
<1>11. PICK h \in Histories : h = history[k] /\ Recorded(config.mode, h)
  BY <1>10, Zenon DEF Remembered
<1>12. PICK fed \in 0..Len(S) : fed = h.fed
  BY <1>9, <1>10, <1>11, Zenon DEF Remembered
<1>13. PICK left : left = Left(k)
  OBVIOUS
<1>14. left = SubSeq(S, fed + 1, Len(S)) /\ left # <<>>
  BY <1>3, <1>9, <1>11, <1>12, <1>13, Zenon DEF Left, Stream
<1>15. PICK data : data = SubSeq(left, 1, n)
  OBVIOUS
<1>16. n \in Nat /\ fed + n \in 0..Len(S) /\ data \in Seq(Nat)
  <2>1. size \in Nat \ {0}
    BY <1>4, Bounds
  <2>2. n = Min({size, Len(left)})
    BY <1>4, <1>13, Zenon
  <2> QED
    BY <1>14, <1>15, <2>1, <2>2, ReadTakes, Zenon
<1>17. o \in Outcomes(session, data)
  BY <1>4, <1>7, <1>13, <1>15, Zenon
<1>18. PICK failed \in BOOLEAN : failed = o.failed
  BY <1>8, <1>16, <1>17, OutcomeFed, Zenon
<1>19. PICK w \in Nat : o.fed = Feed(session, data, w) /\ (~o.failed => w = Len(data))
  BY <1>8, <1>16, <1>17, OutcomeFed, Zenon
<1>20. PICK f : f = o.fed
  OBVIOUS
<1>21. f = Feed(session, data, w) /\ (~failed => w = Len(data))
  BY <1>18, <1>19, <1>20, Zenon
<1>22. Leaves(session, w, data, f)
  BY <1>8, <1>16, <1>21, Bounds, Fed, Zenon
<1>23. Sound(f, session) /\ Settled(f.session)
       /\ (MaximumRequestBytes =< Widest /\ ~failed => Matched(config.mode, f, w))
  BY <1>8, <1>21, <1>22, Zenon DEF Leaves
<1>24. f \in Calls /\ f.session.config = config /\ f.session.hooks = hooks
  BY <1>8, <1>23, Zenon DEF Sound
<1>25. f.session \in Session /\ f.returned \in BOOLEAN
  BY <1>24, CallFields, Zenon
<1>26. PICK reset \in BOOLEAN : reset = (~f.success /\ config.disconnectOnProtocolError)
  OBVIOUS
<1>27. PICK astray \in BOOLEAN : astray = (h.astray \/ f.returned)
  OBVIOUS
<1>28. PICK g : Extends(h, f, failed, fed + n, astray, g)
  <2>1. PICK g : g = [fed |-> fed + n, log |-> h.log \o [j \in DOMAIN f.log |-> Noted(f.log[j])],
                      answers |-> IF h.silent \/ failed THEN <<>> ELSE h.answers \o f.answers,
                      silent |-> h.silent \/ failed, astray |-> astray]
    OBVIOUS
  <2>2. astray \in BOOLEAN
    OBVIOUS
  <2>3. Extends(h, f, failed, fed + n, astray, g)
    BY <2>1, <2>2 DEF Extends
  <2> QED
    BY <2>3
<1>29. history' = [history EXCEPT ![k] = g]
  BY <1>4, <1>11, <1>12, <1>18, <1>20, <1>27, <1>28, Zenon DEF Reading, Extends
<1>30. PICK p : p = IF reset THEN Free ELSE [of |-> k, session |-> f.session]
  OBVIOUS
<1>31. /\ slots' = [slots EXCEPT ![i] = p]
       /\ \/ ~reset /\ status' = status
          \/ ~reset /\ status' = [status EXCEPT ![k] = "lost"]
          \/ reset /\ status' = [status EXCEPT ![k] = "closed"]
  BY <1>4, <1>20, <1>26, <1>30, Zenon DEF Reading, Become
<1>32. status \in [Connections -> Statuses] /\ "lost" \in Statuses /\ "closed" \in Statuses
       /\ "lost" \in Live
  BY <1>1 DEF Simple, Statuses, Live
<1>33. /\ status' \in [Connections -> Statuses] /\ (~reset => status'[k] \in Live)
       /\ \A c \in Connections \ {k} : status'[c] = status[c]
  BY <1>5, <1>31, <1>32, Zenon
<1>34. p \in Places /\ Attends(p, config, hooks) /\ Lively(status', running, p)
       /\ (p.of = None \/ p.of = k)
  <2>1. CASE reset
    <3>1. p = Free
      BY <1>30, <2>1, Zenon
    <3>2. p \in Places /\ p.of = None /\ Attends(p, config, hooks)
      BY <1>1, <3>1, FreePlace, Zenon DEF Simple
    <3> QED
      BY <3>2, Zenon DEF Lively
  <2>2. CASE ~reset
    <3>1. k \in Connections \cup {None}
      BY <1>5
    <3>2. PICK s \in Session : s = f.session
      BY <1>25, Zenon
    <3>3. p = [of |-> k, session |-> s]
      BY <1>30, <2>2, <3>2, Zenon
    <3>4. p \in Places /\ p.of = k /\ p.session = s
      BY <3>1, <3>3, PlaceMade, Zenon
    <3>5. Attends(p, config, hooks)
      BY <1>23, <1>24, <3>2, <3>4, Zenon DEF Attends
    <3>6. running
      BY Zenon DEF ServeClient, HasInput
    <3> QED
      BY <1>3, <1>33, <2>2, <3>1, <3>4, <3>5, <3>6, Zenon DEF Lively
  <2> QED
    BY <2>1, <2>2
<1>35. ASSUME NEW j \in Slots \ {i}
       PROVE  /\ slots[j].of # k
              /\ slots[j].of # None => status'[slots[j].of] = status[slots[j].of]
  <2>1. Lively(status, running, slots[j]) /\ Alone(slots, i)
    BY <1>1, Zenon DEF Placed
  <2>2. slots[j].of # k
    BY <1>2, <1>3, <2>1, Zenon DEF Alone
  <2>3. slots[j].of \in Connections \cup {None}
    BY <2>1, Zenon DEF Lively
  <2> QED
    BY <1>33, <2>2, <2>3, Zenon
<1>36. Memories(config, history')
  <2>1. g \in Histories /\ Recorded(config.mode, g) /\ g.fed = fed + n
    <3>1. fed + n \in Nat
      BY <1>16
    <3>2. hooks \in Hooks
      BY <1>1, Zenon DEF Simple
    <3>3. PICK mode : mode = config.mode
      OBVIOUS
    <3>4. Recorded(mode, h) /\ Complete(mode, f, failed, w)
      BY <1>11, <1>23, <3>3, Zenon DEF Complete
    <3>5. PICK count \in Nat : count = fed + n
      BY <3>1, Zenon
    <3>6. Extends(h, f, failed, count, astray, g)
      BY <1>28, <3>5, Zenon
    <3>7. g \in Histories /\ Recorded(mode, g) /\ g.fed = count
      <4>1. Called(f)
        BY <1>8, <1>23, Zenon DEF Sound, Called
      <4> QED
        BY <3>2, <3>4, <3>5, <3>6, <4>1, Extended
    <3> QED
      BY <3>3, <3>5, <3>7, Zenon
  <2>2. g.fed \in 0..Len(S)
    BY <1>16, <2>1, Zenon
  <2>3. Remembered(config, k, g)
    BY <1>9, <2>1, <2>2, Zenon DEF Remembered
  <2>4. DOMAIN history = Connections /\ history = [c \in Connections |-> history[c]]
    BY <1>1, Zenon DEF Memories
  <2>5. history'[k] = g /\ \A c \in Connections \ {k} : history'[c] = history[c]
    BY <1>5, <1>29, <2>4, Zenon
  <2>6. \A c \in Connections : Remembered(config, c, history'[c])
    BY <1>1, <2>3, <2>5, Zenon DEF Memories
  <2>7. DOMAIN history' = Connections /\ history' = [c \in Connections |-> history'[c]]
    BY <1>29, <2>4, Zenon
  <2> QED
    BY <2>6, <2>7, Zenon DEF Memories
<1>37. \A j \in Slots \ {i} : p.of = None \/ slots[j].of # p.of
  BY <1>34, <1>35, Zenon
<1> QED
  BY <1>3, <1>31, <1>33, <1>34, <1>35, <1>36, <1>37, SlotGiven, Zenon

(* A status changes as the code changes it.                                *)
LEMMA StatusSteps ==
  ASSUME IInv, NEW k \in Connections, Connect(k) \/ Lose(k) \/ RefuseClient(k)
  PROVE  IInv'
<1>1. "waiting" \in Statuses /\ "lost" \in Statuses /\ "closed" \in Statuses /\ "lost" \in Live
      /\ "new" \notin Live /\ "waiting" \notin Live
  BY DEF Statuses, Live
<1>2. CASE Connect(k)
  <2>1. Become(k, "waiting") /\ status[k] \notin Live
        /\ UNCHANGED <<config, running, hooks, changes, slots, history>>
    BY <1>1, <1>2, Zenon DEF Connect
  <2> QED
    BY <1>1, <2>1, StatusMoved, Zenon
<1>3. CASE Lose(k)
  <2>1. UNCHANGED <<config, running, hooks, changes, slots, history>>
    BY <1>3, Zenon DEF Lose
  <2>2. CASE status[k] = "open"
    <3>1. Become(k, "lost")
      BY <1>3, <2>2, Zenon DEF Lose
    <3> QED
      BY <1>1, <2>1, <3>1, StatusMoved, Zenon
  <2>3. CASE status[k] # "open"
    <3>1. Become(k, "closed") /\ status[k] = "waiting"
      BY <1>3, <2>3 DEF Lose
    <3> QED
      BY <1>1, <2>1, <3>1, StatusMoved, Zenon
  <2> QED
    BY <2>2, <2>3
<1>4. CASE RefuseClient(k)
  <2>1. Become(k, "closed") /\ status[k] \notin Live
        /\ UNCHANGED <<config, running, hooks, changes, slots, history>>
    BY <1>1, <1>4, Zenon DEF RefuseClient
  <2> QED
    BY <1>1, <2>1, StatusMoved, Zenon
<1> QED
  BY <1>2, <1>3, <1>4

(* Every step keeps the invariant.                                         *)
LEMMA StepKeeps ==
  ASSUME IInv, [Next]_vars
  PROVE  IInv'
<1>1. CASE Iterate
  <2>1. ASSUME NEW k \in Connections, RefuseClient(k) PROVE IInv'
    BY <2>1, StatusSteps, Zenon
  <2>2. ASSUME NEW k \in Connections, NEW i \in Slots, AcceptClient(k, i) PROVE IInv'
    BY <2>2, Accepted, Zenon
  <2>3. ASSUME NEW i \in Slots, ReapClient(i) PROVE IInv'
    BY <2>3, Reaped, Zenon
  <2>4. ASSUME NEW i \in Slots, ServeClient(i) PROVE IInv'
    BY <2>4, Served, Zenon
  <2> QED
    BY <1>1, <2>1, <2>2, <2>3, <2>4, Zenon DEF Iterate
<1>2. CASE Shutdown
  BY <1>2, Stopped, Zenon
<1>3. CASE Initialize
  BY <1>3, Restarted, Zenon
<1>4. ASSUME NEW k \in Connections, Connect(k) \/ Lose(k) PROVE IInv'
  BY <1>4, StatusSteps, Zenon
<1>5. ASSUME NEW set \in BOOLEAN, SetPolicy(set) \/ SetResultObserver(set) PROVE IInv'
  <2>1. hooks \in Hooks
    BY Zenon DEF IInv, TypeOK
  <2>2. [hooks EXCEPT !.policy = set] \in Hooks /\ [hooks EXCEPT !.observer = set] \in Hooks
    BY <2>1, <1>5 DEF Hooks
  <2>3. PICK h \in Hooks : SetHooks(h)
    BY <1>5, <2>2, Zenon DEF SetPolicy, SetResultObserver
  <2> QED
    BY <2>3, HooksChanged, Zenon
<1>6. CASE UNCHANGED vars
  <2>1. /\ Simple /\ Placed(status, running, slots) /\ Occupied(config, hooks, slots)
        /\ Memories(config, history)
    BY Parts
  <2>2. /\ config' = config /\ running' = running /\ hooks' = hooks /\ changes' = changes
        /\ status' = status /\ slots' = slots /\ history' = history
    BY <1>6 DEF vars
  <2>3. running' \in BOOLEAN /\ (~running' => ~running)
    BY <2>1, <2>2 DEF Simple
  <2>4. Simple'
    BY <2>1, <2>2, <2>3, Zenon DEF Simple
  <2>5. Placed(status', running', slots')
    BY <2>1, <2>2, <2>3, Zenon DEF Placed, Lively
  <2>6. Occupied(config', hooks', slots') /\ Memories(config', history')
    BY <2>1, <2>2, Zenon
  <2> QED
    BY <2>4, <2>5, <2>6, PartsNext
<1> QED
  BY <1>1, <1>2, <1>3, <1>4, <1>5, <1>6, Zenon DEF Next

-----------------------------------------------------------------------------
(* The requests in the stream.                                             *)

Modes == {"Line", "StructuredBinary"}
Count(k) == Len(Script[k])
Sent(mode, k, m) == SentBytes(mode, Script[k][m])

\* Where the first m requests end.
Bound(mode, k, m) == IF m = 0 THEN 0 ELSE Ends[mode][k][m]

(* What a request is made of.                                              *)
LEMMA ScriptType ==
  ASSUME NEW k \in Connections
  PROVE  /\ Count(k) \in Nat /\ DOMAIN Script[k] = 1..Count(k)
         /\ \A m \in 1..Count(k) :
              /\ Script[k][m].kind \in {"command", "malformed", "oversize", "blank"}
              /\ Script[k][m].text \in Seq(Nat) /\ Script[k][m].payload \in Seq(Nat)
              /\ IsOfItsKind(Script[k][m])
<1>1. PICK q : q = Script[k]
  OBVIOUS
<1>2. /\ q \in Seq(ToSet(q))
      /\ \A r \in ToSet(q) :
           /\ r.kind \in {"command", "malformed", "oversize", "blank"}
           /\ r.text \in Seq(Nat) /\ r.payload \in Seq(Nat)
           /\ IsOfItsKind(r)
  BY <1>1, ServerAssumption, KindsAssumption, Zenon
<1>3. Len(q) \in Nat /\ DOMAIN q = 1..Len(q) /\ \A m \in 1..Len(q) : q[m] \in ToSet(q)
  BY <1>2
<1> QED
  BY <1>1, <1>2, <1>3, Zenon DEF Count

IsLine(q, text) ==
  /\ q \in Seq(Nat) /\ Len(q) = Len(text) + 2
  /\ \A j \in 1..Len(text) : q[j] = text[j]
  /\ q[Len(text) + 1] = CR /\ q[Len(text) + 2] = LF

IsFrame(q, payload) ==
  /\ q \in Seq(Nat) /\ Len(q) = Len(payload) + 2
  /\ q[1] = Len(payload) \div 256 /\ q[2] = Len(payload) % 256
  /\ \A j \in 1..Len(payload) : q[2 + j] = payload[j]

(* The bytes of a request.                                                 *)
LEMMA SentType ==
  ASSUME NEW r, r.text \in Seq(Nat), r.payload \in Seq(Nat)
  PROVE  IsLine(SentBytes("Line", r), r.text) /\ IsFrame(SentBytes("StructuredBinary", r), r.payload)
<1> SUFFICES
      /\ SentBytes("Line", r) \in Seq(Nat) /\ Len(SentBytes("Line", r)) = Len(r.text) + 2
      /\ \A j \in 1..Len(r.text) : SentBytes("Line", r)[j] = r.text[j]
      /\ SentBytes("Line", r)[Len(r.text) + 1] = CR
      /\ SentBytes("Line", r)[Len(r.text) + 2] = LF
      /\ SentBytes("StructuredBinary", r) \in Seq(Nat)
      /\ Len(SentBytes("StructuredBinary", r)) = Len(r.payload) + 2
      /\ SentBytes("StructuredBinary", r)[1] = Len(r.payload) \div 256
      /\ SentBytes("StructuredBinary", r)[2] = Len(r.payload) % 256
      /\ \A j \in 1..Len(r.payload) : SentBytes("StructuredBinary", r)[2 + j] = r.payload[j]
  BY DEF IsLine, IsFrame
<1>1. PICK text \in Seq(Nat) : text = r.text
  OBVIOUS
<1>2. PICK payload \in Seq(Nat) : payload = r.payload
  OBVIOUS
<1>3. PICK n \in Nat : n = Len(text)
  OBVIOUS
<1>4. PICK l \in Nat : l = Len(payload)
  OBVIOUS
<1>5. PICK cr \in Nat : cr = CR
  BY DEF CR
<1>6. PICK lf \in Nat : lf = LF
  BY DEF LF
<1>7. PICK crlf : crlf = <<cr, lf>>
  OBVIOUS
<1>8. crlf \in Seq(Nat) /\ crlf = <<CR, LF>> /\ Len(crlf) = 2 /\ crlf[1] = CR /\ crlf[2] = LF
  <2>1. crlf \in Seq(Nat) /\ Len(crlf) = 2 /\ crlf[1] = cr /\ crlf[2] = lf
    BY <1>7
  <2> QED
    BY <1>5, <1>6, <1>7, <2>1, Zenon
<1>9. PICK high \in Nat : high = l \div 256
  OBVIOUS
<1>10. PICK low \in Nat : low = l % 256
  OBVIOUS
<1>11. PICK header : header = <<high, low>>
  OBVIOUS
<1>12. /\ header \in Seq(Nat) /\ header = <<Len(payload) \div 256, Len(payload) % 256>>
       /\ Len(header) = 2 /\ header[1] = l \div 256 /\ header[2] = l % 256
  <2>1. header \in Seq(Nat) /\ Len(header) = 2 /\ header[1] = high /\ header[2] = low
    BY <1>11
  <2> QED
    BY <1>4, <1>9, <1>10, <1>11, <2>1, Zenon
<1>13. PICK line : line = text \o crlf
  OBVIOUS
<1>14. line \in Seq(Nat) /\ Len(line) = n + 2
      /\ \A i \in 1..(n + 2) : line[i] = IF i <= n THEN text[i] ELSE crlf[i - n]
  <2>1. /\ text \o crlf \in Seq(Nat) /\ Len(text \o crlf) = Len(text) + Len(crlf)
        /\ \A i \in 1..(Len(text) + Len(crlf)) :
             (text \o crlf)[i] = IF i <= Len(text) THEN text[i] ELSE crlf[i - Len(text)]
    BY <1>8, Joined, Zenon
  <2>2. Len(crlf) = 2
    BY <1>8
  <2>3. /\ line \in Seq(Nat) /\ Len(line) = n + 2
        /\ \A i \in 1..(n + 2) : (text \o crlf)[i] = IF i <= n THEN text[i] ELSE crlf[i - n]
    BY <1>3, <1>13, <2>1, <2>2, Zenon
  <2> QED
    BY <1>13, <2>3, Zenon
<1>15. (\A j \in 1..n : line[j] = text[j]) /\ line[n + 1] = CR /\ line[n + 2] = LF
  <2>1. /\ \A j \in 1..n : j \in 1..(n + 2) /\ j =< n
        /\ n + 1 \in 1..(n + 2) /\ n + 2 \in 1..(n + 2) /\ ~(n + 1 =< n) /\ ~(n + 2 =< n)
        /\ n + 1 - n = 1 /\ n + 2 - n = 2
    OBVIOUS
  <2>2. \A j \in 1..n : line[j] = text[j]
    BY <1>14, <2>1
  <2>3. line[n + 1] = crlf[n + 1 - n] /\ line[n + 2] = crlf[n + 2 - n]
    BY <1>14, <2>1
  <2>4. crlf[n + 1 - n] = CR /\ crlf[n + 2 - n] = LF
    BY <1>8, <2>1, Zenon
  <2> QED
    BY <2>2, <2>3, <2>4, Zenon
<1>16. PICK frame : frame = header \o payload
  OBVIOUS
<1>17. frame \in Seq(Nat) /\ Len(frame) = 2 + l
       /\ \A i \in 1..(2 + l) : frame[i] = IF i <= 2 THEN header[i] ELSE payload[i - 2]
  <2>1. /\ header \o payload \in Seq(Nat) /\ Len(header \o payload) = Len(header) + Len(payload)
        /\ \A i \in 1..(Len(header) + Len(payload)) :
             (header \o payload)[i] = IF i <= Len(header) THEN header[i] ELSE payload[i - Len(header)]
    <3>1. header \in Seq(Nat)
      BY <1>12
    <3> QED
      BY <3>1, Joined, Zenon
  <2>2. Len(header) = 2
    BY <1>12
  <2>3. /\ frame \in Seq(Nat) /\ Len(frame) = 2 + l
        /\ \A i \in 1..(2 + l) : (header \o payload)[i] = IF i <= 2 THEN header[i] ELSE payload[i - 2]
    BY <1>4, <1>16, <2>1, <2>2, Zenon
  <2> QED
    BY <1>16, <2>3, Zenon
<1>18. Len(frame) = l + 2 /\ frame[1] = l \div 256 /\ frame[2] = l % 256
       /\ \A j \in 1..l : frame[2 + j] = payload[j]
  <2>1. /\ 1 \in 1..(2 + l) /\ 2 \in 1..(2 + l) /\ 1 =< 2 /\ 2 =< 2 /\ 2 + l = l + 2
        /\ \A j \in 1..l : 2 + j \in 1..(2 + l) /\ ~(2 + j =< 2) /\ 2 + j - 2 = j
    OBVIOUS
  <2>2. frame[1] = header[1] /\ frame[2] = header[2]
    BY <1>17, <2>1
  <2>3. ASSUME NEW j \in 1..l PROVE frame[2 + j] = payload[j]
    <3>1. 2 + j \in 1..(2 + l) /\ ~(2 + j =< 2) /\ 2 + j - 2 = j
      BY <2>1
    <3>2. PICK i : i = 2 + j
      OBVIOUS
    <3>3. i \in 1..(2 + l) /\ ~(i =< 2) /\ i - 2 = j
      BY <3>1, <3>2
    <3>4. frame[i] = payload[i - 2]
      BY <1>17, <3>3, Zenon
    <3> QED
      BY <3>2, <3>3, <3>4, Zenon
  <2>4. Len(frame) = l + 2
    <3>1. PICK z : z = Len(frame)
      OBVIOUS
    <3>2. z = 2 + l
      BY <1>17, <3>1, Zenon
    <3>3. z = l + 2
      BY <3>2
    <3> QED
      BY <3>1, <3>3, Zenon
  <2>5. frame[1] = l \div 256 /\ frame[2] = l % 256
    BY <1>12, <2>2, Zenon
  <2> QED
    BY <2>3, <2>4, <2>5
<1>19. line = SentBytes("Line", r)
  BY <1>1, <1>8, <1>13, Zenon DEF SentBytes
<1>20. frame = SentBytes("StructuredBinary", r)
  <2>1. "StructuredBinary" # "Line"
    OBVIOUS
  <2>2. frame = FrameStructuredPayload(r.payload)
    BY <1>2, <1>12, <1>16, Zenon DEF FrameStructuredPayload
  <2> QED
    BY <2>1, <2>2, Zenon DEF SentBytes
<1> QED
  BY <1>1, <1>2, <1>3, <1>4, <1>14, <1>15, <1>17, <1>18, <1>19, <1>20, Zenon

(* The stream is the requests, one after another.                          *)
LEMMA Laid ==
  ASSUME NEW mode \in Modes, NEW k \in Connections, NEW S, S = Streams[mode][k]
  PROVE  /\ S \in Seq(Nat)
         /\ \A m \in 0..Count(k) : Bound(mode, k, m) \in Nat
         /\ Bound(mode, k, 0) = 0 /\ Bound(mode, k, Count(k)) = Len(S)
         /\ \A m \in 1..Count(k) :
              /\ Sent(mode, k, m) \in Seq(Nat)
              /\ Bound(mode, k, m) = Bound(mode, k, m - 1) + Len(Sent(mode, k, m))
              /\ At(S, Bound(mode, k, m - 1), Sent(mode, k, m))
<1>1. PICK N \in Nat : N = Count(k) /\ DOMAIN Script[k] = 1..N
  BY ScriptType
<1>2. PICK q : q = [m \in 1..N |-> Sent(mode, k, m)]
  OBVIOUS
<1>3. \A m \in 1..N : Sent(mode, k, m) \in Seq(Nat)
  <2> TAKE m \in 1..N
  <2>1. Script[k][m].text \in Seq(Nat) /\ Script[k][m].payload \in Seq(Nat)
    BY <1>1, ScriptType, Zenon
  <2>2. SentBytes("Line", Script[k][m]) \in Seq(Nat) /\ SentBytes("StructuredBinary", Script[k][m]) \in Seq(Nat)
    BY <2>1, SentType, Zenon DEF IsLine, IsFrame
  <2> QED
    BY <2>2, Zenon DEF Sent, Modes
<1>4. q \in Seq(Seq(Nat)) /\ Len(q) = N /\ \A m \in 1..N : q[m] = Sent(mode, k, m)
  <2>1. q \in [1..N -> Seq(Nat)]
    BY <1>2, <1>3
  <2>2. \A m \in 1..N : q[m] = Sent(mode, k, m)
    BY <1>2
  <2> QED
    BY <2>1, <2>2, AsSequence
<1>5. S = FlattenSeq(q)
  <2>1. Streams[mode][k] = FlattenSeq([i \in DOMAIN Script[k] |-> SentBytes(mode, Script[k][i])])
    BY DEF Streams, Modes
  <2> QED
    BY <1>1, <1>2, <2>1, Zenon DEF Sent
<1>6. \A m \in 1..N : Ends[mode][k][m] = Len(FlattenSeq(Prefix(q, m)))
  <2> TAKE m \in 1..N
  <2>1. m \in DOMAIN Script[k]
    BY <1>1
  <2>2. Ends[mode][k][m] = Len(FlattenSeq([j \in 1..m |-> SentBytes(mode, Script[k][j])]))
    BY <2>1 DEF Ends, Modes
  <2>3. \A j \in 1..m : q[j] = SentBytes(mode, Script[k][j])
    <3>1. \A j \in 1..m : j \in 1..N
      OBVIOUS
    <3> QED
      BY <1>4, <3>1, Zenon DEF Sent
  <2>4. [j \in 1..m |-> SentBytes(mode, Script[k][j])] = Prefix(q, m)
    BY <2>3, Zenon DEF Prefix
  <2> QED
    BY <2>2, <2>4, Zenon
<1>7. PICK flat : flat = [m \in 0..N |-> FlattenSeq(Prefix(q, m))]
  OBVIOUS
<1>8. /\ flat \in [0..N -> Seq(Nat)]
      /\ flat[0] = <<>>
      /\ \A m \in 1..N : flat[m] = flat[m - 1] \o q[m]
      /\ flat[N] = FlattenSeq(q)
  <2>1. flat = [m \in 0..Len(q) |-> FlattenSeq(Prefix(q, m))]
    BY <1>4, <1>7, Zenon
  <2>2. /\ flat \in [0..Len(q) -> Seq(Nat)]
        /\ flat[0] = <<>>
        /\ \A m \in 1..Len(q) : flat[m] = flat[m - 1] \o q[m]
        /\ flat[Len(q)] = FlattenSeq(q)
    <3>1. q \in Seq(Seq(Nat))
      BY <1>4
    <3> QED
      BY <3>1, <2>1, Flattened, Zenon
  <2> QED
    BY <1>4, <2>2, Zenon
<1>9. \A m \in 0..N : Bound(mode, k, m) = Len(flat[m]) /\ flat[m] \in Seq(Nat)
  <2> TAKE m \in 0..N
  <2>1. flat[m] \in Seq(Nat)
    BY <1>8
  <2>2. CASE m = 0
    <3>1. Len(flat[m]) = 0
      BY <1>8, <2>2
    <3> QED
      BY <2>1, <2>2, <3>1, Zenon DEF Bound
  <2>3. CASE m # 0
    <3>1. m \in 1..N
      BY <2>3
    <3>2. flat[m] = FlattenSeq(Prefix(q, m))
      BY <1>7
    <3>3. Ends[mode][k][m] = Len(flat[m])
      BY <1>6, <3>1, <3>2, Zenon
    <3> QED
      BY <2>1, <2>3, <3>3, Zenon DEF Bound
  <2> QED
    BY <2>2, <2>3
<1>10. \A m \in 0..N : Bound(mode, k, m) \in Nat
  BY <1>9
<1>11. Bound(mode, k, 0) = 0
  BY Zenon DEF Bound
<1>12. ASSUME NEW m \in 1..N
       PROVE  Bound(mode, k, m) = Bound(mode, k, m - 1) + Len(q[m])
  <2>1. m \in 0..N /\ m - 1 \in 0..N
    OBVIOUS
  <2>2. flat[m - 1] \in Seq(Nat) /\ q[m] \in Seq(Nat)
    BY <1>3, <1>4, <1>8, <2>1, Zenon
  <2>3. Len(flat[m - 1] \o q[m]) = Len(flat[m - 1]) + Len(q[m])
    BY <2>2, Joined, Zenon
  <2> QED
    BY <1>8, <1>9, <2>1, <2>3, Zenon
<1>13. S \in Seq(Nat)
  BY <1>4, <1>5, FlattenType, Zenon
<1>14. Bound(mode, k, N) = Len(S)
  <2>1. N \in 0..N
    OBVIOUS
  <2> QED
    BY <1>5, <1>8, <1>9, <2>1, Zenon
<1>15. PICK off \in [0..N -> Nat] :
         /\ off[0] = 0
         /\ \A m \in 1..N : off[m] = off[m - 1] + Len(q[m]) /\ At(S, off[m - 1], q[m])
  <2>1. At(S, 0, FlattenSeq(q)) /\ 0 \in Nat
    <3>1. At(S, 0, S)
      BY <1>13, AtSelf
    <3> QED
      BY <1>5, <3>1
  <2>2. \E off \in [0..Len(q) -> Nat] :
          /\ off[0] = 0
          /\ \A m \in 1..Len(q) : off[m] = off[m - 1] + Len(q[m]) /\ At(S, off[m - 1], q[m])
          /\ off[Len(q)] = 0 + Len(FlattenSeq(q))
    BY <1>13, <1>4, <2>1, AtParts, Zenon
  <2> QED
    BY <1>4, <2>2, Zenon
<1>16. \A m \in 0..N : off[m] = Bound(mode, k, m)
  <2> DEFINE P == {m \in 0..N : off[m] = Bound(mode, k, m)}
  <2>1. 0 \in P
    BY <1>11, <1>15
  <2>2. \A m \in 1..N : m - 1 \in P => m \in P
    <3> SUFFICES ASSUME NEW m \in 1..N, m - 1 \in P PROVE m \in P
      OBVIOUS
    <3>1. off[m - 1] = Bound(mode, k, m - 1)
      OBVIOUS
    <3>2. off[m] = Bound(mode, k, m)
      BY <1>12, <1>15, <3>1, Zenon
    <3>3. m \in 0..N
      OBVIOUS
    <3> QED
      BY <3>2, <3>3
  <2>3. \A m \in 0..N : m \in P
    <3> HIDE DEF P
    <3> QED
      BY <2>1, <2>2, TurnInduction
  <2> QED
    BY <2>3
<1>17. \A m \in 1..N : At(S, Bound(mode, k, m - 1), q[m])
  <2>1. \A m \in 1..N : m - 1 \in 0..N
    OBVIOUS
  <2> QED
    BY <1>15, <1>16, <2>1, Zenon
<1> QED
  BY <1>1, <1>3, <1>4, <1>10, <1>11, <1>12, <1>13, <1>14, <1>17, Zenon

(* A request is two bytes at least, and so is what separates two ends.     *)
LEMMA Apart ==
  ASSUME NEW mode \in Modes, NEW k \in Connections
  PROVE  /\ \A m \in 1..Count(k) : Bound(mode, k, m - 1) + 2 =< Bound(mode, k, m)
         /\ \A n \in 0..Count(k) : \A m \in 0..n : Bound(mode, k, m) =< Bound(mode, k, n)
<1>1. PICK N \in Nat : N = Count(k)
  BY ScriptType
<1>2. PICK S : S = Streams[mode][k]
  OBVIOUS
<1>3. /\ \A m \in 0..N : Bound(mode, k, m) \in Nat
      /\ \A m \in 1..N : Bound(mode, k, m) = Bound(mode, k, m - 1) + Len(Sent(mode, k, m))
  BY <1>1, <1>2, Laid, Zenon
<1>4. ASSUME NEW m \in 1..N PROVE Bound(mode, k, m - 1) + 2 =< Bound(mode, k, m)
  <2>1. Script[k][m].text \in Seq(Nat) /\ Script[k][m].payload \in Seq(Nat)
    BY <1>1, ScriptType, Zenon
  <2>2. PICK t \in Nat : t = Len(Script[k][m].text)
    BY <2>1
  <2>3. PICK p \in Nat : p = Len(Script[k][m].payload)
    BY <2>1
  <2>4. Len(Sent(mode, k, m)) = t + 2 \/ Len(Sent(mode, k, m)) = p + 2
    <3>1. /\ Len(SentBytes("Line", Script[k][m])) = Len(Script[k][m].text) + 2
          /\ Len(SentBytes("StructuredBinary", Script[k][m])) = Len(Script[k][m].payload) + 2
      BY <2>1, SentType, Zenon DEF IsLine, IsFrame
    <3> QED
      BY <2>2, <2>3, <3>1, Zenon DEF Sent, Modes
  <2>5. Bound(mode, k, m) = Bound(mode, k, m - 1) + Len(Sent(mode, k, m))
    BY <1>3
  <2>6. PICK a \in Nat : a = Bound(mode, k, m - 1)
    <3>1. m - 1 \in 0..N
      OBVIOUS
    <3> QED
      BY <1>3, <3>1
  <2>7. PICK x : x = Len(Sent(mode, k, m))
    OBVIOUS
  <2>8. x = t + 2 \/ x = p + 2
    BY <2>4, <2>7, Zenon
  <2>9. a + 2 =< a + x
    BY <2>8
  <2> QED
    BY <2>5, <2>6, <2>7, <2>9, Zenon
<1> DEFINE P == {n \in 0..N : \A m \in 0..n : Bound(mode, k, m) =< Bound(mode, k, n)}
<1>5. 0 \in P
  <2>1. Bound(mode, k, 0) \in Nat
    BY <1>3
  <2> QED
    BY <2>1
<1>6. \A n \in 1..N : n - 1 \in P => n \in P
  <2> SUFFICES ASSUME NEW n \in 1..N, n - 1 \in P PROVE n \in P
    OBVIOUS
  <2> SUFFICES ASSUME NEW m \in 0..n PROVE Bound(mode, k, m) =< Bound(mode, k, n)
    OBVIOUS
  <2>1. /\ m \in 0..N /\ n \in 0..N /\ n - 1 \in 0..N
        /\ Bound(mode, k, m) \in Nat /\ Bound(mode, k, n) \in Nat /\ Bound(mode, k, n - 1) \in Nat
    BY <1>3
  <2>2. CASE m = n
    BY <2>1, <2>2
  <2>3. CASE m # n
    <3>1. m \in 0..(n - 1)
      BY <2>3
    <3>2. Bound(mode, k, m) =< Bound(mode, k, n - 1)
      BY <3>1
    <3>3. Bound(mode, k, n - 1) + 2 =< Bound(mode, k, n)
      BY <1>4
    <3> QED
      BY <2>1, <3>2, <3>3
  <2> QED
    BY <2>2, <2>3
<1>7. \A n \in 0..N : n \in P
  <2> HIDE DEF P
  <2> QED
    BY <1>5, <1>6, TurnInduction
<1> QED
  BY <1>1, <1>4, <1>7

(* How many requests are whole.                                            *)
LEMMA WholeIs ==
  ASSUME NEW mode \in Modes, NEW k \in Connections, NEW m \in 0..Count(k), NEW n \in Nat,
         Bound(mode, k, m) =< n, m < Count(k) => n < Bound(mode, k, m + 1)
  PROVE  Whole(mode, k, n) = m
<1>1. PICK N \in Nat : N = Count(k) /\ DOMAIN Script[k] = 1..N
  BY ScriptType
<1>2. \A i \in 0..N : Bound(mode, k, i) \in Nat
  <2>1. PICK S : S = Streams[mode][k]
    OBVIOUS
  <2> QED
    BY <1>1, <2>1, Laid, Zenon
<1>3. \A j \in 0..N : \A i \in 0..j : Bound(mode, k, i) =< Bound(mode, k, j)
  BY <1>1, Apart, Zenon
<1>4. ASSUME NEW i \in 1..N PROVE Ends[mode][k][i] =< n <=> i =< m
  <2>1. Ends[mode][k][i] = Bound(mode, k, i) /\ i \in 0..N /\ m \in 0..N
    BY <1>1 DEF Bound
  <2>2. CASE i =< m
    <3>1. i \in 0..m
      BY <2>2
    <3> QED
      BY <1>2, <1>3, <2>1, <2>2, <3>1
  <2>3. CASE ~(i =< m)
    <3>1. m + 1 \in 0..i /\ m < N /\ m + 1 \in 0..N
      BY <2>3
    <3>2. Bound(mode, k, m + 1) =< Bound(mode, k, i)
      BY <1>3, <2>1, <3>1
    <3> QED
      BY <1>1, <1>2, <2>1, <2>3, <3>1, <3>2
  <2> QED
    BY <2>2, <2>3
<1>5. {i \in DOMAIN Script[k] : Ends[mode][k][i] =< n} = 1..m
  <2>1. \A i \in 1..m : i \in 1..N
    BY <1>1
  <2>2. \A i \in 1..N : i =< m <=> i \in 1..m
    BY <1>1
  <2> QED
    BY <1>1, <1>4, <2>1, <2>2, Zenon
<1>6. Cardinality(1..m) = m
  <2>1. 1 \in Int /\ m \in Int
    OBVIOUS
  <2>2. Cardinality(1..m) = IF 1 > m THEN 0 ELSE m - 1 + 1
    BY <2>1, FS_Interval
  <2> QED
    BY <2>2
<1> QED
  BY <1>5, <1>6, Zenon DEF Whole

-----------------------------------------------------------------------------
(* The requests done away with.                                            *)

\* With the trace of the request m, after those before.
Traced(c, k, m, q) == IF Fate(c, k, m) = "ignored" THEN q ELSE Append(q, m)

(* They come one after another.                                            *)
LEMMA HandledTurns ==
  ASSUME NEW c, NEW k \in Connections, NEW N, N = Count(k)
  PROVE  /\ \A n \in 0..N : Handled(c, k, n) \in Seq(Nat)
         /\ Handled(c, k, 0) = <<>>
         /\ \A n \in 1..N : Handled(c, k, n) = Traced(c, k, n, Handled(c, k, n - 1))
<1> DEFINE Traces(f, n) == f = [m \in 0..n |-> IF m = 0 THEN <<>> ELSE Traced(c, k, m, f[m - 1])]
           turn == [m \in 1..N |-> [q \in Seq(Nat) |-> Traced(c, k, m, q)]]
<1>0. N \in Nat
  BY ScriptType
<1>1. <<>> \in Seq(Nat)
  OBVIOUS
<1>2. \A m \in 1..N : \A q \in Seq(Nat) : Traced(c, k, m, q) \in Seq(Nat)
  <2> SUFFICES ASSUME NEW m \in 1..N, NEW q \in Seq(Nat) PROVE Traced(c, k, m, q) \in Seq(Nat)
    OBVIOUS
  <2>1. m \in Nat
    OBVIOUS
  <2>2. Append(q, m) \in Seq(Nat)
    BY <2>1, AppendProperties
  <2> QED
    BY <2>2 DEF Traced
<1>3. turn \in [1..N -> [Seq(Nat) -> Seq(Nat)]]
      /\ \A m \in 1..N : \A q \in Seq(Nat) : turn[m][q] = Traced(c, k, m, q)
  BY <1>2
<1> HIDE DEF turn
<1>4. PICK g : Course(g, N, Seq(Nat), <<>>, turn)
  BY <1>0, <1>1, <1>3, Turns
<1>5. /\ g \in [0..N -> Seq(Nat)] /\ g[0] = <<>> /\ \A m \in 1..N : g[m] = turn[m][g[m - 1]]
  BY <1>4 DEF Course
<1>6. \A m \in 1..N : g[m] = Traced(c, k, m, g[m - 1])
  <2> TAKE m \in 1..N
  <2>1. m - 1 \in 0..N
    BY <1>0
  <2>2. g[m - 1] \in Seq(Nat)
    BY <1>5, <2>1
  <2> QED
    BY <1>3, <1>5, <2>2, Zenon
<1>7. ASSUME NEW n \in 0..N PROVE Handled(c, k, n) = g[n]
  <2>1. PICK h : h = [m \in 0..n |-> g[m]]
    OBVIOUS
  <2>2. \A m \in 0..n : h[m] = g[m]
    BY <2>1
  <2>3. ASSUME NEW m \in 0..n
        PROVE  h[m] = IF m = 0 THEN <<>> ELSE Traced(c, k, m, h[m - 1])
    <3>1. CASE m = 0
      BY <2>2, <3>1, <1>5
    <3>2. CASE m # 0
      <4>1. m \in 1..N /\ m - 1 \in 0..n
        BY <1>0, <3>2
      <4> QED
        BY <1>6, <2>2, <3>2, <4>1, Zenon
    <3> QED
      BY <3>1, <3>2
  <2>4. Traces(h, n)
    <3>1. h = [m \in 0..n |-> h[m]]
      BY <2>1
    <3> QED
      BY <2>3, <3>1, Zenon
  <2> HIDE DEF Traces
  <2>5. Handled(c, k, n) = (CHOOSE f : Traces(f, n))[n]
    BY Zenon DEF Handled, Traces, Traced
  <2>6. PICK f : Traces(f, n) /\ Handled(c, k, n) = f[n]
    <3>1. Traces(CHOOSE f : Traces(f, n), n)
      BY <2>4, Zenon
    <3> QED
      BY <2>5, <3>1
  <2>7. \A m \in 0..n : f[m] = IF m = 0 THEN <<>> ELSE Traced(c, k, m, f[m - 1])
    <3>1. f = [m \in 0..n |-> IF m = 0 THEN <<>> ELSE Traced(c, k, m, f[m - 1])]
      BY <2>6, Zenon DEF Traces
    <3> QED
      BY <3>1, Zenon
  <2> DEFINE P == {m \in 0..n : f[m] = g[m]}
  <2>8. 0 \in P
    <3>1. 0 \in 0..n
      OBVIOUS
    <3>2. f[0] = <<>>
      BY <2>7, <3>1, Zenon
    <3> QED
      BY <1>5, <3>1, <3>2
  <2>9. \A m \in 1..n : m - 1 \in P => m \in P
    <3> SUFFICES ASSUME NEW m \in 1..n, m - 1 \in P PROVE m \in P
      OBVIOUS
    <3>1. m \in 0..n /\ m # 0 /\ m \in 1..N /\ f[m - 1] = g[m - 1]
      BY <1>0
    <3>2. f[m] = g[m]
      BY <1>6, <2>7, <3>1, Zenon
    <3> QED
      BY <3>1, <3>2
  <2>10. \A m \in 0..n : m \in P
    <3> HIDE DEF P
    <3>1. n \in Nat
      OBVIOUS
    <3> QED
      BY <2>8, <2>9, <3>1, TurnInduction
  <2>11. n \in 0..n
    OBVIOUS
  <2> QED
    BY <2>6, <2>10, <2>11
<1>8. 0 \in 0..N /\ \A n \in 1..N : n \in 0..N /\ n - 1 \in 0..N
  BY <1>0
<1>9. \A n \in 0..N : Handled(c, k, n) \in Seq(Nat)
  BY <1>5, <1>7
<1>10. Handled(c, k, 0) = <<>>
  BY <1>5, <1>7, <1>8, Zenon
<1>11. \A n \in 1..N : Handled(c, k, n) = Traced(c, k, n, Handled(c, k, n - 1))
  BY <1>6, <1>7, <1>8, Zenon
<1> QED
  BY <1>9, <1>10, <1>11
(* The request after m.                                                    *)
LEMMA Succession ==
  ASSUME NEW mode \in Modes, NEW k \in Connections, NEW m \in 0..Count(k), m # Count(k)
  PROVE  /\ m + 1 \in 1..Count(k) /\ m + 1 \in 0..Count(k)
         /\ Bound(mode, k, m) \in Nat /\ Bound(mode, k, m + 1) \in Nat
         /\ Sent(mode, k, m + 1) \in Seq(Nat)
         /\ Bound(mode, k, m + 1) = Bound(mode, k, m) + Len(Sent(mode, k, m + 1))
         /\ Bound(mode, k, m) < Bound(mode, k, m + 1)
         /\ At(Streams[mode][k], Bound(mode, k, m), Sent(mode, k, m + 1))
<1>1. PICK N \in Nat : N = Count(k)
  BY ScriptType
<1>2. PICK i : i = m + 1
  OBVIOUS
<1>3. m \in 0..N /\ i \in 1..N /\ i \in 0..N /\ i - 1 = m
  BY <1>1, <1>2
<1>4. Bound(mode, k, m) \in Nat /\ Bound(mode, k, i) \in Nat
  <2>1. \A j \in 0..Count(k) : Bound(mode, k, j) \in Nat
    BY Laid
  <2> QED
    BY <1>1, <1>3, <2>1, Zenon
<1>5. /\ Sent(mode, k, i) \in Seq(Nat)
      /\ Bound(mode, k, i) = Bound(mode, k, m) + Len(Sent(mode, k, i))
      /\ At(Streams[mode][k], Bound(mode, k, m), Sent(mode, k, i))
  <2>1. \A j \in 1..Count(k) :
          /\ Sent(mode, k, j) \in Seq(Nat)
          /\ Bound(mode, k, j) = Bound(mode, k, j - 1) + Len(Sent(mode, k, j))
          /\ At(Streams[mode][k], Bound(mode, k, j - 1), Sent(mode, k, j))
    BY Laid
  <2> QED
    BY <1>1, <1>3, <2>1, Zenon
<1>6. Bound(mode, k, m) < Bound(mode, k, i)
  <2>1. \A j \in 1..Count(k) : Bound(mode, k, j - 1) + 2 =< Bound(mode, k, j)
    BY Apart
  <2>2. Bound(mode, k, m) + 2 =< Bound(mode, k, i)
    BY <1>1, <1>3, <2>1, Zenon
  <2> QED
    BY <1>4, <2>2
<1> QED
  BY <1>1, <1>2, <1>3, <1>4, <1>5, <1>6, Zenon

\* The entries before a call, and those of the call, tell of the first m requests.
Reached(c, k, m, before, log) ==
  LET handled == Handled(c, k, m)
  IN  /\ Len(before) + Len(log) = Len(handled)
      /\ \A j \in 1..Len(before) : Does(c, before[j], k, handled[j])
      /\ \A j \in 1..Len(log) : Does(c, log[j], k, handled[Len(before) + j])

(* An ignored request leaves no trace.                                     *)
LEMMA Ignored ==
  ASSUME NEW c, NEW k \in Connections, NEW m \in 1..Count(k), NEW before, NEW log,
         Reached(c, k, m - 1, before, log), Fate(c, k, m) = "ignored"
  PROVE  Reached(c, k, m, before, log)
<1>1. Handled(c, k, m) = Handled(c, k, m - 1)
  <2>1. Handled(c, k, m) = Traced(c, k, m, Handled(c, k, m - 1))
    BY HandledTurns, Zenon
  <2> QED
    BY <2>1, Zenon DEF Traced
<1> QED
  BY <1>1, Zenon DEF Reached

(* A request that leaves the trace it should.                              *)
LEMMA Advanced ==
  ASSUME NEW c, NEW k \in Connections, NEW m \in 1..Count(k),
         NEW T, NEW before \in Seq(T), NEW U, NEW log \in Seq(U), NEW e \in U,
         Reached(c, k, m - 1, before, log), Fate(c, k, m) # "ignored", Does(c, e, k, m)
  PROVE  Reached(c, k, m, before, Append(log, e))
<1>1. PICK a \in Nat : a = Len(before)
  OBVIOUS
<1>2. PICK b \in Nat : b = Len(log)
  OBVIOUS
<1>3. PICK h \in Seq(Nat) : h = Handled(c, k, m - 1)
  <2>1. PICK N \in Nat : N = Count(k)
    BY ScriptType
  <2>2. m - 1 \in 0..N
    BY <2>1
  <2> QED
    BY <2>1, <2>2, HandledTurns, Zenon
<1>4. PICK g : g = Append(h, m)
  OBVIOUS
<1>5. Handled(c, k, m) = g
  <2>1. Handled(c, k, m) = Traced(c, k, m, Handled(c, k, m - 1))
    BY HandledTurns, Zenon
  <2> QED
    BY <1>3, <1>4, <2>1, Zenon DEF Traced
<1>6. PICK q : q = Append(log, e)
  OBVIOUS
<1>7. /\ a + b = Len(h)
      /\ \A j \in 1..a : Does(c, before[j], k, h[j])
      /\ \A j \in 1..b : Does(c, log[j], k, h[a + j])
  BY <1>1, <1>2, <1>3, Zenon DEF Reached
<1>8. Len(q) = b + 1 /\ q[b + 1] = e /\ \A j \in 1..b : q[j] = log[j]
  BY <1>2, <1>6
<1>9. Len(g) = a + (b + 1) /\ g[a + (b + 1)] = m /\ \A j \in 1..(a + b) : g[j] = h[j]
  <2>1. m \in Nat
    BY ScriptType
  <2>2. PICK n \in Nat : n = Len(h)
    OBVIOUS
  <2>3. Len(g) = n + 1 /\ g[n + 1] = m /\ \A j \in 1..n : g[j] = h[j]
    BY <1>4, <2>1, <2>2
  <2>4. n = a + b /\ n + 1 = a + (b + 1)
    <3>1. n = a + b
      BY <1>7, <2>2, Zenon
    <3> QED
      BY <3>1
  <2> QED
    BY <2>3, <2>4, Zenon
<1>10. \A j \in 1..a : Does(c, before[j], k, g[j])
  <2>1. \A j \in 1..a : j \in 1..(a + b)
    OBVIOUS
  <2> QED
    BY <1>7, <1>9, <2>1, Zenon
<1>11. \A j \in 1..(b + 1) : Does(c, q[j], k, g[a + j])
  <2> TAKE j \in 1..(b + 1)
  <2>1. CASE j = b + 1
    <3>1. q[j] = e /\ g[a + j] = m
      BY <1>8, <1>9, <2>1, Zenon
    <3> QED
      BY <3>1, Zenon
  <2>2. CASE j # b + 1
    <3>1. j \in 1..b /\ a + j \in 1..(a + b)
      BY <2>2
    <3>2. q[j] = log[j] /\ g[a + j] = h[a + j]
      BY <1>8, <1>9, <3>1, Zenon
    <3> QED
      BY <1>7, <3>1, <3>2, Zenon
  <2> QED
    BY <2>1, <2>2
<1> QED
  BY <1>1, <1>5, <1>6, <1>8, <1>9, <1>10, <1>11, Zenon DEF Reached

(* The entries of a call are noted after those before.                     *)
LEMMA Joins ==
  ASSUME NEW c, NEW k \in Connections, NEW m, NEW T, NEW before \in Seq(T), NEW log \in Seq(Entry),
         Reached(c, k, m, before, log), NEW noted \in Seq(T),
         noted = [j \in DOMAIN log |-> Noted(log[j])], NEW q, q = before \o noted
  PROVE  Reached(c, k, m, q, <<>>)
<1>1. PICK a \in Nat : a = Len(before)
  OBVIOUS
<1>2. PICK b \in Nat : b = Len(log) /\ DOMAIN log = 1..b
  OBVIOUS
<1>3. Len(noted) = b /\ \A j \in 1..b : noted[j] = Noted(log[j])
  <2>1. DOMAIN noted = 1..b /\ \A j \in 1..b : noted[j] = Noted(log[j])
    BY <1>2
  <2> QED
    BY <2>1
<1>4. PICK h : h = Handled(c, k, m)
  OBVIOUS
<1>5. /\ a + b = Len(h)
      /\ \A j \in 1..a : Does(c, before[j], k, h[j])
      /\ \A j \in 1..b : Does(c, log[j], k, h[a + j])
  BY <1>1, <1>2, <1>4, Zenon DEF Reached
<1>6. Len(q) = a + b /\ \A j \in 1..(a + b) : q[j] = IF j =< a THEN before[j] ELSE noted[j - a]
  <2>1. After(before, noted, q)
    BY OneAfterAnother, Zenon
  <2> QED
    BY <1>1, <1>3, <2>1, Zenon DEF After
<1>7. \A j \in 1..b : \A i : Does(c, log[j], k, i) => Does(c, Noted(log[j]), k, i)
  <2> SUFFICES ASSUME NEW j \in 1..b PROVE \A i : Does(c, log[j], k, i) => Does(c, Noted(log[j]), k, i)
    OBVIOUS
  <2>1. PICK e : e = log[j]
    OBVIOUS
  <2>2. Noted(e).did = e.did /\ Noted(e).context = e.context
    BY DEF Noted
  <2> QED
    BY <2>1, <2>2, Zenon DEF Does
<1>8. \A j \in 1..(a + b) : Does(c, q[j], k, h[j])
  <2> TAKE j \in 1..(a + b)
  <2>1. CASE j =< a
    <3>1. j \in 1..a
      BY <2>1
    <3> QED
      BY <1>5, <1>6, <2>1, <3>1, Zenon
  <2>2. CASE ~(j =< a)
    <3>1. PICK i \in 1..b : i = j - a /\ a + i = j
      BY <2>2
    <3>2. q[j] = Noted(log[i])
      BY <1>3, <1>6, <2>2, <3>1, Zenon
    <3>3. Does(c, log[i], k, h[j])
      BY <1>5, <3>1, Zenon
    <3> QED
      BY <1>7, <3>2, <3>3, Zenon
  <2> QED
    BY <2>1, <2>2
<1>9. Len(<<>>) = 0 /\ a + b + 0 = a + b /\ \A j \in 1..0 : FALSE
  OBVIOUS
<1> QED
  BY <1>4, <1>5, <1>6, <1>8, <1>9, Zenon DEF Reached

-----------------------------------------------------------------------------
(* What a call logs of a line.                                             *)

\* What was done with a request is logged, and nothing else.
Logs(f, did, context, h) ==
  /\ h \in Calls /\ h.session = f.session /\ h.returned = f.returned
  /\ \E e \in Entry : e.did = did /\ e.context = context /\ h.log = Append(f.log, e)

(* Logging and then writing, and what is logged.                           *)
LEMMA EntryLogged ==
  ASSUME NEW f \in Calls, NEW did \in Deeds, NEW context \in Contexts, NEW result \in Result,
         NEW answer \in Encodings, NEW h, h = Write(Log(f, did, context, result), answer)
  PROVE  Logs(f, did, context, h)
<1>0. /\ did \in {"refused", "denied", "executed"} /\ context \in Context \cup {Null}
      /\ answer \in Seq(Nat) \cup {Invalid}
  BY Zenon DEF Deeds, Contexts, Encodings
<1>1. f.session \in Session /\ f.session.hooks \in Hooks
  BY CallFields, SessionFields
<1>2. PICK e : e = [did |-> did, context |-> context, result |-> result,
                    observed |-> did \in {"denied", "executed"} /\ f.session.hooks.observer]
  OBVIOUS
<1>3. e \in Entry /\ e.did = did /\ e.context = context
  <2>1. e \in Entry
    BY <1>0, <1>1, <1>2, Entries, Zenon
  <2> QED
    BY <1>2, <2>1
<1>4. h = Answered(f, f.session, e, answer)
  <2>1. Write(Log(f, did, context, result), answer) =
          Answered(f, f.session,
                   [did |-> did, context |-> context, result |-> result,
                    observed |-> did \in {"denied", "executed"} /\ f.session.hooks.observer],
                   answer)
    BY LoggedWritten
  <2> QED
    BY <1>2, <2>1, Zenon
<1>5. /\ h \in Calls /\ h.session = f.session /\ h.returned = f.returned /\ h.log = Append(f.log, e)
  <2>1. /\ Answered(f, f.session, e, answer) \in Calls
        /\ Answered(f, f.session, e, answer).session = f.session
        /\ Answered(f, f.session, e, answer).returned = f.returned
        /\ Answered(f, f.session, e, answer).log = Append(f.log, e)
    BY <1>0, <1>1, <1>3, AnsweredType
  <2> QED
    BY <1>4, <2>1, Zenon
<1> QED
  BY <1>3, <1>5, Zenon DEF Logs

(* A result is logged.                                                     *)
LEMMA ResultLogged ==
  ASSUME NEW f \in Calls, NEW did \in Deeds, NEW context \in Contexts, NEW result \in Result,
         NEW h, h = WriteLineResult(Log(f, did, context, result), result)
  PROVE  Logs(f, did, context, h)
<1>1. PICK answer : answer = LineResult(result)
  OBVIOUS
<1>2. answer \in Encodings
  BY <1>1, LineResultType, Zenon DEF Encodings
<1>3. h = Write(Log(f, did, context, result), answer)
  BY <1>1, Zenon DEF WriteLineResult
<1> QED
  BY <1>2, <1>3, EntryLogged, Zenon

(* What sets a field of the session leaves the discarding, or sets it.     *)
LEMMA Discards ==
  ASSUME NEW f \in Calls
  PROVE  /\ \A line \in Seq(Nat) :
              Set(f, "line", line).session.discardUntilNewline = f.session.discardUntilNewline
         /\ \A n \in Nat :
              Set(f, "requestID", n).session.discardUntilNewline = f.session.discardUntilNewline
         /\ \A b \in BOOLEAN : Set(f, "discardUntilNewline", b).session.discardUntilNewline = b
<1>1. PICK s \in Session : s = f.session
  BY CallFields
<1>2. \A t \in Session : [f EXCEPT !.session = t].session = t
  BY DEF Calls
<1>3. ASSUME NEW line \in Seq(Nat)
      PROVE  Set(f, "line", line).session.discardUntilNewline = s.discardUntilNewline
  <2>1. PICK t : t = [s EXCEPT !.line = line]
    OBVIOUS
  <2>2. t \in Session /\ t.discardUntilNewline = s.discardUntilNewline
    BY <2>1 DEF Session
  <2>3. Set(f, "line", line) = [f EXCEPT !.session = t]
    BY <1>1, <2>1 DEF Set
  <2> QED
    BY <1>2, <2>2, <2>3, Zenon
<1>4. ASSUME NEW n \in Nat
      PROVE  Set(f, "requestID", n).session.discardUntilNewline = s.discardUntilNewline
  <2>1. PICK t : t = [s EXCEPT !.requestID = n]
    OBVIOUS
  <2>2. t \in Session /\ t.discardUntilNewline = s.discardUntilNewline
    BY <2>1 DEF Session
  <2>3. Set(f, "requestID", n) = [f EXCEPT !.session = t]
    BY <1>1, <2>1 DEF Set
  <2> QED
    BY <1>2, <2>2, <2>3, Zenon
<1>5. ASSUME NEW b \in BOOLEAN
      PROVE  Set(f, "discardUntilNewline", b).session.discardUntilNewline = b
  <2>1. PICK t : t = [s EXCEPT !.discardUntilNewline = b]
    OBVIOUS
  <2>2. t \in Session /\ t.discardUntilNewline = b
    BY <2>1 DEF Session
  <2>3. Set(f, "discardUntilNewline", b) = [f EXCEPT !.session = t]
    BY <1>1, <2>1 DEF Set
  <2> QED
    BY <1>2, <2>2, <2>3, Zenon
<1> QED
  BY <1>1, <1>3, <1>4, <1>5, Zenon

\* What becomes of a line whose text is this one, and what is logged of it.
Passed(c, text) == text = <<>> /\ c.ignoreEmptyLines
Sorted(text, e) ==
  IF text = <<>> \/ ~Tokenizes(text) THEN e.did = "refused"
  ELSE e.did \in {"denied", "executed"} /\ e.context.raw = text

Treated(f, text, h) ==
  /\ h \in Calls /\ h.returned = f.returned
  /\ h.session.config = f.session.config /\ h.session.line = f.session.line
  /\ h.session.discardUntilNewline = f.session.discardUntilNewline
  /\ IF Passed(f.session.config, text) THEN h.log = f.log
     ELSE \E e \in Entry : Sorted(text, e) /\ h.log = Append(f.log, e)

(* A line is passed over, or logged as what it is.                         *)
LEMMA LineLogged ==
  ASSUME NEW f \in Calls, NEW line \in Seq(Nat), NEW h, h = HandleLine(f, line),
         NEW text, text = Trim(line)
  PROVE  Treated(f, text, h)
<1> SUFFICES
      /\ h \in Calls /\ h.returned = f.returned
      /\ h.session.config = f.session.config /\ h.session.line = f.session.line
      /\ h.session.discardUntilNewline = f.session.discardUntilNewline
      /\ IF Passed(f.session.config, text) THEN h.log = f.log
         ELSE \E e \in Entry : Sorted(text, e) /\ h.log = Append(f.log, e)
  BY DEF Treated
<1>2. text \in Seq(Nat) /\ FirstWord(text) \in Seq(Nat)
  BY LineTexts
<1>3. f.session \in Session /\ f.session.requestID \in Nat
  BY CallFields, SessionFields
<1>4. PICK id \in Nat : id = f.session.requestID + 1
  BY <1>3
<1>5. PICK g : g = Set(f, "requestID", id)
  OBVIOUS
<1>6. /\ Quiet(f, g) /\ g.returned = f.returned /\ g.session.line = f.session.line
      /\ g.session.discardUntilNewline = f.session.discardUntilNewline
  <2>1. Quiet(f, g) /\ g.returned = f.returned /\ g.session.line = f.session.line
    BY <1>5, NumberSet
  <2>2. g.session.discardUntilNewline = f.session.discardUntilNewline
    <3>1. \A n \in Nat :
            Set(f, "requestID", n).session.discardUntilNewline = f.session.discardUntilNewline
      BY Discards
    <3> QED
      BY <1>5, <3>1, Zenon
  <2> QED
    BY <2>1, <2>2
<1>7. g \in Calls /\ g.log = f.log /\ g.session.config = f.session.config
  BY <1>6, Zenon DEF Quiet, Continues
<1>8. PICK done : done = Execute(g, LineContext(id, text))
  OBVIOUS
<1>9. h =
        IF text = <<>> /\ f.session.config.ignoreEmptyLines THEN [f EXCEPT !.wrote = TRUE]
        ELSE IF ~Tokenizes(text) THEN WriteLineResult(Log(g, "refused", Null, Malformed), Malformed)
        ELSE IF text = <<>> THEN WriteLineResult(Log(g, "refused", Null, Empty), Empty)
        ELSE WriteLineResult(done, Last(done.log).result)
  BY <1>4, <1>5, <1>8, Zenon DEF HandleLine
<1>11. CASE Passed(f.session.config, text)
  <2>1. h = [f EXCEPT !.wrote = TRUE]
    BY <1>9, <1>11, Zenon DEF Passed
  <2>2. /\ Quiet(f, [f EXCEPT !.wrote = TRUE]) /\ [f EXCEPT !.wrote = TRUE].session = f.session
        /\ [f EXCEPT !.wrote = TRUE].returned = f.returned
    BY Concluded
  <2>3. Quiet(f, h) /\ h.session = f.session /\ h.returned = f.returned
    BY <2>1, <2>2, Zenon
  <2> QED
    BY <1>11, <2>3, Zenon DEF Quiet, Continues
<1>12. ASSUME NEW result \in Result, h = WriteLineResult(Log(g, "refused", Null, result), result),
              text = <<>> \/ ~Tokenizes(text), ~Passed(f.session.config, text)
       PROVE  /\ h \in Calls /\ h.returned = f.returned
              /\ h.session.config = f.session.config /\ h.session.line = f.session.line
              /\ h.session.discardUntilNewline = f.session.discardUntilNewline
              /\ \E e \in Entry : Sorted(text, e) /\ h.log = Append(f.log, e)
  <2>1. "refused" \in Deeds /\ Null \in Contexts
    BY DEF Deeds, Contexts
  <2>2. Logs(g, "refused", Null, h)
    BY <1>7, <1>12, <2>1, ResultLogged, Zenon
  <2> QED
    BY <1>6, <1>7, <1>12, <2>2, Zenon DEF Sorted, Logs
<1>13. CASE ~Passed(f.session.config, text) /\ ~Tokenizes(text)
  <2>1. h = WriteLineResult(Log(g, "refused", Null, Malformed), Malformed)
    BY <1>9, <1>13, Zenon DEF Passed
  <2> QED
    BY <1>12, <1>13, <2>1, Errors, Zenon
<1>14. CASE ~Passed(f.session.config, text) /\ Tokenizes(text) /\ text = <<>>
  <2>1. h = WriteLineResult(Log(g, "refused", Null, Empty), Empty)
    BY <1>9, <1>14, Zenon DEF Passed
  <2> QED
    BY <1>12, <1>14, <2>1, Errors, Zenon
<1>15. CASE ~Passed(f.session.config, text) /\ Tokenizes(text) /\ text # <<>>
  <2>1. PICK context : context = LineContext(id, text)
    OBVIOUS
  <2>2. context \in Context /\ context.raw = text
    <3>1. <<FirstWord(text)>> \in Seq(Seq(Nat))
      BY <1>2
    <3> QED
      BY <1>2, <2>1, <3>1 DEF LineContext, Context
  <2>3. PICK did \in {"denied", "executed"}, result \in Result : done = Log(g, did, context, result)
    BY <1>7, <1>8, <2>1, <2>2, Executed, ZenonT(40)
  <2>4. did \in {"refused", "denied", "executed"} /\ context \in Context \cup {Null}
    BY <2>2
  <2>5. Last(done.log).result = result
    <3>1. Last(Log(g, did, context, result).log).result = result
      BY <1>7, <2>4, LoggedLast
    <3> QED
      BY <2>3, <3>1, Zenon
  <2>6. h = WriteLineResult(Log(g, did, context, result), result)
    BY <1>9, <1>15, <2>3, <2>5, Zenon
  <2>7. Logs(g, did, context, h)
    BY <1>7, <2>4, <2>6, ResultLogged, Zenon DEF Deeds, Contexts
  <2>8. did \in {"denied", "executed"}
    OBVIOUS
  <2>9. \E e \in Entry : Sorted(text, e) /\ h.log = Append(f.log, e)
    BY <1>7, <1>15, <2>2, <2>7, <2>8, Zenon DEF Sorted, Logs
  <2> QED
    BY <1>6, <1>7, <1>15, <2>7, <2>9, Zenon DEF Logs
<1> QED
  BY <1>11, <1>13, <1>14, <1>15, Zenon

(* A line too long is logged as refused.                                   *)
LEMMA LongLineLogged ==
  ASSUME NEW f \in Calls, NEW h, h = RefuseLongLine(f)
  PROVE  /\ h \in Calls /\ h.session = f.session
         /\ \E e \in Entry : e.did = "refused" /\ h.log = Append(f.log, e)
         /\ IF f.session.config.disconnectOnProtocolError THEN h.returned /\ ~h.success
            ELSE h.returned = f.returned
<1>1. PICK g : g = WriteLineResult(Log(f, "refused", Null, TooLong), TooLong)
  OBVIOUS
<1>2. /\ g \in Calls /\ g.session = f.session /\ g.returned = f.returned
      /\ \E e \in Entry : e.did = "refused" /\ g.log = Append(f.log, e)
  <2>1. "refused" \in Deeds /\ Null \in Contexts
    BY DEF Deeds, Contexts
  <2>2. TooLong \in Result
    BY Errors, Zenon
  <2>3. Logs(f, "refused", Null, g)
    BY <1>1, <2>1, <2>2, ResultLogged, Zenon
  <2> QED
    BY <2>3, Zenon DEF Logs
<1>3. h = IF f.session.config.disconnectOnProtocolError THEN Return(g, FALSE) ELSE And(g)
  BY <1>1, Zenon DEF RefuseLongLine
<1>4. /\ Quiet(g, And(g)) /\ And(g).session = g.session /\ And(g).returned = g.returned
      /\ Quiet(g, Return(g, FALSE)) /\ Return(g, FALSE).session = g.session
      /\ Return(g, FALSE).returned = TRUE
  <2>1. FALSE \in BOOLEAN
    OBVIOUS
  <2> QED
    BY <1>2, <2>1, Concluded
<1>5. ~Return(g, FALSE).success
  <2>1. g \in Calls
    BY <1>2
  <2> QED
    BY <2>1 DEF Return, Calls
<1>6. Quiet(g, h) /\ h.session = g.session
  BY <1>3, <1>4, Zenon
<1>7. h \in Calls /\ h.log = g.log
  BY <1>6, Zenon DEF Quiet, Continues
<1>8. \E e \in Entry : e.did = "refused" /\ h.log = Append(f.log, e)
  BY <1>2, <1>7, Zenon
<1>9. IF f.session.config.disconnectOnProtocolError THEN h.returned /\ ~h.success
      ELSE h.returned = f.returned
  BY <1>2, <1>3, <1>4, <1>5, Zenon
<1> QED
  BY <1>2, <1>6, <1>7, <1>8, <1>9, Zenon

-----------------------------------------------------------------------------
(* A line, byte by byte.                                                   *)

\* Between two lines.
Fresh(s) == s.line = <<>> /\ ~s.discardUntilNewline

\* After p bytes of a line, its end included, the session holds so much of the text.
LineAt(text, p, s) ==
  LET n == IF p =< Len(text) THEN p ELSE Len(text)
  IN  /\ s.discardUntilNewline <=> n > MaximumRequestBytes
      /\ s.line = IF n > MaximumRequestBytes THEN <<>> ELSE SubSeq(text, 1, n)

\* What a turn does at the end of the request m.
Ended(c, k, m, f, h) ==
  /\ h \in Calls /\ h.session.config = c
  /\ IF Fate(c, k, m) = "ignored" THEN h.log = f.log
     ELSE \E e \in Entry : Does(c, e, k, m) /\ h.log = Append(f.log, e)

(* Nothing is held before the first byte.                                  *)
LEMMA LineBegins ==
  ASSUME NEW text \in Seq(Nat), NEW s, Fresh(s)
  PROVE  LineAt(text, 0, s)
<1>1. MaximumRequestBytes \in Nat /\ 0 =< Len(text) /\ ~(0 > MaximumRequestBytes)
  BY Bounds
<1>2. SubSeq(text, 1, 0) = <<>>
  OBVIOUS
<1> QED
  BY <1>1, <1>2, Zenon DEF Fresh, LineAt

(* A byte of the text is kept, unless there is no room.                    *)
LEMMA TextRead ==
  ASSUME NEW f \in Calls, ~f.returned, NEW text \in Seq(Nat), NEW p \in Nat, p < Len(text),
         LineAt(text, p, f.session), text[p + 1] \notin {CR, LF}, NEW h, h = FeedByte(f, text[p + 1])
  PROVE  Quiet(f, h) /\ ~h.returned /\ LineAt(text, p + 1, h.session)
<1>1. PICK b \in Nat : b = text[p + 1]
  OBVIOUS
<1>2. PICK s : s = f.session
  OBVIOUS
<1>3. f.session \in Session /\ s.line \in Seq(Nat) /\ <<>> \in Seq(Nat)
  BY <1>2, CallFields, SessionFields
<1>4. MaximumRequestBytes \in Nat
  BY Bounds
<1>5. PICK n \in Nat : n = Len(text)
  OBVIOUS
<1>6. /\ s.discardUntilNewline <=> p > MaximumRequestBytes
      /\ s.line = IF p > MaximumRequestBytes THEN <<>> ELSE SubSeq(text, 1, p)
  <2>1. p =< Len(text)
    BY <1>5
  <2> QED
    BY <1>2, <2>1, Zenon DEF LineAt
<1>7. h = IF s.discardUntilNewline THEN f
          ELSE IF Fits(s.line) THEN Set(f, "line", Append(s.line, b))
          ELSE Set(Set(f, "line", <<>>), "discardUntilNewline", TRUE)
  <2>1. b # CR /\ b # LF
    BY <1>1
  <2> QED
    BY <1>1, <1>2, <2>1, Zenon DEF FeedByte
<1>8. ASSUME NEW t, t.discardUntilNewline <=> p + 1 > MaximumRequestBytes,
             t.line = IF p + 1 > MaximumRequestBytes THEN <<>> ELSE SubSeq(text, 1, p + 1)
      PROVE  LineAt(text, p + 1, t)
  <2>1. p + 1 =< Len(text)
    BY <1>5
  <2> QED
    BY <1>8, <2>1, Zenon DEF LineAt
<1>9. CASE s.discardUntilNewline
  <2>1. h = f /\ p > MaximumRequestBytes /\ p + 1 > MaximumRequestBytes
    BY <1>4, <1>6, <1>7, <1>9
  <2>2. LineAt(text, p + 1, h.session)
    BY <1>2, <1>6, <1>8, <1>9, <2>1, Zenon
  <2>3. Quiet(f, f)
    BY QuietSelf
  <2> QED
    BY <2>1, <2>2, <2>3, Zenon
<1>10. CASE ~s.discardUntilNewline /\ Fits(s.line)
  <2>1. ~(p > MaximumRequestBytes) /\ s.line = SubSeq(text, 1, p)
    BY <1>6, <1>10, Zenon
  <2>2. Len(s.line) = p
    BY <1>5, <2>1
  <2>3. ~(p + 1 > MaximumRequestBytes)
    <3>1. p < MaximumRequestBytes
      BY <1>10, <2>2, Zenon DEF Fits
    <3> QED
      BY <1>4, <3>1
  <2>4. PICK line \in Seq(Nat) : line = Append(s.line, b)
    BY <1>1, <1>3, AppendProperties
  <2>5. line = SubSeq(text, 1, p + 1)
    <3>1. SubSeq(text, 1, p + 1) = Append(SubSeq(text, 1, p), text[p + 1])
      BY <1>5
    <3> QED
      BY <1>1, <2>1, <2>4, <3>1, Zenon
  <2>6. h = Set(f, "line", line)
    BY <1>7, <1>10, <2>4, Zenon
  <2>7. Quiet(f, h) /\ h.returned = f.returned /\ h.session.line = line
    BY <2>6, LineSet
  <2>8. h.session.discardUntilNewline = s.discardUntilNewline
    <3>1. \A q \in Seq(Nat) :
            Set(f, "line", q).session.discardUntilNewline = f.session.discardUntilNewline
      BY Discards
    <3> QED
      BY <1>2, <2>6, <3>1, Zenon
  <2>9. LineAt(text, p + 1, h.session)
    BY <1>8, <1>10, <2>3, <2>5, <2>7, <2>8, Zenon
  <2> QED
    BY <2>7, <2>9, Zenon
<1>11. CASE ~s.discardUntilNewline /\ ~Fits(s.line)
  <2>1. ~(p > MaximumRequestBytes) /\ s.line = SubSeq(text, 1, p)
    BY <1>6, <1>11, Zenon
  <2>2. Len(s.line) = p
    BY <1>5, <2>1
  <2>3. p + 1 > MaximumRequestBytes
    <3>1. ~(p < MaximumRequestBytes)
      BY <1>11, <2>2, Zenon DEF Fits
    <3> QED
      BY <1>4, <3>1
  <2>4. PICK g : g = Set(f, "line", <<>>)
    OBVIOUS
  <2>5. Quiet(f, g) /\ g.returned = f.returned /\ g.session.line = <<>>
    BY <1>3, <2>4, LineSet
  <2>6. g \in Calls /\ TRUE \in BOOLEAN
    BY <2>5 DEF Quiet, Continues
  <2>7. h = Set(g, "discardUntilNewline", TRUE)
    BY <1>7, <1>11, <2>4, Zenon
  <2>8. Quiet(g, h) /\ h.returned = g.returned /\ h.session.line = g.session.line
    BY <2>6, <2>7, DiscardSet
  <2>9. h.session.discardUntilNewline = TRUE
    <3>1. \A v \in BOOLEAN : Set(g, "discardUntilNewline", v).session.discardUntilNewline = v
      BY <2>6, Discards
    <3> QED
      BY <2>6, <2>7, <3>1, Zenon
  <2>10. Quiet(f, h)
    BY <2>5, <2>8, QuietTwice
  <2>11. LineAt(text, p + 1, h.session)
    BY <1>8, <2>3, <2>5, <2>8, <2>9, Zenon
  <2> QED
    BY <2>5, <2>8, <2>10, <2>11, Zenon
<1> QED
  BY <1>9, <1>10, <1>11, Zenon

(* The carriage return after the text changes nothing.                     *)
LEMMA ReturnRead ==
  ASSUME NEW f \in Calls, NEW text \in Seq(Nat), NEW p, p = Len(text),
         LineAt(text, p, f.session), NEW h, h = FeedByte(f, CR)
  PROVE  h = f /\ LineAt(text, p + 1, h.session)
<1>1. h = f
  BY Zenon DEF FeedByte
<1>2. p =< Len(text) /\ ~(p + 1 =< Len(text))
  OBVIOUS
<1> QED
  BY <1>1, <1>2, Zenon DEF LineAt

(* The line feed ends it: the request is done away with.                   *)
LEMMA EndRead ==
  ASSUME NEW f \in Calls, ~f.returned, NEW c, c = f.session.config, c.mode = "Line",
         NEW k \in Connections, NEW m \in 1..Count(k), NEW text, text = Script[k][m].text,
         NEW p, p = Len(text) + 1, LineAt(text, p, f.session), NEW h, h = FeedByte(f, LF)
  PROVE  /\ Ended(c, k, m, f, h)
         /\ IF h.returned THEN c.disconnectOnProtocolError /\ ~h.success ELSE Fresh(h.session)
<1>1. PICK r : r = Script[k][m]
  OBVIOUS
<1>2. /\ r.kind \in {"command", "malformed", "oversize", "blank"}
      /\ text \in Seq(Nat) /\ r.text = text /\ IsOfItsKind(r)
  BY <1>1, ScriptType, Zenon
<1>3. PICK s : s = f.session
  OBVIOUS
<1>4. f.session \in Session /\ <<>> \in Seq(Nat) /\ FALSE \in BOOLEAN /\ LF # CR
  BY CallFields DEF CR, LF
<1>5. /\ s.discardUntilNewline <=> Len(text) > MaximumRequestBytes
      /\ s.line = IF Len(text) > MaximumRequestBytes THEN <<>> ELSE SubSeq(text, 1, Len(text))
  <2>1. PICK n \in Nat : n = Len(text)
    BY <1>2
  <2>2. p = n + 1
    BY <2>1
  <2>3. ~(p =< n)
    BY <2>2
  <2> QED
    BY <1>3, <2>1, <2>3, Zenon DEF LineAt
<1>6. h = IF s.discardUntilNewline
          THEN RefuseLongLine(Set(Set(f, "discardUntilNewline", FALSE), "line", <<>>))
          ELSE And(HandleLine(Set(f, "line", <<>>), s.line))
  BY <1>3, <1>4, Zenon DEF FeedByte
<1>7. CASE s.discardUntilNewline
  <2>1. PICK g : g = Set(f, "discardUntilNewline", FALSE)
    OBVIOUS
  <2>2. Quiet(f, g) /\ g.returned = f.returned /\ g.session.discardUntilNewline = FALSE
    <3>1. Quiet(f, g) /\ g.returned = f.returned
      BY <1>4, <2>1, DiscardSet
    <3>2. \A v \in BOOLEAN : Set(f, "discardUntilNewline", v).session.discardUntilNewline = v
      BY Discards
    <3> QED
      BY <1>4, <2>1, <3>1, <3>2, Zenon
  <2>3. g \in Calls
    BY <2>2, Zenon DEF Quiet, Continues
  <2>4. PICK e : e = Set(g, "line", <<>>)
    OBVIOUS
  <2>5. /\ Quiet(g, e) /\ e.returned = g.returned /\ e.session.line = <<>>
        /\ e.session.discardUntilNewline = g.session.discardUntilNewline
    <3>1. Quiet(g, e) /\ e.returned = g.returned /\ e.session.line = <<>>
      BY <1>4, <2>3, <2>4, LineSet
    <3>2. \A q \in Seq(Nat) :
            Set(g, "line", q).session.discardUntilNewline = g.session.discardUntilNewline
      BY <2>3, Discards
    <3> QED
      BY <1>4, <2>4, <3>1, <3>2, Zenon
  <2>6. e \in Calls /\ e.log = f.log /\ e.session.config = c /\ ~e.returned /\ Fresh(e.session)
    BY <2>2, <2>5, Zenon DEF Quiet, Continues, Fresh
  <2>7. h = RefuseLongLine(e)
    BY <1>6, <1>7, <2>1, <2>4, Zenon
  <2>8. /\ h \in Calls /\ h.session = e.session
        /\ \E x \in Entry : x.did = "refused" /\ h.log = Append(e.log, x)
        /\ IF e.session.config.disconnectOnProtocolError THEN h.returned /\ ~h.success
           ELSE h.returned = e.returned
    BY <2>6, <2>7, LongLineLogged
  <2>9. r.kind = "oversize"
    <3>1. Len(text) > MaximumRequestBytes
      BY <1>5, <1>7
    <3>2. ~(Len(text) =< MaximumRequestBytes)
      BY <1>2, <3>1, Bounds
    <3> QED
      BY <1>2, <3>2, Zenon DEF IsOfItsKind
  <2>10. Fate(c, k, m) = "refused" /\ "refused" # "ignored"
    <3>1. "oversize" # "command" /\ "oversize" # "blank"
      OBVIOUS
    <3>2. Fate(c, k, m) = "refused"
      BY <1>1, <2>9, <3>1, Zenon DEF Fate
    <3> QED
      BY <3>2
  <2>11. \E x \in Entry : Does(c, x, k, m) /\ h.log = Append(f.log, x)
    BY <2>6, <2>8, <2>10, Zenon DEF Does
  <2>12. Ended(c, k, m, f, h)
    BY <2>6, <2>8, <2>10, <2>11, Zenon DEF Ended
  <2> QED
    BY <2>6, <2>8, <2>12, Zenon
<1>8. CASE ~s.discardUntilNewline
  <2>1. s.line = text /\ ~(Len(text) > MaximumRequestBytes)
    <3>1. SubSeq(text, 1, Len(text)) = text
      BY <1>2
    <3> QED
      BY <1>5, <1>8, <3>1, Zenon
  <2>2. PICK e : e = Set(f, "line", <<>>)
    OBVIOUS
  <2>3. /\ Quiet(f, e) /\ e.returned = f.returned /\ e.session.line = <<>>
        /\ e.session.discardUntilNewline = f.session.discardUntilNewline
    <3>1. Quiet(f, e) /\ e.returned = f.returned /\ e.session.line = <<>>
      BY <1>4, <2>2, LineSet
    <3>2. \A q \in Seq(Nat) :
            Set(f, "line", q).session.discardUntilNewline = f.session.discardUntilNewline
      BY Discards
    <3> QED
      BY <1>4, <2>2, <3>1, <3>2, Zenon
  <2>4. e \in Calls /\ e.log = f.log /\ e.session.config = c /\ ~e.returned /\ Fresh(e.session)
    BY <1>3, <1>8, <2>3, Zenon DEF Quiet, Continues, Fresh
  <2>5. PICK g : g = HandleLine(e, text)
    OBVIOUS
  <2>6. PICK t : t = Trim(text)
    OBVIOUS
  <2>7. /\ g \in Calls /\ g.returned = e.returned
        /\ g.session.config = e.session.config /\ g.session.line = e.session.line
        /\ g.session.discardUntilNewline = e.session.discardUntilNewline
        /\ IF Passed(e.session.config, t) THEN g.log = e.log
           ELSE \E x \in Entry : Sorted(t, x) /\ g.log = Append(e.log, x)
    <3>1. e \in Calls /\ text \in Seq(Nat)
      BY <1>2, <2>4
    <3>2. Treated(e, t, g)
      BY <2>5, <2>6, <3>1, LineLogged, Zenon
    <3> QED
      BY <3>2, Zenon DEF Treated
  <2>8. h = And(g)
    BY <1>6, <1>8, <2>1, <2>2, <2>5, Zenon
  <2>9. Quiet(g, h) /\ h.session = g.session /\ h.returned = g.returned
    <3>1. Quiet(g, And(g)) /\ And(g).session = g.session /\ And(g).returned = g.returned
      BY <1>4, <2>7, Concluded
    <3> QED
      BY <2>8, <3>1, Zenon
  <2>10. h \in Calls /\ h.log = g.log /\ ~h.returned /\ h.session.config = c /\ Fresh(h.session)
    BY <2>4, <2>7, <2>9, Zenon DEF Quiet, Continues, Fresh
  <2>11. IF Passed(c, t) THEN h.log = f.log
         ELSE \E x \in Entry : Sorted(t, x) /\ h.log = Append(f.log, x)
    BY <2>4, <2>7, <2>10, Zenon
  <2>12. r.kind # "oversize"
    BY <1>2, <2>1, Zenon DEF IsOfItsKind
  <2>13. /\ "run" # "ignored" /\ "refused" # "ignored" /\ "run" # "refused"
         /\ "malformed" # "command" /\ "malformed" # "blank" /\ "blank" # "command"
    OBVIOUS
  <2>14. CASE r.kind = "blank"
    <3>1. t = <<>>
      BY <1>2, <2>6, <2>14, Zenon DEF IsOfItsKind
    <3>2. Fate(c, k, m) = IF c.ignoreEmptyLines THEN "ignored" ELSE "refused"
      BY <1>1, <2>14, <2>13, Zenon DEF Fate
    <3>3. CASE c.ignoreEmptyLines
      <4>1. Passed(c, t)
        BY <3>1, <3>3, Zenon DEF Passed
      <4> QED
        BY <2>10, <2>11, <3>2, <3>3, <4>1, Zenon DEF Ended
    <3>4. CASE ~c.ignoreEmptyLines
      <4>1. ~Passed(c, t) /\ Fate(c, k, m) = "refused"
        BY <3>2, <3>4, Zenon DEF Passed
      <4>2. \E x \in Entry : Does(c, x, k, m) /\ h.log = Append(f.log, x)
        BY <2>11, <3>1, <4>1, Zenon DEF Does, Sorted
      <4> QED
        BY <2>13, <2>10, <4>1, <4>2, Zenon DEF Ended
    <3> QED
      BY <3>3, <3>4
  <2>15. CASE r.kind = "malformed"
    <3>1. t # <<>> /\ ~Tokenizes(t)
      BY <1>2, <2>6, <2>15, Zenon DEF IsOfItsKind
    <3>2. Fate(c, k, m) = "refused"
      BY <1>1, <2>15, <2>13, Zenon DEF Fate
    <3>3. ~Passed(c, t)
      BY <3>1, Zenon DEF Passed
    <3>4. \E x \in Entry : Does(c, x, k, m) /\ h.log = Append(f.log, x)
      BY <2>11, <3>1, <3>2, <3>3, Zenon DEF Does, Sorted
    <3> QED
      BY <2>13, <2>10, <3>2, <3>4, Zenon DEF Ended
  <2>16. CASE r.kind = "command"
    <3>1. t # <<>> /\ Tokenizes(t)
      BY <1>2, <2>6, <2>16, Zenon DEF IsOfItsKind
    <3>2. Fate(c, k, m) = "run"
      BY <1>1, <2>16, Zenon DEF Fate
    <3>3. ~Passed(c, t)
      BY <3>1, Zenon DEF Passed
    <3>4. \E x \in Entry : Sorted(t, x) /\ h.log = Append(f.log, x)
      BY <2>11, <3>3
    <3>5. \A x : Sorted(t, x) => Does(c, x, k, m)
      <4> SUFFICES ASSUME NEW x, Sorted(t, x) PROVE Does(c, x, k, m)
        OBVIOUS
      <4>1. x.did \in {"denied", "executed"} /\ x.context.raw = t
        BY <3>1, Zenon DEF Sorted
      <4>2. x.did \in {"executed", "denied"}
        BY <4>1
      <4> QED
        BY <2>6, <2>13, <3>2, <4>1, <4>2, Zenon DEF Does
    <3> QED
      BY <2>13, <2>10, <3>2, <3>4, <3>5, Zenon DEF Ended
  <2> QED
    BY <1>2, <2>10, <2>12, <2>14, <2>15, <2>16, Zenon
<1> QED
  BY <1>7, <1>8

-----------------------------------------------------------------------------
(* The lines of a connection, byte by byte.                                *)

\* The first m requests are among the first n bytes, and no more of them.
Within(mode, k, m, n) ==
  /\ m \in 0..Count(k)
  /\ Bound(mode, k, m) =< n
  /\ m < Count(k) => n < Bound(mode, k, m + 1)

\* What a session holds of the lines when it has read n bytes, m requests in.
LineHere(k, m, n, s) ==
  IF m = Count(k) THEN Fresh(s)
  ELSE LineAt(Script[k][m + 1].text, n - Bound("Line", k, m), s)

\* A call after n bytes: what it returns with, or where it is.
InLine(c, k, before, n, f) ==
  /\ f \in Calls /\ f.session.config = c
  /\ \E m \in 0..Count(k) :
       /\ Reached(c, k, m, before, f.log)
       /\ IF f.returned THEN c.disconnectOnProtocolError /\ ~f.success
          ELSE Within("Line", k, m, n) /\ LineHere(k, m, n, f.session)

\* The byte after n, of the request after m.
Ahead(mode, k, S, m, n) ==
  /\ m \in 0..Count(k) /\ m # Count(k) /\ m + 1 \in 1..Count(k)
  /\ \E p \in Nat : /\ n = Bound(mode, k, m) + p /\ p < Len(Sent(mode, k, m + 1))
                    /\ S[n + 1] = Sent(mode, k, m + 1)[p + 1]

(* The next byte is one of the next request.                               *)
LEMMA ByteAhead ==
  ASSUME NEW mode \in Modes, NEW k \in Connections, NEW S, S = Streams[mode][k],
         NEW n \in Nat, n < Len(S), NEW m, Within(mode, k, m, n)
  PROVE  Ahead(mode, k, S, m, n)
<1>0. PICK N \in Nat : N = Count(k)
  BY ScriptType
<1>1. m \in 0..N /\ Bound(mode, k, m) =< n /\ (m < N => n < Bound(mode, k, m + 1))
  BY <1>0, Zenon DEF Within
<1>2. PICK l \in Nat : l = Len(S)
  <2>1. S \in Seq(Nat)
    BY Laid
  <2> QED
    BY <2>1
<1>3. PICK b \in Nat : b = Bound(mode, k, m)
  <2>1. \A i \in 0..Count(k) : Bound(mode, k, i) \in Nat
    BY Laid
  <2> QED
    BY <1>0, <1>1, <2>1, Zenon
<1>4. m # N
  <2>1. Bound(mode, k, Count(k)) = Len(S)
    BY Laid
  <2> SUFFICES ASSUME m = N PROVE FALSE
    OBVIOUS
  <2>2. l =< n
    BY <1>0, <1>1, <1>2, <2>1, Zenon
  <2> QED
    BY <1>2, <2>2
<1>5. m + 1 \in 1..N /\ n < Bound(mode, k, m + 1)
  BY <1>0, <1>1, <1>4
<1>6. /\ Sent(mode, k, m + 1) \in Seq(Nat)
      /\ Bound(mode, k, m + 1) = b + Len(Sent(mode, k, m + 1))
      /\ At(S, b, Sent(mode, k, m + 1))
  <2>1. m \in 0..Count(k) /\ m # Count(k)
    BY <1>0, <1>1, <1>4
  <2> QED
    BY <1>3, <2>1, Succession
<1>7. PICK q : q = Sent(mode, k, m + 1)
  OBVIOUS
<1>8. PICK w \in Nat : w = Len(q)
  BY <1>6, <1>7
<1>9. PICK p \in Nat : n = b + p
  <2>1. b =< n /\ n - b \in Nat /\ n = b + (n - b)
    BY <1>1, <1>3
  <2> QED
    BY <2>1
<1>10. p < w /\ p + 1 \in 1..w /\ b + (p + 1) = n + 1
  <2>1. n < b + w
    BY <1>5, <1>6, <1>7, <1>8
  <2> QED
    BY <1>9, <2>1
<1>11. S[n + 1] = q[p + 1]
  <2>1. \A j \in 1..Len(q) : S[b + j] = q[j]
    BY <1>6, <1>7, Zenon DEF At
  <2> QED
    BY <1>8, <1>10, <2>1, Zenon
<1> QED
  BY <1>0, <1>1, <1>3, <1>4, <1>5, <1>7, <1>8, <1>9, <1>10, <1>11, Zenon DEF Ahead

\* The byte after n, of the line after m.
Onward(k, S, m, n, text) ==
  /\ m \in 0..Count(k) /\ m # Count(k) /\ m + 1 \in 1..Count(k)
  /\ text \in Seq(Nat)
  /\ Bound("Line", k, m + 1) = Bound("Line", k, m) + Len(text) + 2
  /\ \E p \in Nat :
       /\ n = Bound("Line", k, m) + p
       /\ \/ p < Len(text) /\ S[n + 1] = text[p + 1] /\ text[p + 1] \notin {CR, LF}
          \/ p = Len(text) /\ S[n + 1] = CR
          \/ p = Len(text) + 1 /\ S[n + 1] = LF

(* The next byte of a line.                                                *)
LEMMA LineAhead ==
  ASSUME NEW k \in Connections, NEW S, S = Streams["Line"][k],
         NEW n \in Nat, n < Len(S), NEW m, Within("Line", k, m, n),
         NEW text, text = Script[k][m + 1].text
  PROVE  Onward(k, S, m, n, text)
<1>0. "Line" \in Modes
  BY DEF Modes
<1>1. /\ m \in 0..Count(k) /\ m # Count(k) /\ m + 1 \in 1..Count(k)
      /\ \E p \in Nat : /\ n = Bound("Line", k, m) + p /\ p < Len(Sent("Line", k, m + 1))
                        /\ S[n + 1] = Sent("Line", k, m + 1)[p + 1]
  <2>1. Ahead("Line", k, S, m, n)
    BY <1>0, ByteAhead, Zenon
  <2> QED
    BY <2>1, Zenon DEF Ahead
<1>2. PICK r : r = Script[k][m + 1]
  OBVIOUS
<1>3. r.text = text /\ r.text \in Seq(Nat) /\ r.payload \in Seq(Nat) /\ IsOfItsKind(r)
  BY <1>1, <1>2, ScriptType, Zenon
<1>4. PICK q : q = SentBytes("Line", r)
  OBVIOUS
<1>5. q = Sent("Line", k, m + 1)
  BY <1>2, <1>4, Zenon DEF Sent
<1>6. PICK l \in Nat : l = Len(text)
  BY <1>3
<1>7. /\ Len(q) = l + 2 /\ \A j \in 1..l : q[j] = text[j]
      /\ q[l + 1] = CR /\ q[l + 2] = LF
  <2>1. IsLine(SentBytes("Line", r), r.text)
    BY <1>3, SentType, Zenon
  <2> QED
    BY <1>3, <1>4, <1>6, <2>1, Zenon DEF IsLine
<1>8. Bound("Line", k, m + 1) = Bound("Line", k, m) + Len(text) + 2
  <2>1. /\ Bound("Line", k, m) \in Nat
        /\ Bound("Line", k, m + 1) = Bound("Line", k, m) + Len(Sent("Line", k, m + 1))
    BY <1>0, <1>1, Succession
  <2>2. PICK b \in Nat : b = Bound("Line", k, m)
    BY <2>1
  <2>3. Bound("Line", k, m + 1) = b + (l + 2)
    BY <1>5, <1>7, <2>1, <2>2, Zenon
  <2>4. Bound("Line", k, m + 1) = b + l + 2
    BY <2>3
  <2> QED
    BY <1>6, <2>2, <2>4, Zenon
<1>9. PICK p \in Nat : /\ n = Bound("Line", k, m) + p /\ p < l + 2 /\ S[n + 1] = q[p + 1]
  BY <1>1, <1>5, <1>7, Zenon
<1>10. \/ p < l /\ p + 1 \in 1..l
       \/ p = l /\ p + 1 = l + 1
       \/ p = l + 1 /\ p + 1 = l + 2
  BY <1>9
<1>11. \A j \in 1..l : text[j] \notin {CR, LF}
  <2>1. \A i \in DOMAIN r.text : r.text[i] \notin {CR, LF}
    BY <1>3, Zenon DEF IsOfItsKind
  <2>2. DOMAIN text = 1..l
    BY <1>3, <1>6
  <2> QED
    BY <1>3, <2>1, <2>2, Zenon
<1>12. \/ p < Len(text) /\ S[n + 1] = text[p + 1] /\ text[p + 1] \notin {CR, LF}
       \/ p = Len(text) /\ S[n + 1] = CR
       \/ p = Len(text) + 1 /\ S[n + 1] = LF
  BY <1>6, <1>7, <1>9, <1>10, <1>11, Zenon
<1> QED
  BY <1>1, <1>3, <1>8, <1>9, <1>12, Zenon DEF Onward

(* The place after a byte, in the same request.                            *)
LEMMA FurtherIn ==
  ASSUME NEW mode \in Modes, NEW k \in Connections, NEW n \in Nat, NEW m, Within(mode, k, m, n),
         m # Count(k), n + 1 < Bound(mode, k, m + 1)
  PROVE  Within(mode, k, m, n + 1)
<1>1. m \in 0..Count(k) /\ Bound(mode, k, m) =< n
  BY Zenon DEF Within
<1>2. Bound(mode, k, m) \in Nat
  <2>1. \A i \in 0..Count(k) : Bound(mode, k, i) \in Nat
    BY Laid
  <2> QED
    BY <1>1, <2>1
<1>3. Bound(mode, k, m) =< n + 1
  BY <1>1, <1>2
<1> QED
  BY <1>1, <1>3, Zenon DEF Within

(* And at its end.                                                         *)
LEMMA NextBegins ==
  ASSUME NEW mode \in Modes, NEW k \in Connections, NEW m \in 1..Count(k),
         NEW n, n = Bound(mode, k, m)
  PROVE  Within(mode, k, m, n)
<1>1. PICK N \in Nat : N = Count(k)
  BY ScriptType
<1>2. m \in 0..N /\ n \in Nat
  <2>1. \A i \in 0..Count(k) : Bound(mode, k, i) \in Nat
    BY Laid
  <2>2. m \in 0..N
    BY <1>1
  <2> QED
    BY <1>1, <2>1, <2>2, Zenon
<1>3. ASSUME m < N PROVE n < Bound(mode, k, m + 1)
  <2>1. m \in 0..Count(k) /\ m # Count(k)
    BY <1>1, <1>3
  <2> QED
    BY <2>1, Succession
<1>4. Bound(mode, k, m) =< n
  BY <1>2
<1> QED
  BY <1>1, <1>2, <1>3, <1>4, Zenon DEF Within

(* A byte more of a line.                                                  *)
LEMMA LineGoesOn ==
  ASSUME NEW c, c.mode = "Line", NEW k \in Connections, NEW S, S = Streams["Line"][k],
         NEW T, NEW before \in Seq(T), NEW n \in Nat, n < Len(S), NEW f,
         InLine(c, k, before, n, f), NEW h, h = FeedByte(f, S[n + 1])
  PROVE  InLine(c, k, before, n + 1, h)
<1>0. "Line" \in Modes
  BY DEF Modes
<1>1. /\ f \in Calls /\ f.session.config = c
      /\ \E m \in 0..Count(k) :
           /\ Reached(c, k, m, before, f.log)
           /\ IF f.returned THEN c.disconnectOnProtocolError /\ ~f.success
              ELSE Within("Line", k, m, n) /\ LineHere(k, m, n, f.session)
  BY Zenon DEF InLine
<1>2. CASE f.returned
  <2>1. h = f
    BY <1>2, Zenon DEF FeedByte
  <2> QED
    BY <1>1, <1>2, <2>1, Zenon DEF InLine
<1>3. CASE ~f.returned
  <2>1. PICK m \in 0..Count(k) : /\ Reached(c, k, m, before, f.log)
                                 /\ Within("Line", k, m, n) /\ LineHere(k, m, n, f.session)
    BY <1>1, <1>3, Zenon
  <2>2. PICK text : text = Script[k][m + 1].text
    OBVIOUS
  <2>3. Onward(k, S, m, n, text)
    BY <2>1, <2>2, LineAhead, Zenon
  <2>4. /\ m # Count(k) /\ m + 1 \in 1..Count(k) /\ text \in Seq(Nat)
        /\ Bound("Line", k, m + 1) = Bound("Line", k, m) + Len(text) + 2
        /\ \E p \in Nat :
             /\ n = Bound("Line", k, m) + p
             /\ \/ p < Len(text) /\ S[n + 1] = text[p + 1] /\ text[p + 1] \notin {CR, LF}
                \/ p = Len(text) /\ S[n + 1] = CR
                \/ p = Len(text) + 1 /\ S[n + 1] = LF
    BY <2>3, Zenon DEF Onward
  <2>5. PICK b \in Nat : b = Bound("Line", k, m)
    BY <1>0, <2>4, Succession
  <2>6. PICK p \in Nat :
          /\ n = b + p
          /\ \/ p < Len(text) /\ S[n + 1] = text[p + 1] /\ text[p + 1] \notin {CR, LF}
             \/ p = Len(text) /\ S[n + 1] = CR
             \/ p = Len(text) + 1 /\ S[n + 1] = LF
    BY <2>4, <2>5, Zenon
  <2>7. PICK l \in Nat : l = Len(text)
    BY <2>4
  <2>8. n - b = p /\ (n + 1) - b = p + 1
    BY <2>6
  <2>9. Bound("Line", k, m + 1) = b + l + 2
    BY <2>4, <2>5, <2>7, Zenon
  <2>10. LineAt(text, p, f.session)
    BY <2>1, <2>2, <2>4, <2>5, <2>8, Zenon DEF LineHere
  <2>11. ASSUME Quiet(f, h), ~h.returned, LineAt(text, p + 1, h.session), p =< l
         PROVE  InLine(c, k, before, n + 1, h)
    <3>1. h \in Calls /\ h.session.config = c /\ h.log = f.log
      BY <1>1, <2>11, Zenon DEF Quiet, Continues
    <3>2. LineHere(k, m, n + 1, h.session)
      <4>1. PICK d : d = (n + 1) - Bound("Line", k, m)
        OBVIOUS
      <4>2. d = p + 1
        BY <2>5, <2>8, <4>1, Zenon
      <4>3. LineAt(Script[k][m + 1].text, d, h.session)
        BY <2>2, <2>11, <4>2, Zenon
      <4> QED
        BY <2>4, <4>1, <4>3 DEF LineHere
    <3>3. n + 1 < Bound("Line", k, m + 1)
      <4>1. n = b + p /\ p =< l
        BY <2>6, <2>11, Zenon
      <4>2. n + 1 < b + l + 2
        BY <4>1
      <4> QED
        BY <2>9, <4>2, Zenon
    <3>4. Within("Line", k, m, n + 1)
      BY <1>0, <2>1, <2>4, <3>3, FurtherIn
    <3> QED
      BY <2>1, <2>11, <3>1, <3>2, <3>4, Zenon DEF InLine
  <2>12. CASE p < Len(text) /\ S[n + 1] = text[p + 1] /\ text[p + 1] \notin {CR, LF}
    <3>1. Quiet(f, h) /\ ~h.returned /\ LineAt(text, p + 1, h.session)
      BY <1>1, <1>3, <2>4, <2>10, <2>12, TextRead
    <3>2. p =< l
      BY <2>7, <2>12
    <3> QED
      BY <2>11, <3>1, <3>2, Zenon
  <2>13. CASE p = Len(text) /\ S[n + 1] = CR
    <3>1. h = FeedByte(f, CR)
      BY <2>13, Zenon
    <3>2. h = f /\ LineAt(text, p + 1, h.session)
      BY <1>1, <2>4, <2>10, <2>13, <3>1, ReturnRead
    <3>3. Quiet(f, f)
      BY <1>1, QuietSelf
    <3>4. p =< l
      BY <2>7, <2>13
    <3> QED
      BY <1>3, <2>11, <3>2, <3>3, <3>4, Zenon
  <2>14. CASE p = Len(text) + 1 /\ S[n + 1] = LF
    <3>1. h = FeedByte(f, LF)
      BY <2>14, Zenon
    <3>2. PICK i \in 1..Count(k) : i = m + 1
      BY <2>4
    <3>3. /\ Ended(c, k, i, f, h)
          /\ IF h.returned THEN c.disconnectOnProtocolError /\ ~h.success ELSE Fresh(h.session)
      BY <1>1, <1>3, <2>2, <2>10, <2>14, <3>1, <3>2, EndRead
    <3>4. /\ h \in Calls /\ h.session.config = c
          /\ IF Fate(c, k, i) = "ignored" THEN h.log = f.log
             ELSE \E e \in Entry : Does(c, e, k, i) /\ h.log = Append(f.log, e)
      BY <3>3, Zenon DEF Ended
    <3>5. i - 1 = m
      BY <2>1, <3>2, ScriptType
    <3>6. Reached(c, k, i - 1, before, f.log)
      BY <2>1, <3>5, Zenon
    <3>7. Reached(c, k, i, before, h.log)
      <4>1. CASE Fate(c, k, i) = "ignored"
        BY <3>4, <3>6, <4>1, Ignored, Zenon
      <4>2. CASE Fate(c, k, i) # "ignored"
        <5>1. PICK e \in Entry : Does(c, e, k, i) /\ h.log = Append(f.log, e)
          BY <3>4, <4>2, Zenon
        <5>2. f.log \in Seq(Entry)
          BY <1>1, CallFields
        <5>3. Reached(c, k, i, before, Append(f.log, e))
          BY <3>6, <4>2, <5>1, <5>2, Advanced, Zenon
        <5> QED
          BY <5>1, <5>3, Zenon
      <4> QED
        BY <4>1, <4>2
    <3>8. n + 1 = Bound("Line", k, i)
      <4>1. p = l + 1
        BY <2>7, <2>14, Zenon
      <4>2. n + 1 = b + l + 2
        BY <2>6, <4>1
      <4> QED
        BY <2>9, <3>2, <4>2, Zenon
    <3>9. Within("Line", k, i, n + 1)
      BY <1>0, <3>8, NextBegins
    <3>10. ASSUME ~h.returned PROVE LineHere(k, i, n + 1, h.session)
      <4>1. Fresh(h.session)
        BY <3>3, <3>10, Zenon
      <4>2. ASSUME i # Count(k) PROVE LineAt(Script[k][i + 1].text, 0, h.session)
        <5>1. i + 1 \in 1..Count(k)
          BY <4>2, ScriptType
        <5>2. Script[k][i + 1].text \in Seq(Nat)
          BY <5>1, ScriptType, Zenon
        <5> QED
          BY <4>1, <5>2, LineBegins
      <4>3. PICK d : d = (n + 1) - Bound("Line", k, i)
        OBVIOUS
      <4>4. d = 0
        BY <2>6, <3>8, <4>3
      <4>5. i # Count(k) => LineAt(Script[k][i + 1].text, d, h.session)
        BY <4>2, <4>4, Zenon
      <4> QED
        BY <4>1, <4>3, <4>5 DEF LineHere
    <3>11. i \in 0..Count(k)
      BY <3>2, ScriptType
    <3> QED
      BY <3>3, <3>4, <3>7, <3>9, <3>10, <3>11, Zenon DEF InLine
  <2> QED
    BY <2>6, <2>12, <2>13, <2>14, Zenon
<1> QED
  BY <1>2, <1>3

(* A read in line mode.                                                    *)
LEMMA LinesInOrder ==
  ASSUME NEW c, c.mode = "Line", NEW k \in Connections, NEW S, S = Streams["Line"][k],
         NEW T, NEW before \in Seq(T), NEW n \in Nat, NEW data \in Seq(Nat),
         n + Len(data) =< Len(S), \A j \in 1..Len(data) : data[j] = S[n + j],
         NEW f, InLine(c, k, before, n, f)
  PROVE  InLine(c, k, before, n + Len(data), FeedLine(f, data))
<1>1. PICK N \in Nat : N = Len(data)
  OBVIOUS
<1>2. PICK l \in Nat : l = Len(S)
  <2>1. "Line" \in Modes
    BY DEF Modes
  <2>2. S \in Seq(Nat)
    BY <2>1, Laid
  <2> QED
    BY <2>2
<1>3. f \in Calls
  BY Zenon DEF InLine
<1>4. MaximumRequestBytes \in Nat
  BY Bounds
<1>5. PICK after : LineRun(f, data, after)
  BY <1>3, <1>4, LineTurns, Zenon
<1>6. /\ after[0] = f /\ \A i \in 1..N : after[i] = FeedByte(after[i - 1], data[i])
      /\ FeedLine(f, data) = after[N]
  BY <1>1, <1>5, Zenon DEF LineRun
<1> DEFINE P == {i \in 0..N : InLine(c, k, before, n + i, after[i])}
<1>7. 0 \in P
  <2>1. n + 0 = n
    OBVIOUS
  <2>2. InLine(c, k, before, n + 0, after[0])
    BY <1>6, <2>1, Zenon
  <2> QED
    BY <2>2
<1>8. ASSUME NEW i \in 1..N, i - 1 \in P PROVE i \in P
  <2>1. i \in 0..N /\ InLine(c, k, before, n + (i - 1), after[i - 1])
    BY <1>8
  <2>2. PICK o \in Nat : o = n + (i - 1)
    BY <1>1
  <2>3. o + 1 = n + i /\ o < l
    <3>1. n + N =< l
      BY <1>1, <1>2, Zenon
    <3> QED
      BY <2>2, <3>1
  <2>4. data[i] = S[o + 1]
    BY <1>1, <2>3, Zenon
  <2>5. PICK g : g = after[i - 1]
    OBVIOUS
  <2>6. InLine(c, k, before, o, g)
    BY <2>1, <2>2, <2>5, Zenon
  <2>7. after[i] = FeedByte(g, S[o + 1])
    BY <1>6, <2>4, <2>5, Zenon
  <2>8. o < Len(S)
    BY <1>2, <2>3, Zenon
  <2>9. InLine(c, k, before, o + 1, after[i])
    BY <2>6, <2>7, <2>8, LineGoesOn, Zenon
  <2>10. InLine(c, k, before, n + i, after[i])
    BY <2>3, <2>9, Zenon
  <2> QED
    BY <2>1, <2>10
<1> HIDE DEF P
<1>9. \A i \in 0..N : i \in P
  BY <1>7, <1>8, TurnInduction
<1>10. N \in P
  BY <1>9
<1>11. InLine(c, k, before, n + N, after[N])
  BY <1>10 DEF P
<1> QED
  BY <1>1, <1>6, <1>11, Zenon

-----------------------------------------------------------------------------
(* The frames of a connection.                                             *)

\* q is what follows the first a bytes of S, up to the first n.
Held(q, S, a, n) ==
  /\ q \in Seq(Nat) /\ a =< n /\ Len(q) = n - a
  /\ \A i \in 1..(n - a) : q[i] = S[a + i]

(* Without its first bytes, it is what follows these.                      *)
LEMMA HeldTail ==
  ASSUME NEW S, NEW a \in Nat, NEW n \in Nat, NEW q, Held(q, S, a, n), NEW d \in Nat, d =< Len(q)
  PROVE  Held(SubSeq(q, d + 1, Len(q)), S, a + d, n)
<1>1. PICK l \in Nat : l = Len(q)
  BY DEF Held
<1>2. q \in Seq(Nat) /\ a =< n /\ l = n - a /\ \A i \in 1..(n - a) : q[i] = S[a + i]
  BY <1>1, Zenon DEF Held
<1>3. d \in 0..Len(q)
  BY <1>1
<1>4. PICK t : t = From(q, d)
  OBVIOUS
<1>5. /\ t \in Seq(Nat) /\ Len(t) = Len(q) - d
      /\ \A i \in 1..(Len(q) - d) : t[i] = q[d + i]
  <2>1. /\ From(q, d) \in Seq(Nat) /\ Len(From(q, d)) = Len(q) - d
        /\ \A i \in 1..(Len(q) - d) : From(q, d)[i] = q[d + i]
    BY <1>2, <1>3, Following
  <2> QED
    BY <1>4, <2>1, Zenon
<1>6. d =< l /\ a + d =< n /\ l - d = n - (a + d)
  BY <1>1, <1>2
<1>7. ASSUME NEW i \in 1..(n - (a + d)) PROVE t[i] = S[(a + d) + i]
  <2>1. i \in 1..(l - d) /\ d + i \in 1..(n - a) /\ a + (d + i) = (a + d) + i
    BY <1>2, <1>6
  <2>2. t[i] = q[d + i]
    BY <1>1, <1>5, <2>1, Zenon
  <2>3. q[d + i] = S[a + (d + i)]
    BY <1>2, <2>1, Zenon
  <2> QED
    BY <2>1, <2>2, <2>3, Zenon
<1>8. Len(t) = n - (a + d)
  BY <1>1, <1>5, <1>6, Zenon
<1>9. Held(t, S, a + d, n)
  BY <1>5, <1>6, <1>7, <1>8, Zenon DEF Held
<1> QED
  BY <1>4, <1>9, Zenon DEF From

\* w follows the first a bytes of S.
Follows(w, S, a) == \A j \in 1..Len(w) : S[a + j] = w[j]

(* What is in S there is in front.                                         *)
LEMMA HeldFront ==
  ASSUME NEW S \in Seq(Nat), NEW a \in Nat, NEW n \in Nat, NEW q, Held(q, S, a, n),
         NEW w \in Seq(Nat), Follows(w, S, a), Len(w) =< Len(q)
  PROVE  SubSeq(q, 1, Len(w)) = w
<1>1. PICK l \in Nat : l = Len(w)
  OBVIOUS
<1>2. q \in Seq(Nat) /\ Len(q) = n - a /\ \A i \in 1..(n - a) : q[i] = S[a + i]
  BY Zenon DEF Held
<1>3. PICK z \in Nat : z = Len(q)
  BY <1>2
<1>4. \A j \in 1..l : q[0 + j] = w[j]
  <2> TAKE j \in 1..l
  <2>1. j \in 1..z /\ 0 + j = j
    BY <1>1, <1>3
  <2>2. q[j] = S[a + j]
    BY <1>2, <1>3, <2>1, Zenon
  <2> QED
    BY <1>1, <2>1, <2>2, Zenon DEF Follows
<1>5. 0 + Len(w) =< Len(q) /\ 0 + Len(w) = Len(w) /\ 0 + 1 = 1 /\ 0 \in Nat
  BY <1>1, <1>3
<1>6. At(q, 0, w)
  BY <1>1, <1>4, <1>5, Zenon DEF At
<1>7. SubSeq(q, 0 + 1, 0 + Len(w)) = w
  BY <1>2, <1>5, <1>6, CutAt, Zenon
<1> QED
  BY <1>5, <1>7, Zenon

(* With what follows, it is longer.                                        *)
LEMMA HeldOn ==
  ASSUME NEW S, NEW a \in Nat, NEW n \in Nat, NEW q, Held(q, S, a, n),
         NEW data \in Seq(Nat), \A j \in 1..Len(data) : data[j] = S[n + j]
  PROVE  Held(q \o data, S, a, n + Len(data))
<1>1. PICK l \in Nat : l = Len(data)
  OBVIOUS
<1>2. q \in Seq(Nat) /\ a =< n /\ Len(q) = n - a /\ \A i \in 1..(n - a) : q[i] = S[a + i]
  BY Zenon DEF Held
<1>3. PICK z \in Nat : z = Len(q)
  BY <1>2
<1>4. PICK t : t = q \o data
  OBVIOUS
<1>5. /\ t \in Seq(Nat) /\ Len(t) = z + l
      /\ \A i \in 1..(z + l) : t[i] = IF i <= z THEN q[i] ELSE data[i - z]
  <2>1. /\ q \o data \in Seq(Nat) /\ Len(q \o data) = Len(q) + Len(data)
        /\ \A i \in 1..(Len(q) + Len(data)) :
             (q \o data)[i] = IF i <= Len(q) THEN q[i] ELSE data[i - Len(q)]
    BY <1>2, Joined, Zenon
  <2> QED
    BY <1>1, <1>3, <1>4, <2>1, Zenon
<1>6. z = n - a /\ a =< n + l /\ z + l = (n + l) - a
  <2>1. z = n - a
    BY <1>2, <1>3, Zenon
  <2>2. a =< n
    BY <1>2
  <2> QED
    BY <2>1, <2>2
<1>7. ASSUME NEW i \in 1..((n + l) - a) PROVE t[i] = S[a + i]
  <2>0. i \in 1..(z + l)
    BY <1>6, Zenon
  <2>1. CASE i <= z
    <3>1. i \in 1..(n - a)
      BY <1>6, <2>0, <2>1
    <3> QED
      BY <1>2, <1>5, <2>0, <2>1, <3>1, Zenon
  <2>2. CASE ~(i <= z)
    <3>1. i - z \in 1..l /\ n + (i - z) = a + i
      BY <1>6, <2>0, <2>2
    <3>2. data[i - z] = S[n + (i - z)]
      BY <1>1, <3>1, Zenon
    <3> QED
      BY <1>5, <2>0, <2>2, <3>1, <3>2, Zenon
  <2> QED
    BY <2>1, <2>2
<1>8. Held(t, S, a, n + l)
  BY <1>5, <1>6, <1>7, Zenon DEF Held
<1> QED
  BY <1>1, <1>4, <1>8, Zenon

\* What a session holds of the frames when it has read n bytes, m requests in:
\* nothing of the next but bytes, or its length and bytes of its payload.
FrameHere(k, S, m, n, s) ==
  LET b == Bound("StructuredBinary", k, m)
  IN  IF s.expectedStructuredBytes = 0 THEN Held(s.structured, S, b, n)
      ELSE /\ m # Count(k)
           /\ s.expectedStructuredBytes = Len(Script[k][m + 1].payload)
           /\ s.expectedStructuredBytes =< MaximumRequestBytes
           /\ Held(s.structured, S, b + 2, n)

\* A call at a turn with the frames in n bytes.
InFrames(c, k, S, before, n, f) ==
  /\ f \in Calls /\ f.session.config = c
  /\ \E m \in 0..Count(k) :
       /\ Reached(c, k, m, before, f.log)
       /\ IF f.returned THEN c.disconnectOnProtocolError => ~f.success
          ELSE FrameHere(k, S, m, n, f.session)

\* The frame after m.
FrameAfter(k, S, m, r, b, l) ==
  /\ m + 1 \in 1..Count(k) /\ r = Script[k][m + 1]
  /\ r.kind \in {"command", "malformed", "oversize", "blank"}
  /\ r.payload \in Seq(Nat) /\ IsOfItsKind(r)
  /\ l \in Nat /\ l = Len(r.payload)
  /\ b \in Nat /\ b = Bound("StructuredBinary", k, m)
  /\ Bound("StructuredBinary", k, m + 1) = b + l + 2 /\ b + l + 2 =< Len(S)
  /\ S[b + 1] = l \div 256 /\ S[b + 2] = l % 256
  /\ \A j \in 1..l : S[(b + 2) + j] = r.payload[j]

(* It is laid out in the stream.                                           *)
LEMMA FrameAhead ==
  ASSUME NEW k \in Connections, NEW S, S = Streams["StructuredBinary"][k],
         NEW m \in 0..Count(k), m # Count(k)
  PROVE  \E r : \E b \in Nat, l \in Nat : FrameAfter(k, S, m, r, b, l)
<1>0. "StructuredBinary" \in Modes
  BY DEF Modes
<1> DEFINE mode == "StructuredBinary"
<1>1. /\ m + 1 \in 1..Count(k) /\ m + 1 \in 0..Count(k)
      /\ Bound(mode, k, m) \in Nat /\ Bound(mode, k, m + 1) \in Nat
      /\ Sent(mode, k, m + 1) \in Seq(Nat)
      /\ Bound(mode, k, m + 1) = Bound(mode, k, m) + Len(Sent(mode, k, m + 1))
      /\ Bound(mode, k, m) < Bound(mode, k, m + 1)
      /\ At(S, Bound(mode, k, m), Sent(mode, k, m + 1))
  BY <1>0, Succession
<1>2. PICK r : r = Script[k][m + 1]
  OBVIOUS
<1>3. /\ r.kind \in {"command", "malformed", "oversize", "blank"}
      /\ r.text \in Seq(Nat) /\ r.payload \in Seq(Nat) /\ IsOfItsKind(r)
  BY <1>1, <1>2, ScriptType, Zenon
<1>4. PICK l \in Nat : l = Len(r.payload)
  BY <1>3
<1>5. PICK b \in Nat : b = Bound(mode, k, m)
  BY <1>1
<1>6. PICK q : q = Sent(mode, k, m + 1)
  OBVIOUS
<1>7. IsFrame(q, r.payload)
  <2>1. IsFrame(SentBytes("StructuredBinary", r), r.payload)
    BY <1>3, SentType, Zenon
  <2> QED
    BY <1>2, <1>6, <2>1, Zenon DEF Sent
<1>8. /\ Len(q) = l + 2 /\ q[1] = l \div 256 /\ q[2] = l % 256
      /\ \A j \in 1..l : q[2 + j] = r.payload[j]
  BY <1>4, <1>7, Zenon DEF IsFrame
<1>9. Bound(mode, k, m + 1) = b + l + 2
  <2>1. Bound(mode, k, m + 1) = b + (l + 2)
    BY <1>1, <1>5, <1>6, <1>8, Zenon
  <2>2. b + (l + 2) = b + l + 2
    OBVIOUS
  <2> QED
    BY <2>1, <2>2, Zenon
<1>10. b + Len(q) =< Len(S) /\ \A j \in 1..Len(q) : S[b + j] = q[j]
  BY <1>1, <1>5, <1>6, Zenon DEF At
<1>11. b + l + 2 =< Len(S)
  <2>1. b + (l + 2) =< Len(S) /\ b + (l + 2) = b + l + 2
    BY <1>8, <1>10
  <2> QED
    BY <2>1, Zenon
<1>12. 1 \in 1..(l + 2) /\ 2 \in 1..(l + 2)
  OBVIOUS
<1>13. S[b + 1] = l \div 256 /\ S[b + 2] = l % 256
  BY <1>8, <1>10, <1>12, Zenon
<1>14. ASSUME NEW j \in 1..l PROVE S[(b + 2) + j] = r.payload[j]
  <2>1. PICK i : i = 2 + j
    OBVIOUS
  <2>2. i \in 1..(l + 2) /\ b + i = (b + 2) + j
    BY <2>1
  <2>3. S[b + i] = q[i]
    BY <1>8, <1>10, <2>2, Zenon
  <2>4. q[i] = r.payload[j]
    BY <1>8, <2>1, Zenon
  <2> QED
    BY <2>2, <2>3, <2>4, Zenon
<1>15. FrameAfter(k, S, m, r, b, l)
  BY <1>1, <1>2, <1>3, <1>4, <1>5, <1>9, <1>11, <1>13, <1>14, Zenon DEF FrameAfter
<1> QED
  BY <1>15, Zenon

\* What a call logs of a payload, decoded as the context.
Settles(e, context) ==
  IF context = Invalid THEN e.did = "refused"
  ELSE e.did \in {"executed", "denied"} /\ e.context = context

Decides(f, context, h) ==
  /\ h \in Calls /\ h.session.config = f.session.config /\ h.returned = f.returned
  /\ SameFrames(f.session, h.session)
  /\ \E e \in Entry : Settles(e, context) /\ h.log = Append(f.log, e)

\* And of a length of no request.
RefusesLength(f, h) ==
  /\ h \in Calls /\ h.session.config = f.session.config /\ h.returned
  /\ f.session.config.disconnectOnProtocolError => ~h.success
  /\ \E e \in Entry : e.did = "refused" /\ h.log = Append(f.log, e)

(* What is no request is logged as refused.                                *)
LEMMA ErrorLogged ==
  ASSUME NEW f \in Calls, NEW result \in Result, NEW h,
         h = EmitStructuredError(Log(f, "refused", Null, result), result)
  PROVE  Logs(f, "refused", Null, h)
<1>1. "refused" \in Deeds /\ Null \in Contexts
  BY DEF Deeds, Contexts
<1>2. PICK answer : answer = EncodeResponse(Response(0, result))
  OBVIOUS
<1>3. answer \in Encodings
  BY <1>2, ResponseEncoded
<1>4. h = Write(Log(f, "refused", Null, result), answer)
  BY <1>2, Zenon DEF EmitStructuredError
<1> QED
  BY <1>1, <1>3, <1>4, EntryLogged, Zenon

(* A payload is logged as what it is decoded as.                           *)
LEMMA FrameLogged ==
  ASSUME NEW f \in Calls, NEW payload \in Seq(Nat), NEW context, context = DecodeRequest[payload],
         NEW h, h = HandleStructuredFrame(f, payload)
  PROVE  Decides(f, context, h)
<1>2. PICK g : g = Set(f, "requestID", context.id)
  OBVIOUS
<1>3. PICK done : done = Execute(g, context)
  OBVIOUS
<1>4. h = IF context = Invalid THEN EmitStructuredError(Log(f, "refused", Null, Malformed), Malformed)
          ELSE Write(done, EncodeResponse(Response(context.id, Last(done.log).result)))
  BY <1>2, <1>3, Zenon DEF HandleStructuredFrame, HandleDecoded
<1>6. CASE context = Invalid
  <2>1. h = EmitStructuredError(Log(f, "refused", Null, Malformed), Malformed)
    BY <1>4, <1>6, Zenon
  <2>2. Malformed \in Result
    BY Errors
  <2>3. Logs(f, "refused", Null, h)
    BY <2>1, <2>2, ErrorLogged, Zenon
  <2> QED
    BY <1>6, <2>3, Zenon DEF Logs, Decides, Settles, SameFrames
<1>7. CASE context # Invalid
  <2>1. context \in Context
    BY <1>7, RequestDecoded
  <2>2. context.id \in Nat /\ context \in Contexts
    BY <2>1 DEF Context, Contexts
  <2>3. PICK id \in Nat : id = context.id
    BY <2>2
  <2>4. g = Set(f, "requestID", id)
    BY <1>2, <2>3, Zenon
  <2>5. /\ Quiet(f, g) /\ g.returned = f.returned
        /\ g.session.structured = f.session.structured
        /\ g.session.expectedStructuredBytes = f.session.expectedStructuredBytes
    BY <2>4, NumberSet
  <2>6. g \in Calls
    BY <2>5, Zenon DEF Quiet, Continues
  <2>7. PICK did \in {"denied", "executed"}, result \in Result : done = Log(g, did, context, result)
    BY <1>3, <2>1, <2>6, Executed, Zenon
  <2>8. did \in Deeds /\ did \in {"refused", "denied", "executed"} /\ did \in {"executed", "denied"}
        /\ context \in Context \cup {Null}
    BY <2>1 DEF Deeds
  <2>9. Last(done.log).result = result
    <3>1. Last(Log(g, did, context, result).log).result = result
      BY <2>6, <2>8, LoggedLast
    <3> QED
      BY <2>7, <3>1, Zenon
  <2>10. PICK answer : answer = EncodeResponse(Response(id, result))
    OBVIOUS
  <2>11. answer \in Encodings
    BY <2>10, ResponseEncoded
  <2>12. h = Write(Log(g, did, context, result), answer)
    BY <1>4, <1>7, <2>3, <2>7, <2>9, <2>10, Zenon
  <2>13. Logs(g, did, context, h)
    BY <2>2, <2>6, <2>8, <2>11, <2>12, EntryLogged, Zenon
  <2>14. /\ h \in Calls /\ h.session = g.session /\ h.returned = g.returned
         /\ \E e \in Entry : Settles(e, context) /\ h.log = Append(g.log, e)
    BY <1>7, <2>8, <2>13, Zenon DEF Logs, Settles
  <2> QED
    BY <2>5, <2>14, Zenon DEF Decides, SameFrames, Quiet, Continues
<1> QED
  BY <1>6, <1>7, Zenon

(* A length of no request is logged as refused, and ends the call.         *)
LEMMA LengthLogged ==
  ASSUME NEW f \in Calls, NEW h, h = RefuseLength(f)
  PROVE  RefusesLength(f, h)
<1>1. PICK dropped : dropped = Set(Set(f, "structured", <<>>), "expectedStructuredBytes", 0)
  OBVIOUS
<1>2. Quiet(f, dropped)
  BY <1>1, Dropped
<1>3. dropped \in Calls /\ dropped.log = f.log /\ dropped.session.config = f.session.config
  BY <1>2, Zenon DEF Quiet, Continues
<1>4. PICK refused : refused = EmitStructuredError(Log(dropped, "refused", Null, TooLong), TooLong)
  OBVIOUS
<1>5. Logs(dropped, "refused", Null, refused)
  <2>1. TooLong \in Result
    BY Errors
  <2> QED
    BY <1>3, <1>4, <2>1, ErrorLogged, Zenon
<1>6. /\ refused \in Calls /\ refused.session = dropped.session
      /\ \E e \in Entry : e.did = "refused" /\ refused.log = Append(f.log, e)
  BY <1>3, <1>5, Zenon DEF Logs
<1>7. PICK b \in BOOLEAN : b = (refused.wrote /\ ~f.session.config.disconnectOnProtocolError)
  OBVIOUS
<1>8. h = Return(refused, b)
  BY <1>1, <1>4, <1>7, Zenon DEF RefuseLength
<1>9. Quiet(refused, h) /\ h.session = refused.session /\ h.returned = TRUE
  <2>1. refused \in Calls
    BY <1>6
  <2>2. /\ Quiet(refused, Return(refused, b)) /\ Return(refused, b).session = refused.session
        /\ Return(refused, b).returned = TRUE
    BY <2>1, Concluded
  <2> QED
    BY <1>8, <2>2, Zenon
<1>10. h.success = b
  <2>1. refused \in Calls
    BY <1>6
  <2> QED
    BY <1>8, <2>1 DEF Return, Calls
<1>11. h \in Calls /\ h.log = refused.log /\ h.session.config = f.session.config
  BY <1>3, <1>6, <1>9, Zenon DEF Quiet, Continues
<1> QED
  BY <1>6, <1>7, <1>9, <1>10, <1>11, Zenon DEF RefusesLength

(* What comes of a frame is what should.                                   *)
LEMMA FrameFate ==
  ASSUME NEW c, c.mode = "StructuredBinary", NEW k \in Connections, NEW S, NEW m, NEW r, NEW b, NEW l,
         FrameAfter(k, S, m, r, b, l), NEW i, i = m + 1
  PROVE  /\ Fate(c, k, i) # "ignored"
         /\ l = 0 \/ l > MaximumRequestBytes => \A e : e.did = "refused" => Does(c, e, k, i)
         /\ l # 0 /\ l =< MaximumRequestBytes =>
              \A e : Settles(e, DecodeRequest[r.payload]) => Does(c, e, k, i)
<1>1. /\ r = Script[k][i] /\ r.kind \in {"command", "malformed", "oversize", "blank"}
      /\ r.payload \in Seq(Nat) /\ IsOfItsKind(r) /\ l \in Nat /\ l = Len(r.payload)
  BY Zenon DEF FrameAfter
<1>2. MaximumRequestBytes \in Nat
  BY Bounds
<1>3. /\ "run" # "ignored" /\ "refused" # "ignored" /\ "run" # "refused"
      /\ "StructuredBinary" # "Line" /\ "command" # "oversize"
  OBVIOUS
<1>4. r.kind # "oversize" <=> l =< MaximumRequestBytes
  <2>1. /\ r.kind = "oversize" => l > MaximumRequestBytes
        /\ r.kind # "oversize" => l =< MaximumRequestBytes
    BY <1>1, Zenon DEF IsOfItsKind
  <2> QED
    BY <1>1, <1>2, <2>1
<1>5. r.kind = "command" =>
        /\ r.request \in Request /\ r.request.path # <<>> /\ IsMap(r.request.named)
        /\ r.payload = EncodeRequest(r.request)
  BY <1>1, Zenon DEF IsOfItsKind
<1>6. r.payload # <<>> <=> l # 0
  BY <1>1
<1>7. Fate(c, k, i) = IF r.kind = "command" THEN "run" ELSE "refused"
  BY <1>1, <1>3, Zenon DEF Fate
<1>8. r.kind # "command" => \A e : e.did = "refused" => Does(c, e, k, i)
  BY <1>7, Zenon DEF Does
<1>9. ASSUME r.kind = "command"
      PROVE  /\ l # 0 /\ l =< MaximumRequestBytes
             /\ DecodeRequest[r.payload] = AsDecoded(r.request)
             /\ DecodeRequest[r.payload] # Invalid
  <2>1. l =< MaximumRequestBytes
    BY <1>3, <1>4, <1>9, Zenon
  <2>2. PICK q \in Request : q = r.request
    BY <1>5, <1>9
  <2>3. q.path # <<>> /\ IsMap(q.named) /\ r.payload = EncodeRequest(q) /\ EncodeRequest(q) \in Seq(Nat)
    BY <1>1, <1>5, <1>9, <2>2, Zenon
  <2>4. DecodeRequest[EncodeRequest(q)] = AsDecoded(q) /\ EncodeRequest(q) # <<>>
    BY <2>3, RequestTravels
  <2>5. AsDecoded(q) # Invalid
    BY DecodedType
  <2> QED
    BY <1>6, <2>1, <2>2, <2>3, <2>4, <2>5, Zenon
<1>10. l = 0 \/ l > MaximumRequestBytes => \A e : e.did = "refused" => Does(c, e, k, i)
  <2>1. l > MaximumRequestBytes => ~(l =< MaximumRequestBytes)
    BY <1>1, <1>2
  <2> QED
    BY <1>8, <1>9, <2>1, Zenon
<1>11. ASSUME l # 0, l =< MaximumRequestBytes, NEW e, Settles(e, DecodeRequest[r.payload])
       PROVE  Does(c, e, k, i)
  <2>1. CASE r.kind = "command"
    <3>1. e.did \in {"executed", "denied"} /\ e.context = AsDecoded(r.request)
      BY <1>9, <1>11, <2>1, Zenon DEF Settles
    <3> QED
      BY <1>1, <1>3, <1>7, <2>1, <3>1, Zenon DEF Does
  <2>2. CASE r.kind # "command"
    <3>1. r.kind = "malformed"
      <4>1. r.kind # "oversize"
        BY <1>4, <1>11
      <4>2. r.kind # "blank"
        BY <1>1, <1>6, <1>11, Zenon DEF IsOfItsKind
      <4> QED
        BY <1>1, <2>2, <4>1, <4>2
    <3>2. DecodeRequest[r.payload] = Invalid
      BY <1>1, <3>1, Zenon DEF IsOfItsKind
    <3>3. e.did = "refused"
      BY <1>11, <3>2, Zenon DEF Settles
    <3> QED
      BY <1>8, <2>2, <3>3, Zenon
  <2> QED
    BY <2>1, <2>2
<1>12. Fate(c, k, i) # "ignored"
  BY <1>3, <1>7, Zenon
<1> QED
  BY <1>10, <1>11, <1>12, Zenon

(* The entry of the request after m is one more.                           *)
LEMMA OneMore ==
  ASSUME NEW c, NEW k \in Connections, NEW T, NEW before \in Seq(T), NEW f \in Calls,
         NEW m \in 0..Count(k), NEW i \in 1..Count(k), i = m + 1,
         Reached(c, k, m, before, f.log), Fate(c, k, i) # "ignored",
         NEW h, \E e \in Entry : Does(c, e, k, i) /\ h.log = Append(f.log, e)
  PROVE  Reached(c, k, i, before, h.log)
<1>1. i - 1 = m
  BY ScriptType
<1>2. Reached(c, k, i - 1, before, f.log)
  BY <1>1, Zenon
<1>3. PICK e \in Entry : Does(c, e, k, i) /\ h.log = Append(f.log, e)
  OBVIOUS
<1>4. f.log \in Seq(Entry)
  BY CallFields
<1>5. Reached(c, k, i, before, Append(f.log, e))
  BY <1>2, <1>3, <1>4, Advanced, Zenon
<1> QED
  BY <1>3, <1>5, Zenon

(* A turn with the frames, when a length is read.                          *)
LEMMA LengthRead ==
  ASSUME NEW c, c.mode = "StructuredBinary", NEW k \in Connections,
         NEW S, S = Streams["StructuredBinary"][k], NEW T, NEW before \in Seq(T),
         NEW n \in Nat, n =< Len(S), NEW f \in Calls, f.session.config = c, ~f.returned,
         NEW m \in 0..Count(k), Reached(c, k, m, before, f.log),
         FrameHere(k, S, m, n, f.session), f.session.expectedStructuredBytes = 0,
         ~(Len(f.session.structured) < HeaderBytes), NEW h, h = FeedFrame(f)
  PROVE  InFrames(c, k, S, before, n, h)
<1>1. "StructuredBinary" \in Modes
  BY DEF Modes
<1>2. PICK s : s = f.session
  OBVIOUS
<1>3. PICK q : q = s.structured
  OBVIOUS
<1>4. PICK b \in Nat : b = Bound("StructuredBinary", k, m)
  <2>1. \A i \in 0..Count(k) : Bound("StructuredBinary", k, i) \in Nat
    BY <1>1, Laid
  <2> QED
    BY <2>1
<1>5. Held(q, S, b, n)
  BY <1>2, <1>3, <1>4, Zenon DEF FrameHere
<1>6. q \in Seq(Nat) /\ b =< n /\ Len(q) = n - b /\ \A i \in 1..(n - b) : q[i] = S[b + i]
  BY <1>5, Zenon DEF Held
<1>7. PICK z \in Nat : z = Len(q)
  BY <1>6
<1>8. z = n - b /\ ~(z < 2) /\ 1 \in 1..(n - b) /\ 2 \in 1..(n - b)
  <2>1. ~(z < 2)
    BY <1>2, <1>3, <1>7, Zenon DEF HeaderBytes
  <2>2. z = n - b
    BY <1>6, <1>7, Zenon
  <2> QED
    BY <1>6, <2>1, <2>2
<1>9. m # Count(k)
  <2>1. S \in Seq(Nat) /\ Bound("StructuredBinary", k, Count(k)) = Len(S)
    BY <1>1, Laid
  <2>2. PICK w \in Nat : w = Len(S)
    BY <2>1
  <2> SUFFICES ASSUME m = Count(k) PROVE FALSE
    OBVIOUS
  <2>3. b = w
    BY <1>4, <2>1, <2>2, Zenon
  <2>4. n =< w
    BY <2>2
  <2> QED
    BY <1>8, <2>3, <2>4
<1>10. PICK r : \E x \in Nat, l \in Nat : FrameAfter(k, S, m, r, x, l)
  BY <1>9, FrameAhead, Zenon
<1>11. PICK b0 \in Nat, l \in Nat : FrameAfter(k, S, m, r, b0, l)
  BY <1>10
<1>12. /\ r = Script[k][m + 1] /\ m + 1 \in 1..Count(k)
       /\ l \in Nat /\ l = Len(r.payload)
       /\ S[b + 1] = l \div 256 /\ S[b + 2] = l % 256
  BY <1>4, <1>11, Zenon DEF FrameAfter
<1>13. PICK i \in 1..Count(k) : i = m + 1
  BY <1>12
<1>14. /\ Fate(c, k, i) # "ignored"
       /\ l = 0 \/ l > MaximumRequestBytes => \A e : e.did = "refused" => Does(c, e, k, i)
  BY <1>11, <1>13, FrameFate
<1>15. ReadFrameLength(q) = l
  <2>1. q[1] = l \div 256 /\ q[2] = l % 256
    <3>1. S[b + 1] = l \div 256 /\ S[b + 2] = l % 256
      BY <1>12
    <3>2. \A j \in 1..(n - b) : q[j] = S[b + j]
      BY <1>6
    <3>3. q[1] = S[b + 1] /\ q[2] = S[b + 2]
      BY <1>8, <3>2, Zenon
    <3> QED
      BY <3>1, <3>3
  <2>2. PICK x \in Nat : x = l \div 256
    OBVIOUS
  <2>3. PICK y \in Nat : y = l % 256
    OBVIOUS
  <2>4. 256 * x + y = l
    BY <2>2, <2>3
  <2>5. q[1] = x /\ q[2] = y
    BY <2>1, <2>2, <2>3, Zenon
  <2> QED
    BY <2>4, <2>5, Zenon DEF ReadFrameLength
<1>16. h = IF l = 0 \/ l > MaximumRequestBytes THEN RefuseLength(f)
           ELSE Set(Take(f, HeaderBytes), "expectedStructuredBytes", l)
  <2>1. ~(Len(q) < HeaderBytes)
    BY <1>2, <1>3, Zenon
  <2> QED
    BY <1>2, <1>3, <1>15, <2>1, Zenon DEF FeedFrame
<1>17. CASE l = 0 \/ l > MaximumRequestBytes
  <2>1. RefusesLength(f, h)
    BY <1>16, <1>17, LengthLogged, Zenon
  <2>2. /\ h \in Calls /\ h.session.config = c /\ h.returned
        /\ c.disconnectOnProtocolError => ~h.success
        /\ \E e \in Entry : Does(c, e, k, i) /\ h.log = Append(f.log, e)
    BY <1>14, <1>17, <2>1, Zenon DEF RefusesLength
  <2>3. Reached(c, k, i, before, h.log)
    BY <1>13, <1>14, <2>2, OneMore
  <2>4. i \in 0..Count(k)
    BY <1>13, ScriptType
  <2> QED
    BY <2>2, <2>3, <2>4, Zenon DEF InFrames
<1>18. CASE l # 0 /\ ~(l > MaximumRequestBytes)
  <2>1. PICK g : g = Take(f, 2)
    OBVIOUS
  <2>2. PICK rest : rest = SubSeq(q, 2 + 1, Len(q))
    OBVIOUS
  <2>3. Held(rest, S, b + 2, n)
    <3>1. 2 \in Nat /\ 2 =< Len(q)
      BY <1>7, <1>8
    <3> QED
      BY <1>5, <2>2, <3>1, HeldTail, Zenon
  <2>4. rest \in Seq(Nat)
    BY <2>3, Zenon DEF Held
  <2>5. g = Set(f, "structured", rest)
    BY <1>2, <1>3, <2>1, <2>2, Zenon DEF Take
  <2>6. Quiet(f, g) /\ g.returned = f.returned /\ g.session.structured = rest
    BY <2>4, <2>5, StructuredSet
  <2>7. g \in Calls
    BY <2>6, Zenon DEF Quiet, Continues
  <2>8. h = Set(g, "expectedStructuredBytes", l)
    BY <1>16, <1>18, <2>1, Zenon DEF HeaderBytes
  <2>9. /\ Quiet(g, h) /\ h.returned = g.returned
        /\ h.session.structured = g.session.structured /\ h.session.expectedStructuredBytes = l
    BY <1>12, <2>7, <2>8, ExpectedSet
  <2>10. h \in Calls /\ h.session.config = c /\ h.log = f.log /\ ~h.returned
    BY <2>6, <2>9, Zenon DEF Quiet, Continues
  <2>11. l =< MaximumRequestBytes
    BY <1>12, <1>18, Bounds
  <2>12. FrameHere(k, S, m, n, h.session)
    <3>1. PICK p : p = h.session
      OBVIOUS
    <3>2. p.structured = rest /\ p.expectedStructuredBytes = l
      BY <2>6, <2>9, <3>1, Zenon
    <3>3. l = Len(Script[k][m + 1].payload)
      BY <1>12, Zenon
    <3>4. Held(p.structured, S, Bound("StructuredBinary", k, m) + 2, n)
      BY <1>4, <2>3, <3>2, Zenon
    <3>5. FrameHere(k, S, m, n, p)
      BY <1>9, <1>18, <2>11, <3>2, <3>3, <3>4, Zenon DEF FrameHere
    <3> QED
      BY <3>1, <3>5, Zenon
  <2> QED
    BY <2>10, <2>12, Zenon DEF InFrames
<1> QED
  BY <1>17, <1>18

(* And when a payload is.                                                  *)
LEMMA PayloadRead ==
  ASSUME NEW c, c.mode = "StructuredBinary", NEW k \in Connections,
         NEW S, S = Streams["StructuredBinary"][k], NEW T, NEW before \in Seq(T),
         NEW n \in Nat, n =< Len(S), NEW f \in Calls, f.session.config = c, ~f.returned,
         NEW m \in 0..Count(k), Reached(c, k, m, before, f.log),
         FrameHere(k, S, m, n, f.session), f.session.expectedStructuredBytes # 0,
         ~(Len(f.session.structured) < f.session.expectedStructuredBytes),
         NEW h, h = FeedFrame(f)
  PROVE  InFrames(c, k, S, before, n, h)
<1>1. "StructuredBinary" \in Modes /\ S \in Seq(Nat)
  <2>1. "StructuredBinary" \in Modes
    BY DEF Modes
  <2> QED
    BY <2>1, Laid
<1>2. PICK s : s = f.session
  OBVIOUS
<1>3. PICK q : q = s.structured
  OBVIOUS
<1>4. m # Count(k)
  BY Zenon DEF FrameHere
<1>5. PICK r : \E b \in Nat, l \in Nat : FrameAfter(k, S, m, r, b, l)
  BY <1>4, FrameAhead, Zenon
<1>6. PICK b \in Nat, l \in Nat : FrameAfter(k, S, m, r, b, l)
  BY <1>5
<1>7. /\ r = Script[k][m + 1] /\ m + 1 \in 1..Count(k)
      /\ l \in Nat /\ l = Len(r.payload) /\ b \in Nat /\ b = Bound("StructuredBinary", k, m)
      /\ r.payload \in Seq(Nat) /\ Bound("StructuredBinary", k, m + 1) = b + l + 2
      /\ \A j \in 1..l : S[(b + 2) + j] = r.payload[j]
  BY <1>6, Zenon DEF FrameAfter
<1>8. /\ s.expectedStructuredBytes = l /\ l =< MaximumRequestBytes /\ l # 0
      /\ Held(q, S, b + 2, n)
  BY <1>2, <1>3, <1>7, Zenon DEF FrameHere
<1>9. PICK i \in 1..Count(k) : i = m + 1
  BY <1>7
<1>10. /\ Fate(c, k, i) # "ignored"
       /\ l # 0 /\ l =< MaximumRequestBytes =>
            \A e : Settles(e, DecodeRequest[r.payload]) => Does(c, e, k, i)
  BY <1>6, <1>9, FrameFate
<1>11. q \in Seq(Nat) /\ ~(Len(q) < l)
  BY <1>2, <1>3, <1>8, Zenon DEF Held
<1>12. PICK z \in Nat : z = Len(q)
  BY <1>11
<1>13. l =< Len(q)
  BY <1>7, <1>11, <1>12
<1>14. SubSeq(q, 1, l) = r.payload
  <2>1. b + 2 \in Nat
    BY <1>7
  <2>2. PICK a \in Nat : a = b + 2
    BY <2>1
  <2>3. PICK w \in Seq(Nat) : w = r.payload
    BY <1>7
  <2>4. /\ S \in Seq(Nat) /\ Held(q, S, a, n)
        /\ \A j \in 1..Len(w) : S[a + j] = w[j]
    BY <1>1, <1>7, <1>8, <2>2, <2>3, Zenon
  <2>5. Len(w) =< Len(q)
    BY <1>7, <1>13, <2>3, Zenon
  <2>6. S \in Seq(Nat) /\ Held(q, S, a, n)
    BY <2>4
  <2>7. Follows(w, S, a)
    BY <2>4, Zenon DEF Follows
  <2>8. SubSeq(q, 1, Len(w)) = w
    BY <2>5, <2>6, <2>7, HeldFront, Zenon
  <2> QED
    BY <1>7, <2>3, <2>8, Zenon
<1>15. PICK g : g = HandleStructuredFrame(f, r.payload)
  OBVIOUS
<1>16. Decides(f, DecodeRequest[r.payload], g)
  BY <1>7, <1>15, FrameLogged, Zenon
<1>17. /\ g \in Calls /\ g.session.config = c /\ ~g.returned
       /\ g.session.structured = q
       /\ \E e \in Entry : Does(c, e, k, i) /\ g.log = Append(f.log, e)
  BY <1>2, <1>3, <1>8, <1>10, <1>16, Zenon DEF Decides, SameFrames
<1>18. h = Set(Take(And(g), l), "expectedStructuredBytes", 0)
  BY <1>2, <1>3, <1>8, <1>11, <1>14, <1>15, Zenon DEF FeedFrame
<1>19. PICK d : d = And(g)
  OBVIOUS
<1>20. Quiet(g, d) /\ d.session = g.session /\ d.returned = g.returned
  <2>1. TRUE \in BOOLEAN
    OBVIOUS
  <2>2. Quiet(g, And(g)) /\ And(g).session = g.session /\ And(g).returned = g.returned
    BY <1>17, <2>1, Concluded
  <2> QED
    BY <1>19, <2>2, Zenon
<1>21. d \in Calls /\ d.session.config = c /\ ~d.returned /\ d.session.structured = q /\ d.log = g.log
  BY <1>17, <1>20, Zenon DEF Quiet, Continues
<1>22. PICK rest : rest = SubSeq(q, l + 1, Len(q))
  OBVIOUS
<1>23. Held(rest, S, b + l + 2, n)
  <2>1. PICK a \in Nat : a = b + 2
    BY <1>7
  <2>2. a + l = b + l + 2
    BY <2>1
  <2>3. Held(q, S, a, n)
    BY <1>8, <2>1, Zenon
  <2>4. Held(rest, S, a + l, n)
    BY <1>7, <1>13, <1>22, <2>3, HeldTail, Zenon
  <2> QED
    BY <2>2, <2>4, Zenon
<1>24. rest \in Seq(Nat)
  BY <1>23, Zenon DEF Held
<1>25. PICK t : t = Take(d, l)
  OBVIOUS
<1>26. t = Set(d, "structured", rest)
  BY <1>21, <1>22, <1>25, Zenon DEF Take
<1>27. Quiet(d, t) /\ t.returned = d.returned /\ t.session.structured = rest
  BY <1>21, <1>24, <1>26, StructuredSet
<1>28. t \in Calls /\ 0 \in Nat
  BY <1>27, Zenon DEF Quiet, Continues
<1>29. h = Set(t, "expectedStructuredBytes", 0)
  BY <1>18, <1>19, <1>25, Zenon
<1>30. /\ Quiet(t, h) /\ h.returned = t.returned
       /\ h.session.structured = t.session.structured /\ h.session.expectedStructuredBytes = 0
  BY <1>28, <1>29, ExpectedSet
<1>31. h \in Calls /\ h.session.config = c /\ h.log = g.log /\ ~h.returned
  BY <1>21, <1>27, <1>30, Zenon DEF Quiet, Continues
<1>32. \E e \in Entry : Does(c, e, k, i) /\ h.log = Append(f.log, e)
  BY <1>17, <1>31, Zenon
<1>33. Reached(c, k, i, before, h.log)
  BY <1>9, <1>10, <1>32, OneMore
<1>34. FrameHere(k, S, i, n, h.session)
  BY <1>7, <1>9, <1>23, <1>27, <1>30, Zenon DEF FrameHere
<1>35. i \in 0..Count(k)
  BY <1>9, ScriptType
<1> QED
  BY <1>31, <1>33, <1>34, <1>35, Zenon DEF InFrames

(* A turn with the frames.                                                 *)
LEMMA FrameGoesOn ==
  ASSUME NEW c, c.mode = "StructuredBinary", NEW k \in Connections,
         NEW S, S = Streams["StructuredBinary"][k], NEW T, NEW before \in Seq(T),
         NEW n \in Nat, n =< Len(S), NEW f, InFrames(c, k, S, before, n, f),
         NEW h, h = FeedFrame(f)
  PROVE  InFrames(c, k, S, before, n, h)
<1>1. /\ f \in Calls /\ f.session.config = c
      /\ \E m \in 0..Count(k) :
           /\ Reached(c, k, m, before, f.log)
           /\ IF f.returned THEN c.disconnectOnProtocolError => ~f.success
              ELSE FrameHere(k, S, m, n, f.session)
  BY Zenon DEF InFrames
<1>2. CASE f.returned
  <2>1. h = f
    BY <1>2, Zenon DEF FeedFrame
  <2> QED
    BY <2>1, Zenon
<1>3. CASE ~f.returned
  <2>1. PICK m \in 0..Count(k) : Reached(c, k, m, before, f.log) /\ FrameHere(k, S, m, n, f.session)
    BY <1>1, <1>3, Zenon
  <2>2. CASE Resting(f.session)
    <3>1. h = f
      BY <1>3, <2>2, Zenon DEF FeedFrame, Resting
    <3> QED
      BY <3>1, Zenon
  <2>3. CASE f.session.expectedStructuredBytes = 0 /\ ~Resting(f.session)
    <3>1. ~(Len(f.session.structured) < HeaderBytes)
      BY <2>3, Zenon DEF Resting
    <3> QED
      BY <1>1, <1>3, <2>1, <2>3, <3>1, LengthRead
  <2>4. CASE f.session.expectedStructuredBytes # 0 /\ ~Resting(f.session)
    <3>1. ~(Len(f.session.structured) < f.session.expectedStructuredBytes)
      BY <2>4, Zenon DEF Resting
    <3> QED
      BY <1>1, <1>3, <2>1, <2>4, <3>1, PayloadRead
  <2> QED
    BY <2>2, <2>3, <2>4
<1> QED
  BY <1>2, <1>3

(* All the frames that have come.                                          *)
LEMMA FramesInOrder ==
  ASSUME NEW c, c.mode = "StructuredBinary", NEW k \in Connections,
         NEW S, S = Streams["StructuredBinary"][k], NEW T, NEW before \in Seq(T),
         NEW n \in Nat, n =< Len(S), NEW f, InFrames(c, k, S, before, n, f)
  PROVE  InFrames(c, k, S, before, n, FeedFrames(f))
<1>1. f \in Calls
  BY Zenon DEF InFrames
<1>2. MaximumRequestBytes \in Nat
  BY Bounds
<1>3. PICK N \in Nat : N = Len(f.session.structured)
  <2>1. f.session.structured \in Seq(Nat)
    BY <1>1, CallFields, SessionFields
  <2> QED
    BY <2>1
<1>4. PICK after : FrameRun(f, N, after)
  BY <1>1, <1>2, <1>3, FrameTurns, Zenon
<1>5. /\ after[0] = f /\ \A i \in 1..N : after[i] = FeedFrame(after[i - 1])
      /\ FeedFrames(f) = after[N]
  BY <1>4, Zenon DEF FrameRun
<1> DEFINE P == {i \in 0..N : InFrames(c, k, S, before, n, after[i])}
<1>6. 0 \in P
  BY <1>5
<1>7. ASSUME NEW i \in 1..N, i - 1 \in P PROVE i \in P
  <2>1. i \in 0..N /\ InFrames(c, k, S, before, n, after[i - 1])
    BY <1>7
  <2>2. after[i] = FeedFrame(after[i - 1])
    BY <1>5, Zenon
  <2>3. InFrames(c, k, S, before, n, after[i])
    BY <2>1, <2>2, FrameGoesOn, Zenon
  <2> QED
    BY <2>1, <2>3
<1> HIDE DEF P
<1>8. \A i \in 0..N : i \in P
  BY <1>6, <1>7, TurnInduction
<1>9. N \in P
  BY <1>8
<1>10. InFrames(c, k, S, before, n, after[N])
  BY <1>9 DEF P
<1> QED
  BY <1>5, <1>10, Zenon

(* A session that rests has all of the requests that have come.            *)
LEMMA RestsWithin ==
  ASSUME NEW k \in Connections, NEW S, S = Streams["StructuredBinary"][k],
         NEW m \in 0..Count(k), NEW n \in Nat, NEW s, FrameHere(k, S, m, n, s), Resting(s)
  PROVE  Within("StructuredBinary", k, m, n)
<1>0. "StructuredBinary" \in Modes
  BY DEF Modes
<1>1. PICK b \in Nat : b = Bound("StructuredBinary", k, m)
  <2>1. \A i \in 0..Count(k) : Bound("StructuredBinary", k, i) \in Nat
    BY <1>0, Laid
  <2> QED
    BY <2>1
<1>2. PICK e : e = s.expectedStructuredBytes
  OBVIOUS
<1>3. PICK q : q = s.structured
  OBVIOUS
<1>4. \/ e = 0 /\ Held(q, S, b, n) /\ Len(q) < 2
      \/ /\ e # 0 /\ m # Count(k) /\ e = Len(Script[k][m + 1].payload)
         /\ Held(q, S, b + 2, n) /\ Len(q) < e
  BY <1>1, <1>2, <1>3, Zenon DEF FrameHere, Resting, HeaderBytes
<1>5. b =< n
  <2>1. CASE Held(q, S, b, n)
    BY <2>1 DEF Held
  <2>2. CASE Held(q, S, b + 2, n)
    <3>1. b + 2 =< n
      BY <2>2, Zenon DEF Held
    <3> QED
      BY <3>1
  <2> QED
    BY <1>4, <2>1, <2>2
<1>6. ASSUME m # Count(k) PROVE n < Bound("StructuredBinary", k, m + 1)
  <2>1. PICK r : \E x \in Nat, l \in Nat : FrameAfter(k, S, m, r, x, l)
    BY <1>6, FrameAhead, Zenon
  <2>2. PICK x \in Nat, l \in Nat : FrameAfter(k, S, m, r, x, l)
    BY <2>1
  <2>3. /\ r = Script[k][m + 1] /\ l = Len(r.payload) /\ x = b
        /\ Bound("StructuredBinary", k, m + 1) = x + l + 2
    BY <1>1, <2>2, Zenon DEF FrameAfter
  <2>4. n < b + l + 2
    <3>1. CASE Held(q, S, b, n) /\ Len(q) < 2
      <4>1. Len(q) = n - b
        BY <3>1, Zenon DEF Held
      <4> QED
        BY <3>1, <4>1
    <3>2. CASE /\ e = Len(Script[k][m + 1].payload) /\ Held(q, S, b + 2, n) /\ Len(q) < e
      <4>1. Len(q) = n - (b + 2)
        BY <3>2, Zenon DEF Held
      <4>2. e = l
        BY <2>3, <3>2, Zenon
      <4>3. n - (b + 2) < l
        BY <3>2, <4>1, <4>2, Zenon
      <4> QED
        BY <4>3
    <3> QED
      BY <1>4, <3>1, <3>2, Zenon
  <2> QED
    BY <2>3, <2>4, Zenon
<1>7. m < Count(k) => m # Count(k)
  BY ScriptType
<1> QED
  BY <1>1, <1>5, <1>6, <1>7, Zenon DEF Within

\* A session that has read the first n bytes, m requests in.
Here(c, k, m, n, s) ==
  /\ Within(c.mode, k, m, n)
  /\ IF c.mode = "Line" THEN LineHere(k, m, n, s)
     ELSE FrameHere(k, Streams["StructuredBinary"][k], m, n, s)

\* What became of a call, m requests in: it has returned, or it is n bytes in.
Came(c, k, before, n, f) ==
  /\ f \in Calls /\ f.session.config = c
  /\ \E m \in 0..Count(k) :
       /\ Reached(c, k, m, before, f.log)
       /\ IF f.returned THEN c.disconnectOnProtocolError => ~f.success
          ELSE Here(c, k, m, n, f.session)

(* A read in structured mode.                                              *)
LEMMA StructuredInOrder ==
  ASSUME NEW c, c.mode = "StructuredBinary", NEW k \in Connections,
         NEW S, S = Streams["StructuredBinary"][k], NEW T, NEW before \in Seq(T),
         NEW n \in Nat, NEW data \in Seq(Nat), n + Len(data) =< Len(S), Follows(data, S, n),
         NEW f \in Calls, f.session.config = c, ~f.returned,
         NEW m \in 0..Count(k), Reached(c, k, m, before, f.log), FrameHere(k, S, m, n, f.session),
         NEW h, h = FeedStructured(f, data), h.returned \/ Resting(h.session)
  PROVE  Came(c, k, before, n + Len(data), h)
<1>1. PICK N \in Nat : N = n + Len(data)
  OBVIOUS
<1>2. N =< Len(S)
  BY <1>1
<1>3. PICK s : s = f.session
  OBVIOUS
<1>4. s.structured \in Seq(Nat)
  BY <1>3, CallFields, SessionFields
<1>5. PICK q : q = s.structured \o data
  OBVIOUS
<1>6. q \in Seq(Nat)
  BY <1>4, <1>5
<1>7. PICK g : g = Set(f, "structured", q)
  OBVIOUS
<1>8. /\ Quiet(f, g) /\ g.returned = f.returned /\ g.session.structured = q
      /\ g.session.expectedStructuredBytes = s.expectedStructuredBytes
  BY <1>3, <1>6, <1>7, StructuredSet
<1>9. g \in Calls /\ g.session.config = c /\ g.log = f.log /\ ~g.returned
  BY <1>8, Zenon DEF Quiet, Continues
<1>10. \A a \in Nat : Held(s.structured, S, a, n) => Held(q, S, a, N)
  <2> SUFFICES ASSUME NEW a \in Nat, Held(s.structured, S, a, n) PROVE Held(q, S, a, N)
    OBVIOUS
  <2>1. \A j \in 1..Len(data) : data[j] = S[n + j]
    BY Zenon DEF Follows
  <2>2. Held(s.structured \o data, S, a, n + Len(data))
    BY <2>1, HeldOn
  <2> QED
    BY <1>1, <1>5, <2>2, Zenon
<1>11. FrameHere(k, S, m, N, g.session)
  <2>0. "StructuredBinary" \in Modes
    BY DEF Modes
  <2>1. PICK b \in Nat : b = Bound("StructuredBinary", k, m)
    <3>1. \A i \in 0..Count(k) : Bound("StructuredBinary", k, i) \in Nat
      BY <2>0, Laid
    <3> QED
      BY <3>1
  <2>2. b + 2 \in Nat
    BY <2>1
  <2>3. CASE s.expectedStructuredBytes = 0
    <3>1. Held(s.structured, S, b, n)
      BY <1>3, <2>1, <2>3, Zenon DEF FrameHere
    <3>2. Held(q, S, b, N)
      BY <1>10, <3>1, Zenon
    <3> QED
      BY <1>8, <2>1, <2>3, <3>2, Zenon DEF FrameHere
  <2>4. CASE s.expectedStructuredBytes # 0
    <3>1. /\ m # Count(k)
          /\ s.expectedStructuredBytes = Len(Script[k][m + 1].payload)
          /\ s.expectedStructuredBytes =< MaximumRequestBytes
          /\ Held(s.structured, S, b + 2, n)
      BY <1>3, <2>1, <2>4, Zenon DEF FrameHere
    <3>2. Held(q, S, b + 2, N)
      BY <1>10, <2>2, <3>1, Zenon
    <3> QED
      BY <1>8, <2>1, <2>4, <3>1, <3>2, Zenon DEF FrameHere
  <2> QED
    BY <2>3, <2>4
<1>12. InFrames(c, k, S, before, N, g)
  BY <1>9, <1>11, Zenon DEF InFrames
<1>13. PICK fed : fed = FeedFrames(g)
  OBVIOUS
<1>14. InFrames(c, k, S, before, N, fed)
  BY <1>2, <1>12, <1>13, FramesInOrder, Zenon
<1>15. PICK dropped : dropped = Set(Set(fed, "structured", <<>>), "expectedStructuredBytes", 0)
  OBVIOUS
<1>16. \/ h = Return(f, FALSE)
       \/ h = Return(dropped, FALSE)
       \/ h = fed
  BY <1>3, <1>5, <1>7, <1>13, <1>15, Zenon DEF FeedStructured
<1>17. FALSE \in BOOLEAN /\ \A x \in Calls : Return(x, FALSE).success = FALSE
  BY DEF Return, Calls
<1>18. CASE h = Return(f, FALSE)
  <2>1. Quiet(f, Return(f, FALSE)) /\ Return(f, FALSE).returned = TRUE
    BY <1>17, Concluded
  <2>2. /\ h \in Calls /\ h.session.config = c /\ h.log = f.log /\ h.returned /\ ~h.success
    BY <1>17, <1>18, <2>1, Zenon DEF Quiet, Continues
  <2> QED
    BY <2>2, Zenon DEF Came
<1>19. CASE h = Return(dropped, FALSE)
  <2>1. fed \in Calls /\ fed.session.config = c /\ \E x \in 0..Count(k) : Reached(c, k, x, before, fed.log)
    BY <1>14, Zenon DEF InFrames
  <2>2. Quiet(fed, dropped)
    BY <1>15, <2>1, Dropped
  <2>3. dropped \in Calls /\ dropped.session.config = c /\ dropped.log = fed.log
    BY <2>1, <2>2, Zenon DEF Quiet, Continues
  <2>4. Quiet(dropped, Return(dropped, FALSE)) /\ Return(dropped, FALSE).returned = TRUE
    BY <1>17, <2>3, Concluded
  <2>5. /\ h \in Calls /\ h.session.config = c /\ h.log = fed.log /\ h.returned /\ ~h.success
    BY <1>17, <1>19, <2>3, <2>4, Zenon DEF Quiet, Continues
  <2> QED
    BY <2>1, <2>5, Zenon DEF Came
<1>20. CASE h = fed
  <2>1. /\ h \in Calls /\ h.session.config = c
        /\ \E x \in 0..Count(k) :
             /\ Reached(c, k, x, before, h.log)
             /\ IF h.returned THEN c.disconnectOnProtocolError => ~h.success
                ELSE FrameHere(k, S, x, N, h.session)
    BY <1>14, <1>20, Zenon DEF InFrames
  <2>2. PICK x \in 0..Count(k) :
             /\ Reached(c, k, x, before, h.log)
             /\ IF h.returned THEN c.disconnectOnProtocolError => ~h.success
                ELSE FrameHere(k, S, x, N, h.session)
    BY <2>1
  <2>3. ASSUME ~h.returned PROVE Within("StructuredBinary", k, x, N)
    <3>1. FrameHere(k, S, x, N, h.session) /\ Resting(h.session)
      BY <2>2, <2>3, Zenon
    <3> QED
      BY <3>1, RestsWithin
  <2>4. "StructuredBinary" # "Line"
    OBVIOUS
  <2> QED
    BY <1>1, <2>1, <2>2, <2>3, <2>4, Zenon DEF Came, Here
<1> QED
  BY <1>16, <1>18, <1>19, <1>20

(* However a read was cut, the session that takes it gets further in the   *)
(* requests, or its connection ends, or it has lost its way.               *)
LEMMA FedInOrder ==
  ASSUME NEW c \in Config, NEW k \in Connections, NEW T, NEW before \in Seq(T),
         NEW m \in 0..Count(k), Reached(c, k, m, before, <<>>),
         NEW n \in Nat, NEW session \in Session, Settled(session), session.config = c,
         Here(c, k, m, n, session),
         NEW data \in Seq(Nat), n + Len(data) =< Len(Streams[c.mode][k]),
         Follows(data, Streams[c.mode][k], n),
         NEW w \in Nat, NEW f, f = Feed(session, data, w)
  PROVE  Came(c, k, before, n + Len(data), f)
<1>1. PICK b : b = Begin(session, w)
  OBVIOUS
<1>2. /\ b \in Calls /\ b.session = session /\ b.returned = FALSE /\ b.log = <<>>
  <2>1. Begun(b, session, w)
    BY <1>1, Beginning, Zenon
  <2>2. b \in Calls /\ b.session = session /\ b.returned = FALSE
    BY <2>1, Zenon DEF Begun, Sound
  <2>3. b.log = <<>>
    BY <1>1 DEF Begin
  <2> QED
    BY <2>2, <2>3, Zenon
<1>3. CASE c.mode = "Line"
  <2>1. f = FeedLine(b, data)
    BY <1>1, <1>3, Zenon DEF Feed
  <2>2. PICK S : S = Streams["Line"][k]
    OBVIOUS
  <2>3. n + Len(data) =< Len(S) /\ Follows(data, S, n)
    BY <1>3, <2>2, Zenon
  <2>4. InLine(c, k, before, n, b)
    <3>1. Within("Line", k, m, n) /\ LineHere(k, m, n, session)
      BY <1>3, Zenon DEF Here
    <3> QED
      BY <1>2, <3>1, Zenon DEF InLine
  <2>5. InLine(c, k, before, n + Len(data), f)
    <3>1. \A j \in 1..Len(data) : data[j] = S[n + j]
      BY <2>3, Zenon DEF Follows
    <3>2. InLine(c, k, before, n + Len(data), FeedLine(b, data))
      BY <1>3, <2>2, <2>3, <2>4, <3>1, LinesInOrder
    <3> QED
      BY <2>1, <3>2, Zenon
  <2>6. PICK N : N = n + Len(data)
    OBVIOUS
  <2>7. InLine(c, k, before, N, f)
    BY <2>5, <2>6, Zenon
  <2>8. Came(c, k, before, N, f)
    BY <1>3, <2>7, Zenon DEF InLine, Came, Here
  <2> QED
    BY <2>6, <2>8, Zenon
<1>4. CASE c.mode # "Line"
  <2>0. c.mode = "StructuredBinary"
    BY <1>4 DEF Config
  <2>1. f = FeedStructured(b, data)
    BY <1>1, <1>4, Zenon DEF Feed
  <2>2. PICK S : S = Streams["StructuredBinary"][k]
    OBVIOUS
  <2>3. n + Len(data) =< Len(S) /\ Follows(data, S, n)
    BY <2>0, <2>2, Zenon
  <2>4. FrameHere(k, S, m, n, b.session) /\ Reached(c, k, m, before, b.log)
    BY <1>2, <1>4, <2>2, Zenon DEF Here
  <2>5. f.returned \/ Resting(f.session)
    <3>1. Leaves(session, w, data, f)
      BY Bounds, Fed
    <3> QED
      BY <3>1, Zenon DEF Leaves, Settled
  <2>6. b.session.config = c /\ ~b.returned
    BY <1>2, Zenon
  <2> QED
    BY <1>2, <2>0, <2>1, <2>2, <2>3, <2>4, <2>5, <2>6, StructuredInOrder
<1> QED
  BY <1>3, <1>4

-----------------------------------------------------------------------------
(* The requests of each connection.                                        *)

\* Two sessions hold the same input.
Alike(s, t) ==
  /\ s.line = t.line /\ s.discardUntilNewline = t.discardUntilNewline
  /\ s.structured = t.structured /\ s.expectedStructuredBytes = t.expectedStructuredBytes

\* So many requests are done away with as have come, and no others, and the
\* session that takes the next bytes is where they belong.
Furthered(c, k, st, sl, h) ==
  \/ h.astray /\ ~c.disconnectOnProtocolError
  \/ \E m \in 0..Count(k) :
       /\ Reached(c, k, m, h.log, <<>>)
       /\ st \in Live => m = Whole(c.mode, k, h.fed)
       /\ \A i \in Slots : sl[i].of = k => Here(c, k, m, h.fed, sl[i].session)

Orderly == \A k \in Connections : Furthered(config, k, status[k], slots, history[k])

(* What changes neither a connection's input nor its history.              *)
LEMMA Undisturbed ==
  ASSUME NEW c, NEW k, NEW st, NEW sl, NEW h, Furthered(c, k, st, sl, h), NEW su, NEW sm,
         su \in Live => st \in Live,
         \A i \in Slots : sm[i].of = k => sl[i].of = k /\ Alike(sl[i].session, sm[i].session)
  PROVE  Furthered(c, k, su, sm, h)
<1>1. CASE h.astray /\ ~c.disconnectOnProtocolError
  BY <1>1, Zenon DEF Furthered
<1>2. CASE ~(h.astray /\ ~c.disconnectOnProtocolError)
  <2>1. PICK m \in 0..Count(k) :
          /\ Reached(c, k, m, h.log, <<>>)
          /\ st \in Live => m = Whole(c.mode, k, h.fed)
          /\ \A i \in Slots : sl[i].of = k => Here(c, k, m, h.fed, sl[i].session)
    BY <1>2, Zenon DEF Furthered
  <2>2. ASSUME NEW s, NEW t, Alike(s, t), Here(c, k, m, h.fed, s) PROVE Here(c, k, m, h.fed, t)
    BY <2>2, Zenon DEF Alike, Here, LineHere, Fresh, LineAt, FrameHere
  <2>3. \A i \in Slots : sm[i].of = k => Here(c, k, m, h.fed, sm[i].session)
    BY <2>1, <2>2, Zenon
  <2> QED
    BY <2>1, <2>3, Zenon DEF Furthered
<1> QED
  BY <1>1, <1>2

(* A new session, before the first byte.                                   *)
LEMMA Starts ==
  ASSUME NEW c \in Config, NEW k \in Connections, NEW s,
         s.line = <<>>, s.discardUntilNewline = FALSE, s.structured = <<>>, s.expectedStructuredBytes = 0
  PROVE  /\ 0 \in 0..Count(k) /\ Reached(c, k, 0, <<>>, <<>>)
         /\ Whole(c.mode, k, 0) = 0 /\ Here(c, k, 0, 0, s)
<1>1. PICK mode \in Modes : mode = c.mode
  BY DEF Config, Modes
<1>2. PICK N \in Nat : N = Count(k)
  BY ScriptType
<1>3. 0 \in 0..Count(k) /\ 0 =< 0 /\ 0 \in Nat
  BY <1>2
<1>4. Bound(mode, k, 0) = 0
  BY Zenon DEF Bound
<1>5. ASSUME 0 < Count(k) PROVE 0 < Bound(mode, k, 0 + 1)
  <2>1. 0 \in 0..Count(k) /\ 0 # Count(k)
    BY <1>3, <1>5
  <2> QED
    BY <1>4, <2>1, Succession
<1>6. Within(mode, k, 0, 0)
  BY <1>3, <1>4, <1>5, Zenon DEF Within
<1>7. Whole(mode, k, 0) = 0
  BY <1>3, <1>4, <1>5, WholeIs
<1>8. Reached(c, k, 0, <<>>, <<>>)
  <2>1. Handled(c, k, 0) = <<>>
    BY HandledTurns
  <2>2. Len(<<>>) = 0 /\ 0 + 0 = 0 /\ \A j \in 1..0 : FALSE
    OBVIOUS
  <2> QED
    BY <2>1, <2>2, Zenon DEF Reached
<1>9. CASE mode = "Line"
  <2>1. Fresh(s)
    BY Zenon DEF Fresh
  <2>2. ASSUME 0 # Count(k) PROVE LineAt(Script[k][0 + 1].text, 0 - Bound("Line", k, 0), s)
    <3>1. 0 + 1 \in 1..Count(k) /\ 0 - 0 = 0
      BY <1>2, <2>2
    <3>2. PICK text : text = Script[k][0 + 1].text
      OBVIOUS
    <3>3. text \in Seq(Nat)
      BY <3>1, <3>2, ScriptType, Zenon
    <3>4. LineAt(text, 0, s)
      BY <2>1, <3>3, LineBegins
    <3> QED
      BY <1>4, <1>9, <3>1, <3>2, <3>4, Zenon
  <2>3. LineHere(k, 0, 0, s)
    BY <2>1, <2>2, Zenon DEF LineHere
  <2> QED
    BY <1>1, <1>3, <1>6, <1>7, <1>8, <1>9, <2>3, Zenon DEF Here
<1>10. CASE mode # "Line"
  <2>1. PICK S : S = Streams["StructuredBinary"][k]
    OBVIOUS
  <2>2. PICK q : q = s.structured
    OBVIOUS
  <2>3. q = <<>> /\ q \in Seq(Nat) /\ Len(q) = 0 - 0 /\ \A i \in 1..(0 - 0) : FALSE
    BY <2>2
  <2>4. Held(q, S, 0, 0)
    BY <1>3, <2>3, Zenon DEF Held
  <2>5. Bound("StructuredBinary", k, 0) = 0
    BY Zenon DEF Bound
  <2>6. FrameHere(k, S, 0, 0, s)
    BY <2>2, <2>4, <2>5, Zenon DEF FrameHere
  <2> QED
    BY <1>1, <1>3, <1>6, <1>7, <1>8, <1>10, <2>1, <2>6, Zenon DEF Here
<1> QED
  BY <1>9, <1>10

(* A step that leaves the histories alone, and frees slots at most.        *)
LEMMA OrderKept ==
  ASSUME Orderly, config' = config, history' = history,
         \A k \in Connections : status'[k] \in Live => status[k] \in Live,
         \A k \in Connections : \A i \in Slots :
           slots'[i].of = k => slots[i].of = k /\ Alike(slots[i].session, slots'[i].session)
  PROVE  Orderly'
<1> SUFFICES ASSUME NEW k \in Connections
             PROVE  Furthered(config', k, status'[k], slots', history'[k])
  BY Zenon DEF Orderly
<1>1. Furthered(config, k, status[k], slots, history[k])
  BY Zenon DEF Orderly
<1>2. status'[k] \in Live => status[k] \in Live
  OBVIOUS
<1>3. \A i \in Slots : slots'[i].of = k => slots[i].of = k /\ Alike(slots[i].session, slots'[i].session)
  OBVIOUS
<1>4. Furthered(config, k, status'[k], slots', history[k])
  BY <1>1, <1>2, <1>3, Undisturbed
<1> QED
  BY <1>4, Zenon

(* A status changes as the code changes it.                                *)
LEMMA OrderOfStatus ==
  ASSUME IInv, Orderly, NEW k \in Connections, Connect(k) \/ Lose(k) \/ RefuseClient(k)
  PROVE  Orderly'
<1>1. /\ config' = config /\ history' = history /\ slots' = slots
      /\ \E s \in {"waiting", "lost", "closed"} :
           status' = [status EXCEPT ![k] = s] /\ (s = "lost" => status[k] = "open")
  BY DEF Connect, Lose, RefuseClient, Become
<1>2. PICK s \in {"waiting", "lost", "closed"} :
        status' = [status EXCEPT ![k] = s] /\ (s = "lost" => status[k] = "open")
  BY <1>1
<1>3. status \in [Connections -> Statuses]
  BY Parts, Zenon DEF Simple
<1>4. status'[k] = s /\ \A c \in Connections \ {k} : status'[c] = status[c]
  BY <1>2, <1>3, Zenon
<1>5. s \in Live => s = "lost"
  BY <1>2 DEF Live
<1>6. "open" \in Live
  BY DEF Live
<1>7. \A c \in Connections : status'[c] \in Live => status[c] \in Live
  BY <1>2, <1>4, <1>5, <1>6, Zenon
<1>8. \A x : Alike(x, x)
  BY DEF Alike
<1>9. \A c \in Connections : \A i \in Slots :
        slots'[i].of = c => slots[i].of = c /\ Alike(slots[i].session, slots'[i].session)
  BY <1>1, <1>8, Zenon
<1> QED
  BY <1>1, <1>7, <1>9, OrderKept, Zenon

(* A slot is vacated.                                                      *)
LEMMA OrderOfReaping ==
  ASSUME IInv, Orderly, NEW i \in Slots, ReapClient(i)
  PROVE  Orderly'
<1>1. /\ Simple /\ Placed(status, running, slots) /\ Occupied(config, hooks, slots)
  BY Parts
<1>2. /\ config' = config /\ history' = history /\ slots[i].of # None
      /\ status' = [status EXCEPT ![slots[i].of] = "closed"]
      /\ slots' = [slots EXCEPT ![i] = Free]
  BY Zenon DEF ReapClient, Become, Lost, Serves
<1>3. PICK k \in Connections : k = slots[i].of
  BY <1>1, <1>2, Zenon DEF Placed, Lively
<1>4. status \in [Connections -> Statuses] /\ slots \in [Slots -> Places]
  BY <1>1, Zenon DEF Simple, Occupied
<1>5. status'[k] = "closed" /\ \A c \in Connections \ {k} : status'[c] = status[c]
  BY <1>2, <1>3, <1>4, Zenon
<1>6. slots'[i] = Free /\ \A j \in Slots \ {i} : slots'[j] = slots[j]
  BY <1>2, <1>4, Zenon
<1>7. Free.of = None /\ None \notin Connections
  BY Bounds DEF Free
<1>8. "closed" \notin Live
  BY DEF Live
<1>9. \A c \in Connections : status'[c] \in Live => status[c] \in Live
  BY <1>5, <1>8, Zenon
<1>10. \A x : Alike(x, x)
  BY DEF Alike
<1>11. \A c \in Connections : \A j \in Slots :
         slots'[j].of = c => slots[j].of = c /\ Alike(slots[j].session, slots'[j].session)
  BY <1>6, <1>7, <1>10, Zenon
<1> QED
  BY <1>2, <1>9, <1>11, OrderKept, Zenon

(* All slots are vacated.                                                  *)
LEMMA OrderOfStopping ==
  ASSUME IInv, Orderly, Shutdown
  PROVE  Orderly'
<1>1. /\ config' = config /\ history' = history
      /\ status' = [k \in Connections |-> IF status[k] = "new" THEN "new" ELSE "closed"]
      /\ slots' = [i \in Slots |-> Free]
  BY Zenon DEF Shutdown
<1>2. "new" \notin Live /\ "closed" \notin Live
  BY DEF Live
<1>3. \A c \in Connections : status'[c] \in Live => status[c] \in Live
  BY <1>1, <1>2, Zenon
<1>4. Free.of = None /\ None \notin Connections
  BY Bounds DEF Free
<1>5. \A c \in Connections : \A j \in Slots :
         slots'[j].of = c => slots[j].of = c /\ Alike(slots[j].session, slots'[j].session)
  BY <1>1, <1>4, Zenon
<1> QED
  BY <1>1, <1>3, <1>5, OrderKept, Zenon

(* The hooks of a session are not its input.                               *)
LEMMA OrderOfHooks ==
  ASSUME IInv, Orderly, NEW h \in Hooks, SetHooks(h)
  PROVE  Orderly'
<1>1. Occupied(config, hooks, slots)
  BY Parts
<1>2. /\ config' = config /\ history' = history /\ status' = status
      /\ slots' = [i \in Slots |-> IF slots[i].of = None THEN slots[i]
                                   ELSE [slots[i] EXCEPT !.session.hooks = h]]
  BY Zenon DEF SetHooks, Serves
<1>3. ASSUME NEW p \in Places, NEW q, q = [p EXCEPT !.session.hooks = h]
      PROVE  q.of = p.of /\ Alike(p.session, q.session)
  <2>1. PICK of \in Connections \cup {None} : of = p.of
    BY PlaceFields, Zenon
  <2>2. PICK s \in Session : s = p.session
    BY PlaceFields, Zenon
  <2>3. p = [of |-> of, session |-> s]
    BY <2>1, <2>2 DEF Places
  <2>4. PICK t : t = [s EXCEPT !.hooks = h]
    OBVIOUS
  <2>5. q.of = of /\ q.session = t
    BY <1>3, <2>3, <2>4
  <2>6. Alike(s, t)
    BY <2>4 DEF Session, Alike
  <2> QED
    BY <2>1, <2>2, <2>5, <2>6, Zenon
<1>4. \A x : Alike(x, x)
  BY DEF Alike
<1>5. ASSUME NEW j \in Slots
      PROVE  slots'[j].of = slots[j].of /\ Alike(slots[j].session, slots'[j].session)
  <2>1. PICK p \in Places : p = slots[j]
    BY <1>1, Zenon DEF Occupied
  <2>2. slots'[j] = p \/ slots'[j] = [p EXCEPT !.session.hooks = h]
    BY <1>2, <2>1, Zenon
  <2>3. CASE slots'[j] = p
    BY <1>4, <2>1, <2>3, Zenon
  <2>4. CASE slots'[j] = [p EXCEPT !.session.hooks = h]
    BY <1>3, <2>1, <2>4, Zenon
  <2> QED
    BY <2>2, <2>3, <2>4
<1>6. \A c \in Connections : \A j \in Slots :
         slots'[j].of = c => slots[j].of = c /\ Alike(slots[j].session, slots'[j].session)
  BY <1>5, Zenon
<1>7. \A c \in Connections : status'[c] \in Live => status[c] \in Live
  BY <1>2, Zenon
<1> QED
  BY <1>2, <1>6, <1>7, OrderKept, Zenon

(* A connection starts from nothing, whatever its slot held.               *)
LEMMA OrderOfAccepting ==
  ASSUME IInv, Orderly, NEW k \in Connections, NEW i \in Slots, AcceptClient(k, i)
  PROVE  Orderly'
<1>1. /\ Simple /\ Placed(status, running, slots) /\ Occupied(config, hooks, slots)
  BY Parts
<1>2. /\ config' = config /\ status[k] = "waiting"
      /\ status' = [c \in Connections |-> IF c = k THEN "open" ELSE IF slots[i].of = c THEN "closed"
                                          ELSE status[c]]
      /\ history' = [c \in Connections |-> IF \E j \in Slots \ {i} : slots[j].of = c THEN history[c]
                                           ELSE NoHistory]
  BY Zenon DEF AcceptClient, Accept, Serves
<1>3. PICK session : session = [NewSession(config) EXCEPT !.hooks = hooks]
  OBVIOUS
<1>4. PICK p : p = [of |-> k, session |-> session]
  OBVIOUS
<1>5. slots' = [slots EXCEPT ![i] = p] /\ p.of = k /\ p.session = session
  <2>1. slots' = [slots EXCEPT ![i] = p]
    BY <1>3, <1>4, Zenon DEF AcceptClient
  <2> QED
    BY <1>4, <2>1
<1>6. slots'[i] = p /\ \A j \in Slots \ {i} : slots'[j] = slots[j]
  BY <1>1, <1>5, Zenon DEF Occupied
<1>7. config \in Config
  BY <1>1, Bounds, Zenon DEF Simple
<1>8. /\ session.line = <<>> /\ session.discardUntilNewline = FALSE
      /\ session.structured = <<>> /\ session.expectedStructuredBytes = 0
  BY <1>3 DEF NewSession
<1>9. NoHistory.fed = 0 /\ NoHistory.log = <<>>
  BY DEF NoHistory
<1>10. \A j \in Slots : Lively(status, running, slots[j]) /\ Alone(slots, j)
  BY <1>1, Zenon DEF Placed
<1>11. "waiting" \notin Live /\ "closed" \notin Live
  BY DEF Live
<1>12. \A j \in Slots : slots[j].of # k
  BY <1>2, <1>10, <1>11, Bounds, Zenon DEF Lively
<1> SUFFICES ASSUME NEW c \in Connections
             PROVE  Furthered(config', c, status'[c], slots', history'[c])
  BY Zenon DEF Orderly
<1>13. ASSUME history'[c] = NoHistory, \A j \in Slots \ {i} : slots[j].of # c
       PROVE  Furthered(config, c, status'[c], slots', history'[c])
  <2>1. /\ 0 \in 0..Count(c) /\ Reached(config, c, 0, <<>>, <<>>)
        /\ Whole(config.mode, c, 0) = 0 /\ Here(config, c, 0, 0, session)
    BY <1>7, <1>8, Starts, Zenon
  <2>2. \A j \in Slots : slots'[j].of = c => slots'[j].session = session
    BY <1>5, <1>6, <1>13, Zenon
  <2>3. \A j \in Slots : slots'[j].of = c => Here(config, c, 0, 0, slots'[j].session)
    BY <2>1, <2>2, Zenon
  <2> QED
    BY <1>9, <1>13, <2>1, <2>3, Zenon DEF Furthered
<1>14. CASE \A j \in Slots \ {i} : slots[j].of # c
  <2>1. history'[c] = NoHistory
    BY <1>2, <1>14, Zenon
  <2> QED
    BY <1>2, <1>13, <1>14, <2>1, Zenon
<1>15. CASE ~\A j \in Slots \ {i} : slots[j].of # c
  <2>1. history'[c] = history[c] /\ c # k
    BY <1>2, <1>12, <1>15, Zenon
  <2>2. Furthered(config, c, status[c], slots, history[c])
    BY Zenon DEF Orderly
  <2>3. status'[c] \in Live => status[c] \in Live
    BY <1>2, <1>11, <2>1, Zenon
  <2>4. \A x : Alike(x, x)
    BY DEF Alike
  <2>5. \A j \in Slots : slots'[j].of = c => slots[j].of = c /\ Alike(slots[j].session, slots'[j].session)
    BY <1>5, <1>6, <2>1, <2>4, Zenon
  <2>6. Furthered(config, c, status'[c], slots', history[c])
    BY <2>2, <2>3, <2>5, Undisturbed
  <2> QED
    BY <1>2, <2>1, <2>6, Zenon
<1> QED
  BY <1>14, <1>15

(* What a read takes follows what was fed before.                          *)
LEMMA ReadFollows ==
  ASSUME NEW S \in Seq(Nat), NEW fed \in 0..Len(S), NEW left, left = SubSeq(S, fed + 1, Len(S)),
         NEW n \in Nat, fed + n \in 0..Len(S), NEW data, data = SubSeq(left, 1, n)
  PROVE  Follows(data, S, fed)
<1>1. fed \in Nat /\ fed =< Len(S) /\ Len(S) \in Nat
  OBVIOUS
<1>2. PICK l \in Nat : l = Len(S)
  OBVIOUS
<1>3. left \in Seq(Nat) /\ Len(left) = l - fed /\ \A j \in 1..(l - fed) : left[j] = S[fed + j]
  <2>1. left \in Seq(Nat) /\ Len(left) = l - fed
    BY <1>1, <1>2, Pieces, Zenon
  <2>2. Held(left, S, fed, l)
    <3>1. 0 =< l /\ 0 \in Nat /\ l - 0 = l /\ (\A j \in 1..l : 0 + j = j) /\ 0 + fed = fed
      BY <1>1, <1>2
    <3>2. \A j \in 1..(l - 0) : S[j] = S[0 + j]
      BY <3>1, Zenon
    <3>3. Held(S, S, 0, l)
      BY <1>2, <3>1, <3>2, Zenon DEF Held
    <3>4. Held(SubSeq(S, fed + 1, Len(S)), S, 0 + fed, l)
      BY <1>1, <3>1, <3>3, HeldTail, Zenon
    <3> QED
      BY <3>1, <3>4, Zenon
  <2> QED
    BY <2>1, <2>2, Zenon DEF Held
<1>4. n =< l - fed
  BY <1>1, <1>2
<1>5. PICK w \in Nat : w = l - fed
  <2>1. l - fed \in Nat
    BY <1>1, <1>2
  <2> QED
    BY <2>1
<1>6. Len(data) = n /\ \A j \in 1..n : data[j] = left[j]
  BY <1>3, <1>4, <1>5
<1>7. \A j \in 1..n : j \in 1..(l - fed)
  BY <1>4, <1>5
<1>8. \A j \in 1..n : data[j] = S[fed + j]
  BY <1>3, <1>6, <1>7, Zenon
<1> QED
  BY <1>6, <1>8, Zenon DEF Follows

\* The place serves k, and its session is fed what the stream holds next.
Feeds(c, k, h, p, data, w, f) ==
  /\ p.of = k /\ p.session \in Session /\ Settled(p.session) /\ p.session.config = c
  /\ h.fed + Len(data) =< Len(Streams[c.mode][k]) /\ Follows(data, Streams[c.mode][k], h.fed)
  /\ f = Feed(p.session, data, w)

\* What a read leaves: the slots, the status and the history of its connection.
Leaving(c, k, h, g, n, f, i, st, sl) ==
  /\ g.fed = h.fed + n /\ g.log = h.log \o [j \in DOMAIN f.log |-> Noted(f.log[j])]
  /\ g.astray = (h.astray \/ f.returned)
  /\ IF ~f.success /\ c.disconnectOnProtocolError THEN sl[i].of = None /\ st = "closed"
     ELSE sl[i].session = f.session
  /\ \A j \in Slots \ {i} : sl[j].of # k

(* A read gets the connection further, ends it, or has lost its way.       *)
LEMMA ReadFurthers ==
  ASSUME hooks \in Hooks, NEW c \in Config, NEW k \in Connections, NEW h \in Histories,
         NEW i \in Slots, NEW st, NEW sl, Furthered(c, k, st, sl, h),
         NEW data \in Seq(Nat), NEW w \in Nat, NEW f, Feeds(c, k, h, sl[i], data, w, f),
         NEW g, NEW su, NEW sm, Leaving(c, k, h, g, Len(data), f, i, su, sm)
  PROVE  Furthered(c, k, su, sm, g)
<1>0. PICK n \in Nat : n = Len(data)
  OBVIOUS
<1>1. CASE h.astray /\ ~c.disconnectOnProtocolError
  BY <1>1, Zenon DEF Furthered, Leaving
<1>2. CASE ~(h.astray /\ ~c.disconnectOnProtocolError)
  <2>1. PICK m \in 0..Count(k) :
          /\ Reached(c, k, m, h.log, <<>>)
          /\ \A j \in Slots : sl[j].of = k => Here(c, k, m, h.fed, sl[j].session)
    BY <1>2, Zenon DEF Furthered
  <2>2. PICK session \in Session : session = sl[i].session
    BY Zenon DEF Feeds
  <2>3. PICK fed \in Nat : fed = h.fed
    BY DEF Histories
  <2>4. PICK before \in Seq(Notes) : before = h.log
    BY DEF Histories
  <2>5. Came(c, k, before, fed + n, f)
    <3>1. Here(c, k, m, fed, session) /\ Reached(c, k, m, before, <<>>)
      BY <2>1, <2>2, <2>3, <2>4, Zenon DEF Feeds
    <3>2. /\ Settled(session) /\ session.config = c /\ fed + Len(data) =< Len(Streams[c.mode][k])
          /\ Follows(data, Streams[c.mode][k], fed) /\ f = Feed(session, data, w)
      BY <2>2, <2>3, Zenon DEF Feeds
    <3>3. Came(c, k, before, fed + Len(data), f)
      BY <3>1, <3>2, FedInOrder
    <3> QED
      BY <1>0, <3>3, Zenon
  <2>6. f \in Calls
    BY <2>5, Zenon DEF Came
  <2>7. PICK x \in 0..Count(k) :
          /\ Reached(c, k, x, before, f.log)
          /\ IF f.returned THEN c.disconnectOnProtocolError => ~f.success
             ELSE Here(c, k, x, fed + n, f.session)
    BY <2>5, Zenon DEF Came
  <2>8. PICK entries \in Seq(Entry) : entries = f.log
    BY <2>6, CallFields, Zenon
  <2>9. PICK noted : noted = [j \in DOMAIN entries |-> Noted(entries[j])]
    OBVIOUS
  <2>10. noted \in Seq(Notes)
    <3>1. DOMAIN entries = 1..Len(entries) /\ Len(entries) \in Nat
          /\ \A j \in 1..Len(entries) : entries[j] \in Entry
      OBVIOUS
    <3>2. \A j \in 1..Len(entries) : noted[j] \in Notes
      <4> SUFFICES ASSUME NEW j \in 1..Len(entries) PROVE noted[j] \in Notes
        OBVIOUS
      <4>1. noted[j] = Noted(entries[j])
        BY <2>9, <3>1, Zenon
      <4>2. entries[j] \in Entry
        BY <3>1, Zenon
      <4> QED
        BY <4>1, <4>2, NotedEntry, Zenon
    <3>3. noted = [j \in 1..Len(entries) |-> noted[j]]
      BY <2>9, <3>1, Zenon
    <3>4. noted \in [1..Len(entries) -> Notes]
      BY <3>2, <3>3, Zenon
    <3> QED
      BY <3>1, <3>4, AsSequence, Zenon
  <2>11. g.log = before \o noted
    BY <2>4, <2>8, <2>9, Zenon DEF Leaving
  <2>12. Reached(c, k, x, g.log, <<>>)
    <3>1. Reached(c, k, x, before, entries)
      BY <2>7, <2>8, Zenon
    <3> QED
      BY <2>9, <2>10, <2>11, <3>1, Joins, Zenon
  <2>13. g.fed = fed + n
    BY <1>0, <2>3, Zenon DEF Leaving
  <2>14. CASE f.returned /\ ~c.disconnectOnProtocolError
    BY <2>14, Zenon DEF Furthered, Leaving
  <2>15. CASE ~f.success /\ c.disconnectOnProtocolError
    <3>1. sm[i].of = None /\ su = "closed"
      BY <2>15, Zenon DEF Leaving
    <3>2. "closed" \notin Live /\ k # None
      BY Bounds DEF Live
    <3>3. \A j \in Slots : sm[j].of # k
      BY <3>1, <3>2, Zenon DEF Leaving
    <3> QED
      BY <2>12, <3>1, <3>2, <3>3, Zenon DEF Furthered
  <2>16. CASE /\ ~(~f.success /\ c.disconnectOnProtocolError)
              /\ ~(f.returned /\ ~c.disconnectOnProtocolError)
    <3>1. ~f.returned /\ sm[i].session = f.session
      BY <2>7, <2>16, Zenon DEF Leaving
    <3>2. Here(c, k, x, g.fed, sm[i].session)
      BY <2>7, <2>13, <3>1, Zenon
    <3>3. \A j \in Slots : sm[j].of = k => Here(c, k, x, g.fed, sm[j].session)
      BY <3>2, Zenon DEF Leaving
    <3>4. x = Whole(c.mode, k, g.fed)
      <4>1. PICK mode \in Modes : mode = c.mode
        BY DEF Config, Modes
      <4>2. PICK y \in Nat : y = g.fed
        BY <2>13
      <4>3. Within(mode, k, x, y)
        BY <3>2, <4>1, <4>2, Zenon DEF Here
      <4>4. Bound(mode, k, x) =< y /\ (x < Count(k) => y < Bound(mode, k, x + 1))
        BY <4>3, Zenon DEF Within
      <4>5. Whole(mode, k, y) = x
        BY <4>4, WholeIs
      <4> QED
        BY <4>1, <4>2, <4>5, Zenon
    <3> QED
      BY <2>12, <3>3, <3>4, Zenon DEF Furthered
  <2> QED
    BY <2>14, <2>15, <2>16
<1> QED
  BY <1>1, <1>2

(* What a read brings gets its connection further.                         *)
LEMMA OrderOfServing ==
  ASSUME IInv, Orderly, NEW i \in Slots, ServeClient(i)
  PROVE  Orderly'
<1>1. /\ Simple /\ Placed(status, running, slots) /\ Occupied(config, hooks, slots)
      /\ Memories(config, history)
  BY Parts
<1>2. PICK k : k = slots[i].of
  OBVIOUS
<1>3. k # None /\ Left(k) # <<>> /\ UNCHANGED <<config, running, hooks, changes>>
  BY <1>2, Zenon DEF ServeClient, HasInput, Serves
<1>4. PICK size, n, o :
        /\ size \in ReadSizes
        /\ n = Min({size, Len(Left(k))}) /\ o \in Outcomes(slots[i].session, SubSeq(Left(k), 1, n))
        /\ Reading(i, k, n, o)
  <2>1. \E size \in ReadSizes : \E n \in {Min({size, Len(Left(slots[i].of))})} :
          \E o \in Outcomes(slots[i].session, SubSeq(Left(slots[i].of), 1, n)) :
            Reading(i, slots[i].of, n, o)
    BY Zenon DEF ServeClient, Reading
  <2> QED
    BY <1>2, <2>1, Zenon
<1>5. k \in Connections
  BY <1>1, <1>2, <1>3, Zenon DEF Placed, Lively
<1>6. PICK place \in Places : place = slots[i] /\ Attends(place, config, hooks)
  BY <1>1, Zenon DEF Occupied
<1>7. PICK session \in Session : session = slots[i].session
  BY <1>6, PlaceFields, Zenon
<1>8. Settled(session) /\ session.config = config
  BY <1>6, <1>7, Zenon DEF Attends
<1>9. PICK S \in Seq(Nat) : S = Streams[config.mode][k]
  BY <1>1, <1>5, StreamType, Zenon DEF Stream, Simple
<1>10. Remembered(config, k, history[k])
  BY <1>1, <1>5, Zenon DEF Memories
<1>11. PICK h \in Histories : h = history[k]
  BY <1>10, Zenon DEF Remembered
<1>12. PICK fed \in 0..Len(S) : fed = h.fed
  BY <1>9, <1>10, <1>11, Zenon DEF Remembered
<1>13. PICK left : left = Left(k)
  OBVIOUS
<1>14. left = SubSeq(S, fed + 1, Len(S)) /\ left # <<>>
  BY <1>3, <1>9, <1>11, <1>12, <1>13, Zenon DEF Left, Stream
<1>15. PICK data : data = SubSeq(left, 1, n)
  OBVIOUS
<1>16. n \in Nat /\ fed + n \in 0..Len(S) /\ data \in Seq(Nat)
  <2>1. size \in Nat \ {0}
    BY <1>4, Bounds
  <2>2. n = Min({size, Len(left)})
    BY <1>4, <1>13, Zenon
  <2> QED
    BY <1>14, <1>15, <2>1, <2>2, ReadTakes, Zenon
<1>17. Len(data) = n /\ Follows(data, S, fed) /\ fed + n =< Len(S)
  <2>1. fed + n =< Len(S)
    BY <1>16
  <2>2. n \in Nat /\ fed + n \in 0..Len(S) /\ left = SubSeq(S, fed + 1, Len(S))
    BY <1>14, <1>16, Zenon
  <2>3. Follows(data, S, fed)
    BY <1>15, <2>2, ReadFollows, Zenon
  <2>4. fed \in Nat /\ fed =< Len(S) /\ Len(S) \in Nat
    OBVIOUS
  <2>5. left \in Seq(Nat) /\ Len(left) = Len(S) - fed
    BY <1>14, <2>4, Pieces
  <2>6. n =< Len(left)
    BY <1>16, <2>4, <2>5
  <2>7. Len(SubSeq(left, 1, n)) = n
    BY <1>16, <2>5, <2>6, Pieces
  <2> QED
    BY <1>15, <2>1, <2>3, <2>7, Zenon
<1>18. PICK f : f = o.fed
  OBVIOUS
<1>19. PICK w \in Nat : f = Feed(session, data, w)
  <2>1. o \in Outcomes(session, data)
    BY <1>4, <1>7, <1>13, <1>15, Zenon
  <2> QED
    BY <1>8, <1>16, <1>18, <2>1, OutcomeFed, Zenon
<1>20. PICK reset \in BOOLEAN : reset = (~f.success /\ config.disconnectOnProtocolError)
  OBVIOUS
<1>21. PICK g : g = [fed |-> fed + n, log |-> h.log \o [j \in DOMAIN f.log |-> Noted(f.log[j])],
                     answers |-> IF h.silent \/ o.failed THEN <<>> ELSE h.answers \o f.answers,
                     silent |-> h.silent \/ o.failed, astray |-> h.astray \/ f.returned]
  OBVIOUS
<1>22. history' = [history EXCEPT ![k] = g]
  BY <1>4, <1>11, <1>12, <1>18, <1>21, Zenon DEF Reading
<1>23. PICK p : p = IF reset THEN Free ELSE [of |-> k, session |-> f.session]
  OBVIOUS
<1>24. /\ slots' = [slots EXCEPT ![i] = p]
       /\ \/ ~reset /\ status' = status
          \/ ~reset /\ status' = [status EXCEPT ![k] = "lost"]
          \/ reset /\ status' = [status EXCEPT ![k] = "closed"]
  BY <1>4, <1>18, <1>20, <1>23, Zenon DEF Reading, Become
<1>25. slots \in [Slots -> Places] /\ status \in [Connections -> Statuses] /\ DOMAIN history = Connections
  BY <1>1, Zenon DEF Occupied, Simple, Memories
<1>26. history'[k] = g /\ \A c \in Connections \ {k} : history'[c] = history[c]
  <2>1. history = [c \in Connections |-> history[c]]
    BY <1>1, Zenon DEF Memories
  <2> QED
    BY <1>5, <1>22, <2>1, Zenon
<1>27. slots'[i] = p /\ \A j \in Slots \ {i} : slots'[j] = slots[j]
  BY <1>24, <1>25, Zenon
<1>28. (reset => status'[k] = "closed") /\ \A c \in Connections \ {k} : status'[c] = status[c]
  BY <1>5, <1>24, <1>25, Zenon
<1>29. \A j \in Slots \ {i} : slots[j].of # k
  BY <1>1, <1>2, <1>3, Zenon DEF Placed, Alone
<1>30. config \in Config /\ hooks \in Hooks
  BY <1>1, Bounds, Zenon DEF Simple
<1>31. Furthered(config, k, status'[k], slots', g)
  <2>1. Furthered(config, k, status[k], slots, h)
    BY <1>5, <1>11, Zenon DEF Orderly
  <2>2. \A j \in Slots \ {i} : slots'[j].of # k
    BY <1>27, <1>29, Zenon
  <2>3. Leaving(config, k, h, g, n, f, i, status'[k], slots')
    <3>1. /\ g.fed = h.fed + n /\ g.log = h.log \o [j \in DOMAIN f.log |-> Noted(f.log[j])]
          /\ g.astray = (h.astray \/ f.returned)
      BY <1>12, <1>21, Zenon
    <3>2. CASE ~f.success /\ config.disconnectOnProtocolError
      <4>1. p.of = None /\ status'[k] = "closed"
        BY <1>20, <1>23, <1>28, <3>2, Zenon DEF Free
      <4> QED
        BY <1>27, <2>2, <3>1, <3>2, <4>1, Zenon DEF Leaving
    <3>3. CASE ~(~f.success /\ config.disconnectOnProtocolError)
      <4>1. p.session = f.session
        BY <1>20, <1>23, <3>3, Zenon
      <4> QED
        BY <1>27, <2>2, <3>1, <3>3, <4>1, Zenon DEF Leaving
    <3> QED
      BY <3>2, <3>3
  <2>4. PICK d \in Seq(Nat) : d = data
    BY <1>16
  <2>5. Feeds(config, k, h, slots[i], d, w, f)
    BY <1>2, <1>7, <1>8, <1>9, <1>12, <1>17, <1>19, <2>4, Zenon DEF Feeds
  <2>6. PICK c, sl, sm, st, su :
          c = config /\ sl = slots /\ sm = slots' /\ st = status[k] /\ su = status'[k]
    OBVIOUS
  <2>7. /\ hooks \in Hooks /\ c \in Config /\ Furthered(c, k, st, sl, h) /\ Feeds(c, k, h, sl[i], d, w, f)
        /\ Leaving(c, k, h, g, Len(d), f, i, su, sm)
    BY <1>7, <1>17, <1>19, <1>30, <2>1, <2>3, <2>4, <2>5, <2>6, Zenon
  <2>8. Furthered(c, k, su, sm, g)
    BY <1>5, <2>7, ReadFurthers, Zenon
  <2> QED
    BY <2>6, <2>8, Zenon
<1> SUFFICES ASSUME NEW c \in Connections
             PROVE  Furthered(config', c, status'[c], slots', history'[c])
  BY Zenon DEF Orderly
<1>32. CASE c = k
  BY <1>3, <1>26, <1>31, <1>32, Zenon
<1>33. CASE c # k
  <2>1. Furthered(config, c, status[c], slots, history[c])
    BY Zenon DEF Orderly
  <2>2. \A x : Alike(x, x)
    BY DEF Alike
  <2>3. p.of = None \/ p.of = k
    <3>1. Free.of = None
      BY Zenon DEF Free
    <3> QED
      BY <1>23, <3>1, Zenon
  <2>4. c # None
    BY Bounds
  <2>5. \A j \in Slots : slots'[j].of = c => slots[j].of = c /\ Alike(slots[j].session, slots'[j].session)
    BY <1>27, <1>33, <2>2, <2>3, <2>4, Zenon
  <2>6. status'[c] \in Live => status[c] \in Live
    BY <1>28, <1>33, Zenon
  <2>7. Furthered(config, c, status'[c], slots', history[c])
    BY <2>1, <2>5, <2>6, Undisturbed
  <2> QED
    BY <1>3, <1>26, <1>33, <2>7, Zenon
<1> QED
  BY <1>32, <1>33

(* A connection that has sent nothing.                                     *)
LEMMA OrderInitially ==
  ASSUME Init
  PROVE  Orderly
<1> SUFFICES ASSUME NEW k \in Connections
             PROVE  Furthered(config, k, status[k], slots, history[k])
  BY Zenon DEF Orderly
<1>1. PICK s : s = NewSession(config)
  OBVIOUS
<1>2. s.line = <<>> /\ s.discardUntilNewline = FALSE /\ s.structured = <<>> /\ s.expectedStructuredBytes = 0
  BY <1>1 DEF NewSession
<1>3. config \in Config
  BY Bounds, Zenon DEF Init
<1>4. 0 \in 0..Count(k) /\ Reached(config, k, 0, <<>>, <<>>) /\ Whole(config.mode, k, 0) = 0
  BY <1>2, <1>3, Starts, Zenon
<1>5. history[k] = NoHistory /\ \A i \in Slots : slots[i] = Free
  BY Zenon DEF Init
<1>6. Free.of # k
  BY Bounds DEF Free
<1>7. NoHistory.fed = 0 /\ NoHistory.log = <<>>
  BY DEF NoHistory
<1> QED
  BY <1>4, <1>5, <1>6, <1>7, Zenon DEF Furthered

(* Every step keeps the order.                                             *)
LEMMA StepOrders ==
  ASSUME IInv, Orderly, [Next]_vars
  PROVE  Orderly'
<1>1. CASE Iterate
  <2>1. ASSUME NEW k \in Connections, RefuseClient(k) PROVE Orderly'
    BY <2>1, OrderOfStatus, Zenon
  <2>2. ASSUME NEW k \in Connections, NEW i \in Slots, AcceptClient(k, i) PROVE Orderly'
    BY <2>2, OrderOfAccepting, Zenon
  <2>3. ASSUME NEW i \in Slots, ReapClient(i) PROVE Orderly'
    BY <2>3, OrderOfReaping, Zenon
  <2>4. ASSUME NEW i \in Slots, ServeClient(i) PROVE Orderly'
    BY <2>4, OrderOfServing, Zenon
  <2> QED
    BY <1>1, <2>1, <2>2, <2>3, <2>4, Zenon DEF Iterate
<1>2. CASE Shutdown
  BY <1>2, OrderOfStopping, Zenon
<1>3. CASE Initialize
  BY <1>3, Zenon DEF Initialize, Orderly
<1>4. ASSUME NEW k \in Connections, Connect(k) \/ Lose(k) PROVE Orderly'
  BY <1>4, OrderOfStatus, Zenon
<1>5. ASSUME NEW set \in BOOLEAN, SetPolicy(set) \/ SetResultObserver(set) PROVE Orderly'
  <2>1. hooks \in Hooks
    BY Zenon DEF IInv, TypeOK
  <2>2. [hooks EXCEPT !.policy = set] \in Hooks /\ [hooks EXCEPT !.observer = set] \in Hooks
    BY <2>1, <1>5 DEF Hooks
  <2>3. PICK h \in Hooks : SetHooks(h)
    BY <1>5, <2>2, Zenon DEF SetPolicy, SetResultObserver
  <2> QED
    BY <2>3, OrderOfHooks, Zenon
<1>6. CASE UNCHANGED vars
  BY <1>6, Zenon DEF vars, Orderly
<1> QED
  BY <1>1, <1>2, <1>3, <1>4, <1>5, <1>6, Zenon DEF Next

-----------------------------------------------------------------------------
(* The theorems.                                                           *)

(* Sessions stay fit for Feed and under the server's hooks, histories are  *)
(* made of its calls.                                                      *)
THEOREM Invariance == Spec => []IInv
<1>1. Init => IInv
  BY Initially
<1>2. IInv /\ [Next]_vars => IInv'
  BY StepKeeps
<1> QED
  BY <1>1, <1>2, PTL DEF Spec

(* The types: a slot serves a connection that is open or lost, and no      *)
(* other slot does; none serves one when the server is down.               *)
THEOREM Typing == Spec => []TypeOK
<1>1. IInv => TypeOK
  BY DEF IInv
<1> QED
  BY <1>1, Invariance, PTL

(* However input is cut into reads, however requests are refused, a session *)
(* holds no more than the bound, and waits for no more.                    *)
THEOREM Bounded == Spec => []BoundedInput
<1>1. IInv => BoundedInput
  <2> SUFFICES ASSUME IInv, NEW i \in Slots
               PROVE  LET s == slots[i].session
                      IN  /\ Len(s.line) =< MaximumRequestBytes
                          /\ Len(s.structured) =< MaximumRequestBytes
                          /\ s.expectedStructuredBytes =< MaximumRequestBytes
    BY Zenon DEF BoundedInput
  <2>1. Settled(slots[i].session)
    BY Zenon DEF IInv, Attended, Attends
  <2> QED
    BY <2>1, Zenon DEF Settled
<1> QED
  BY <1>1, Invariance, PTL

(* Whatever is denied or runs is judged, and observed, by the hooks there  *)
(* are when it is done away with.                                          *)
THEOREM UnderHooks == Spec => []HooksInForce
<1>1. IInv => HooksInForce
  <2> SUFFICES ASSUME IInv, NEW k \in Connections, NEW j \in DOMAIN history[k].log
               PROVE  Ruled(history[k].log[j], history[k].log[j].under)
    BY Zenon DEF HooksInForce, Ruled
  <2>1. history[k] \in Histories /\ Recorded(config.mode, history[k])
    BY Zenon DEF IInv, Kept
  <2>2. PICK log \in Seq(Notes) : log = history[k].log
    BY <2>1 DEF Histories
  <2>3. DOMAIN log = 1..Len(log)
    OBVIOUS
  <2> QED
    BY <2>1, <2>2, <2>3, Zenon DEF Recorded
<1> QED
  BY <1>1, Invariance, PTL

(* Every request has its answer, in order, under its number, whatever the  *)
(* script, if a message that fits into a request fits into a field too:    *)
(* the field that holds its length is 32 bits wide.                        *)
THEOREM RequestsAnswered ==
  ASSUME MaximumRequestBytes =< Widest
  PROVE  Spec => []AnswersMatch
<1>1. IInv => AnswersMatch
  <2> SUFFICES ASSUME IInv, NEW k \in Connections, ~history[k].silent
               PROVE  /\ Len(history[k].answers) = Len(history[k].log)
                      /\ \A j \in DOMAIN history[k].log :
                           Answers(history[k].log[j], history[k].answers[j])
    BY Zenon DEF AnswersMatch
  <2>1. history[k] \in Histories /\ Recorded(config.mode, history[k])
    BY Zenon DEF IInv, Kept
  <2>2. PICK log \in Seq(Notes) : log = history[k].log
    BY <2>1 DEF Histories
  <2>3. DOMAIN log = 1..Len(log)
    OBVIOUS
  <2>4. Len(history[k].answers) = Len(log)
        /\ \A j \in 1..Len(log) : Replied(config.mode, log[j], history[k].answers[j])
    BY <2>1, <2>2, Zenon DEF Recorded
  <2> QED
    BY <2>2, <2>3, <2>4, Zenon DEF Replied, Answers
<1> QED
  BY <1>1, Invariance, PTL

(* What a connection sent is done away with request by request, each once  *)
(* and as what it was, however it was cut into reads.  Whoever sends a     *)
(* script whose requests are of their kinds (KindsAssumption) finds them   *)
(* done in its order, until the session drops bytes and stays connected.   *)
THEOREM InOrder == Spec => []RequestsInOrder
<1>1. Init => IInv /\ Orderly
  BY Initially, OrderInitially
<1>2. IInv /\ Orderly /\ [Next]_vars => IInv' /\ Orderly'
  BY StepKeeps, StepOrders
<1>3. IInv /\ Orderly => RequestsInOrder
  <2> SUFFICES ASSUME IInv, Orderly, NEW k \in Connections, NEW log, log = history[k].log,
                      ~(history[k].astray /\ ~config.disconnectOnProtocolError)
               PROVE  \E n \in 0..Len(Script[k]) :
                        /\ Len(Handled(config, k, n)) = Len(log)
                        /\ \A j \in DOMAIN log : Does(config, log[j], k, Handled(config, k, n)[j])
                        /\ status[k] \in {"open", "lost"} => n = Whole(config.mode, k, history[k].fed)
    BY Zenon DEF RequestsInOrder
  <2>1. PICK m \in 0..Count(k) :
          /\ Reached(config, k, m, log, <<>>)
          /\ status[k] \in Live => m = Whole(config.mode, k, history[k].fed)
    BY Zenon DEF Orderly, Furthered
  <2>2. log \in Seq(Notes)
    <3>1. history[k] \in Histories
      BY Zenon DEF IInv, Kept
    <3> QED
      BY <3>1 DEF Histories
  <2>3. DOMAIN log = 1..Len(log) /\ Len(<<>>) = 0 /\ Len(log) + 0 = Len(log)
    BY <2>2
  <2>4. Len(Handled(config, k, m)) = Len(log)
        /\ \A j \in 1..Len(log) : Does(config, log[j], k, Handled(config, k, m)[j])
    BY <2>1, <2>3, Zenon DEF Reached
  <2> QED
    BY <2>1, <2>3, <2>4, Zenon DEF Live, Count
<1> QED
  BY <1>1, <1>2, <1>3, PTL DEF Spec

=============================================================================
