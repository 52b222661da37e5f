--------------------------- MODULE BreakpointProofs ---------------------------
(* Proofs about Breakpoints, for any breakpoints, parameters, edits and      *)
(* sessions.  Every member function concerns one item and the one command or *)
(* answer that is on its way for it; so the invariant says, for an item that *)
(* nobody has acted on where the code loses track (raced), which command or  *)
(* answer that is and what gdb has.                                          *)
EXTENDS Breakpoints, FiniteSetTheorems, SequenceTheorems, TLAPS

(* What is on its way for b in a queue: nothing, or just c.                  *)
NoneOf(q, b) == \A i \in DOMAIN q : q[i].b # b
Sole(q, b, c) == \E i \in DOMAIN q : q[i] = c /\ c.b = b /\ \A j \in DOMAIN q : q[j].b = b => j = i

Answer == [op : Op, b : Bps, id : Nat, params : Params, pending : BOOLEAN, ok : BOOLEAN]
Numbers == [id : Nat, b : Bps, params : Params, pending : BOOLEAN]
Handler == [item : [Bps -> Item], wire : Seq(Command), timer : BOOLEAN]

Insertions == {"insert", "break"}
Changes == {"move", "count", "disable", "enable"}

-----------------------------------------------------------------------------
(* What holds of every item, command and answer. *)

(* Only a breakpoint of b has the number n.                                  *)
Owns(b, n) == n <= last /\ \A t \in table : t.id = n => t.b = b

TableOK ==
  /\ \A t, u \in table : t.id = u.id => t = u
  /\ \A t \in table : t.id \in 1..last
WireOK(w) == ~stale => \A i \in DOMAIN w : Owns(w[i].b, w[i].id)
AnswersOK(s) ==
  \A i \in DOMAIN s : s[i].op \in Insertions /\ s[i].ok => s[i].id # 0 /\ Owns(s[i].b, s[i].id)

Owned(x, b) ==
  /\ x.engine => There(x)
  /\ x.deleting \/ x.state = "RemoveRequested" => x.removed
  /\ x.state = "Dead" => x.deleting
  /\ ~There(x) => x.id = 0 /\ ~x.deleting
  /\ x.engine /\ ~stale => Owns(b, x.id)
Expected(x, w, s, b) ==
  /\ ~There(x) /\ ~x.removed => NoneOf(w, b) /\ NoneOf(s, b)
  /\ There(x) /\ ~x.engine => NoneOf(w, b) /\ (phase # "idle" => NoneOf(s, b))

-----------------------------------------------------------------------------
(* What holds of an item the code has kept track of. *)
Sure(x) == gdb /\ ~stale /\ ~x.refused /\ ~x.astray
NotAsked(x) == ~gdb \/ x.refused
Numbered(b, n) == \A t \in InGdb(b) : t.id = n
Exactly(b, n, p, w) == InGdb(b) = {[id |-> n, b |-> b, params |-> p, pending |-> w]}

(* What the code knows of the breakpoint in gdb.  It does not know the line   *)
(* of a pending one; but unless it is astray that is the line asked for.     *)
Seen(x) == [ line |-> IF x.resp.pending THEN x.params.line ELSE x.resp.line,
             count |-> x.resp.count, enabled |-> x.resp.enabled ]

ItemOK(x) ==
  /\ x.state \notin {"InsertRequested", "RemoveProceeding"}
  /\ x.state \in {"None", "New"} => ~x.engine /\ x.id = 0 /\ x.resp = NoResponse /\ ~x.astray
  /\ x.state \notin {"None", "New", "Dead"} => x.engine /\ phase # "idle"
  /\ x.state = "New" => ~x.removed
  /\ x.deleting <=> x.state = "Dead"
  /\ x.state \in {"Dead", "RemoveRequested"} => x.removed
  /\ x.removed /\ ~x.refused => x.state \in {"None", "Dead", "RemoveRequested"}
  /\ x.odd => x.hurried
  /\ x.state \in {"Inserted", "ChangeProceeding"} => x.id # 0

(* Nothing is on its way.                                                    *)
Resting(x, b) ==
  /\ x.state \in {"None", "New", "Dead"} => InGdb(b) = {}
  /\ x.state = "InsertProceeding" => InGdb(b) = {} /\ NotAsked(x)
  /\ x.state = "ChangeProceeding" => ~gdb
  /\ x.state \in {"Inserted", "ChangeRequested", "RemoveRequested"} =>
       IF x.id = 0 THEN InGdb(b) = {} /\ NotAsked(x) /\ x.hurried
       ELSE /\ Numbered(b, x.id)
            /\ Sure(x) => Exactly(b, x.id, Seen(x), x.resp.pending)
            /\ Sure(x) /\ x.state = "Inserted" => x.params = Seen(x)

Inserting(x) ==
  /\ x.state \in {"InsertProceeding", "ChangeRequested", "RemoveRequested"}
  /\ x.state # "InsertProceeding" => x.hurried /\ x.id = 0
  /\ ~x.astray

Changing(x, op) ==
  /\ x.state = "ChangeProceeding"
  /\ op # "move" /\ ~x.astray => ~Moves(x)
  /\ op \in {"enable", "disable"} =>
       /\ x.params.count = x.resp.count
       /\ op = "enable" <=> x.params.enabled

(* In gdb while the answer to a change is still to come.                     *)
Before(x, b) ==
  Sure(x) => \E n \in {x.resp.count, x.params.count} :
               Exactly(b, x.id, [Seen(x) EXCEPT !.count = n], x.resp.pending)

(* The command c is on its way. *)
Sent(x, b, c) ==
  \/ /\ c.op \in Insertions /\ Inserting(x) /\ InGdb(b) = {}
     /\ c.op = "break" => x.refused
     /\ ~x.refused => c.params.count = x.params.count
  \/ /\ c.op \in Changes /\ Changing(x, c.op) /\ c.id = x.id /\ c.params = x.params
     /\ Numbered(b, x.id) /\ Before(x, b)
  \/ /\ c.op = "delete" /\ x.state \in {"Dead", "None"} /\ x.removed /\ Numbered(b, c.id)

(* gdb has answered a, and nobody has read it. *)
Unread(x, b, a) ==
  \/ /\ a.op \in Insertions /\ Inserting(x)
     /\ a.op = "break" => x.refused
     /\ ~x.refused => a.params.count = x.params.count
     /\ a.ok => Numbered(b, a.id) /\ (Sure(x) => Exactly(b, a.id, a.params, a.pending))
     /\ ~a.ok => x.refused /\ InGdb(b) = {}
  \/ a.op = "move" /\ Changing(x, a.op) /\ InGdb(b) = {}
  \/ /\ a.op = "count" /\ Changing(x, a.op) /\ Numbered(b, x.id)
     /\ Sure(x) => Exactly(b, x.id, [Seen(x) EXCEPT !.count = x.params.count], x.resp.pending)
  \/ /\ a.op \in {"enable", "disable"} /\ Changing(x, a.op) /\ Numbered(b, x.id)
     /\ Sure(x) => Exactly(b, x.id, x.params, x.resp.pending)
  \/ a.op = "delete" /\ x.state \in {"Dead", "None"} /\ x.removed /\ InGdb(b) = {}

Tracked(x, w, s, b) ==
  /\ ItemOK(x)
  /\ \/ NoneOf(w, b) /\ NoneOf(s, b) /\ Resting(x, b)
     \/ \E c \in ToSet(w) : Sole(w, b, c) /\ NoneOf(s, b) /\ Sent(x, b, c)
     \/ \E a \in ToSet(s) : NoneOf(w, b) /\ Sole(s, b, a) /\ Unread(x, b, a)

(* What is requested waits for an answer, for a synchronization, or in vain. *)
Settled(x, w, s, b) ==
  gdb /\ ~x.refused /\ NoneOf(w, b) /\ NoneOf(s, b)
    => x.state \notin {"New", "ChangeRequested", "RemoveRequested"}
Due(x, w, s, t, b) == phase \in {"prepared", "starting", "live"} /\ ~t => Settled(x, w, s, b)

Held(e, s, b) ==
  LET x == e.item[b] w == e.wire IN
  Owned(x, b) /\ Expected(x, w, s, b) /\ (x.raced \/ Tracked(x, w, s, b))
Good(e, s, b) ==
  Held(e, s, b) /\ (e.item[b].raced \/ Due(e.item[b], e.wire, s, e.timer, b))

Sound(e, s) ==
  /\ e \in Handler /\ s \in Seq(Answer)
  /\ ~gdb => e.wire = <<>>
  /\ WireOK(e.wire) /\ AnswersOK(s)
  /\ \A b \in Bps : Good(e, s, b)

World ==
  /\ phase \in Phase /\ gdb \in BOOLEAN /\ table \subseteq Numbers /\ last \in Nat /\ stale \in BOOLEAN
  /\ edits \in 0..MaxEdits /\ sessions \in 0..MaxSessions
  /\ phase = "idle" => ~gdb
  /\ ~gdb => table = {}
  /\ TableOK

IInv == World /\ Sound(h, answers)

-----------------------------------------------------------------------------
(* Queues. *)
SameFor(q, r, b) ==
  /\ NoneOf(q, b) <=> NoneOf(r, b)
  /\ \A c \in ToSet(q) : Sole(q, b, c) => Sole(r, b, c)

LEMMA SoleIsIn ==
  ASSUME NEW q, NEW b, NEW c, Sole(q, b, c)
  PROVE  c \in ToSet(q) /\ c.b = b /\ ~NoneOf(q, b)
BY DEF Sole, ToSet, NoneOf

LEMMA OnlyOneIsSole ==
  ASSUME NEW q, NEW b, NEW c, NEW d, Sole(q, b, c), Sole(q, b, d)
  PROVE  c = d
BY DEF Sole

LEMMA SameForItself == ASSUME NEW q, NEW b PROVE SameFor(q, q, b)
BY DEF SameFor

LEMMA NothingInEmpty ==
  ASSUME NEW b
  PROVE  NoneOf(<<>>, b) /\ ToSet(<<>>) = {}
BY DEF NoneOf, ToSet

LEMMA OneIsSole ==
  ASSUME NEW b, NEW c, c.b = b
  PROVE  Sole(<<c>>, b, c)
BY DEF Sole

(* What is put behind a queue. *)
LEMMA Behind ==
  ASSUME NEW S, NEW q \in Seq(S), NEW r \in Seq(S), NEW b
  PROVE  /\ q \o r \in Seq(S)
         /\ NoneOf(r, b) => SameFor(q, q \o r, b)
         /\ NoneOf(q, b) => \A c : Sole(r, b, c) => Sole(q \o r, b, c)
         /\ \A i \in DOMAIN (q \o r) : (\E j \in DOMAIN q : (q \o r)[i] = q[j])
                                        \/ (\E j \in DOMAIN r : (q \o r)[i] = r[j])
<1>1. /\ q \o r \in Seq(S) /\ Len(q) \in Nat /\ Len(r) \in Nat
      /\ DOMAIN q = 1..Len(q) /\ DOMAIN r = 1..Len(r)
      /\ DOMAIN (q \o r) = 1..(Len(q) + Len(r))
      /\ \A i \in 1..(Len(q) + Len(r)) :
           (q \o r)[i] = IF i <= Len(q) THEN q[i] ELSE r[i - Len(q)]
  BY ConcatProperties, LenProperties
<1> DEFINE qr == q \o r
<1>2. \A i \in DOMAIN q : i \in DOMAIN qr /\ qr[i] = q[i]
  BY <1>1
<1>3. \A j \in DOMAIN r : j + Len(q) \in DOMAIN qr /\ qr[j + Len(q)] = r[j]
  BY <1>1
<1>4. \A i \in DOMAIN qr : \/ i \in DOMAIN q /\ qr[i] = q[i]
                           \/ i - Len(q) \in DOMAIN r /\ qr[i] = r[i - Len(q)]
  BY <1>1
<1>5. \A i \in DOMAIN qr : i \in Int
  BY <1>1
<1> HIDE DEF qr
<1>6. NoneOf(r, b) => SameFor(q, qr, b)
  BY <1>2, <1>4 DEF SameFor, NoneOf, Sole
<1>7. NoneOf(q, b) => \A c : Sole(r, b, c) => Sole(qr, b, c)
  <2> SUFFICES ASSUME NoneOf(q, b), NEW c, Sole(r, b, c) PROVE Sole(qr, b, c)
    OBVIOUS
  <2>1. PICK k \in DOMAIN r : r[k] = c /\ c.b = b /\ \A j \in DOMAIN r : r[j].b = b => j = k
    BY DEF Sole
  <2>2. k + Len(q) \in DOMAIN qr /\ qr[k + Len(q)] = c
    BY <2>1, <1>3
  <2>3. ASSUME NEW j \in DOMAIN qr, qr[j].b = b PROVE j = k + Len(q)
    <3>1. j - Len(q) \in DOMAIN r /\ qr[j] = r[j - Len(q)]
      BY <1>4, <2>3 DEF NoneOf
    <3>2. j - Len(q) = k
      BY <3>1, <2>1, <2>3
    <3> QED BY <3>2, <1>1, <1>5, <2>3
  <2> QED BY <2>1, <2>2, <2>3 DEF Sole
<1> QED BY <1>1, <1>4, <1>6, <1>7 DEF qr

LEMMA OneMore ==
  ASSUME NEW S, NEW q \in Seq(S), NEW d \in S, NEW b
  PROVE  /\ Append(q, d) \in Seq(S)
         /\ d.b # b => SameFor(q, Append(q, d), b)
         /\ d.b = b /\ NoneOf(q, b) => Sole(Append(q, d), b, d)
         /\ \A i \in DOMAIN Append(q, d) : (\E j \in DOMAIN q : Append(q, d)[i] = q[j])
                                          \/ Append(q, d)[i] = d
<1>1. <<d>> \in Seq(S) /\ Append(q, d) = q \o <<d>>
  OBVIOUS
<1>2. DOMAIN <<d>> = {1} /\ <<d>>[1] = d
  OBVIOUS
<1>3. d.b # b => NoneOf(<<d>>, b)
  BY <1>2 DEF NoneOf
<1>4. d.b = b => Sole(<<d>>, b, d)
  BY OneIsSole
<1> DEFINE one == <<d>>
<1>5. one \in Seq(S) /\ Append(q, d) = q \o one /\ DOMAIN one = {1} /\ one[1] = d
      /\ (d.b # b => NoneOf(one, b)) /\ (d.b = b => Sole(one, b, d))
  BY <1>1, <1>2, <1>3, <1>4
<1> HIDE DEF one
<1>6. /\ q \o one \in Seq(S)
      /\ NoneOf(one, b) => SameFor(q, q \o one, b)
      /\ NoneOf(q, b) => \A c : Sole(one, b, c) => Sole(q \o one, b, c)
      /\ \A i \in DOMAIN (q \o one) : (\E j \in DOMAIN q : (q \o one)[i] = q[j])
                                       \/ (\E j \in DOMAIN one : (q \o one)[i] = one[j])
  BY <1>5, Behind
<1> QED BY <1>5, <1>6

(* What is left of a queue. *)
LEMMA OneLess ==
  ASSUME NEW S, NEW q \in Seq(S), q # <<>>, NEW b
  PROVE  /\ Tail(q) \in Seq(S) /\ Head(q) \in S /\ Head(q) \in ToSet(q)
         /\ Head(q).b # b => SameFor(q, Tail(q), b)
         /\ Head(q).b = b => ~NoneOf(q, b)
         /\ \A c : Head(q).b = b /\ Sole(q, b, c) => c = Head(q) /\ NoneOf(Tail(q), b)
         /\ \A i \in DOMAIN Tail(q) : \E j \in DOMAIN q : Tail(q)[i] = q[j]
<1>1. /\ Tail(q) \in Seq(S) /\ Head(q) \in S /\ Len(q) \in Nat \ {0} /\ Head(q) = q[1]
      /\ DOMAIN q = 1..Len(q) /\ DOMAIN Tail(q) = 1..(Len(q) - 1)
      /\ \A i \in 1..(Len(q) - 1) : Tail(q)[i] = q[i + 1]
  BY HeadTailProperties, LenProperties, EmptySeq
<1> DEFINE r == Tail(q)
<1>2. \A i \in DOMAIN r : i + 1 \in DOMAIN q /\ i + 1 # 1 /\ r[i] = q[i + 1]
  BY <1>1
<1>3. 1 \in DOMAIN q
  BY <1>1
<1>4. \A i \in DOMAIN q : i = 1 \/ (i - 1 \in DOMAIN r /\ r[i - 1] = q[i])
  BY <1>1
<1>5. \A i \in DOMAIN q : i \in Int
  BY <1>1
<1>6. Head(q) = q[1] /\ r \in Seq(S) /\ Head(q) \in S
  BY <1>1
<1>7. Head(q) \in ToSet(q)
  BY <1>3, <1>6 DEF ToSet
<1>i. \A i \in DOMAIN r : i \in Int
  BY <1>1
<1> HIDE DEF r
<1>8. Head(q).b # b => SameFor(q, r, b)
  <2> SUFFICES ASSUME q[1].b # b PROVE SameFor(q, r, b)
    BY <1>6
  <2>1. NoneOf(q, b) <=> NoneOf(r, b)
    BY <1>2, <1>4 DEF NoneOf
  <2>2. ASSUME NEW c, Sole(q, b, c) PROVE Sole(r, b, c)
    <3>1. PICK k \in DOMAIN q : q[k] = c /\ c.b = b /\ \A j \in DOMAIN q : q[j].b = b => j = k
      BY <2>2 DEF Sole
    <3>2. k - 1 \in DOMAIN r /\ r[k - 1] = c
      BY <3>1, <1>4
    <3>3. ASSUME NEW j \in DOMAIN r, r[j].b = b PROVE j = k - 1
      <4>1. j + 1 = k
        BY <3>3, <3>1, <1>2
      <4> QED BY <4>1, <1>5, <1>i
    <3> QED BY <3>1, <3>2, <3>3 DEF Sole
  <2> QED BY <2>1, <2>2 DEF SameFor
<1>9. Head(q).b = b => ~NoneOf(q, b)
  BY <1>3, <1>6 DEF NoneOf
<1>10. \A c : Head(q).b = b /\ Sole(q, b, c) => c = Head(q) /\ NoneOf(r, b)
  BY <1>2, <1>3, <1>6 DEF Sole, NoneOf
<1> QED BY <1>2, <1>6, <1>7, <1>8, <1>9, <1>10 DEF r

-----------------------------------------------------------------------------
(* Items. *)
LEMMA Parameters ==
  /\ \A p \in Inputs : p \in Params
  /\ \A p \in Params : p.line # 0
  /\ NoResponse \in Response /\ Absent \in Item /\ Absent.params \in Params
BY ParametersAssumption DEF Params, Response, NoResponse, Absent, Item, BreakpointState

View == [line : Lines \cup {0}, count : Counts, enabled : BOOLEAN]

(* What the code knows, and what it still has to change.                     *)
LEMMA Seeing ==
  ASSUME NEW x \in Item
  PROVE  /\ Seen(x) \in View /\ x.params \in View
         /\ Differs(x) <=> x.params # Seen(x)
         /\ Moves(x) <=> x.params.line # Seen(x).line
         /\ Seen(x).count = x.resp.count /\ Seen(x).enabled = x.resp.enabled
         /\ [Seen(x) EXCEPT !.count = x.resp.count] = Seen(x)
<1>1. x.params \in Params /\ x.resp \in Response
  BY DEF Item
<1>2. /\ Seen(x) \in View /\ x.params \in View
      /\ Seen(x).count = x.resp.count /\ Seen(x).enabled = x.resp.enabled
      /\ Moves(x) <=> x.params.line # Seen(x).line
  BY <1>1 DEF Seen, View, Params, Response, Moves
<1>3. \A v, w \in View : v = w <=> v.line = w.line /\ v.count = w.count /\ v.enabled = w.enabled
  BY DEF View
<1>4. Differs(x) <=> x.params # Seen(x)
  BY <1>2, <1>3 DEF Differs
<1>5. [Seen(x) EXCEPT !.count = x.resp.count] = Seen(x)
  BY <1>2 DEF View
<1> QED BY <1>2, <1>4, <1>5

LEMMA SeenAlike ==
  ASSUME NEW x, NEW y, x.params = y.params, x.resp = y.resp
  PROVE  Seen(y) = Seen(x) /\ (Moves(y) <=> Moves(x)) /\ (Differs(y) <=> Differs(x))
BY DEF Seen, Moves, Differs

(* What gotoState leaves of an item. *)
LEMMA Going ==
  ASSUME NEW x \in Item, NEW to \in BreakpointState, NEW assumed \in BreakpointState
  PROVE  LET y == GotoState(x, to, assumed) IN
         /\ y \in Item /\ y.state = to /\ y.params = x.params /\ y.engine = x.engine /\ y.id = x.id
         /\ y.resp = x.resp /\ y.deleting = x.deleting /\ y.removed = x.removed
         /\ y.hurried = x.hurried /\ y.raced = x.raced /\ y.refused = x.refused /\ y.astray = x.astray
         /\ y.odd <=> x.odd \/ x.state # assumed \/ ~IsAllowedTransition(x.state, to)
BY DEF GotoState, SetState, Item

(* A function that runs a command for b. *)
Yields(d, b) ==
  /\ d.item \in Item
  /\ d.sent = <<>> \/ \E c \in Command : c.b = b /\ d.sent = <<c>> /\ AcceptsCommands /\ gdb

Sends(d, c) == d.sent = IF AcceptsCommands /\ gdb THEN <<c>> ELSE <<>>

LEMMA JustSent ==
  ASSUME NEW d, NEW c, Sends(d, c)
  PROVE  /\ \A e : d.sent = <<e>> => e = c
         /\ d.sent = <<>> <=> ~(AcceptsCommands /\ gdb)
         /\ d.sent # <<>> => d.sent = <<c>>
BY DEF Sends

(* What a function that leaves the rest of x alone leaves alone. *)
Alike(x, y) ==
  /\ x.params = y.params /\ x.engine = y.engine /\ x.removed = y.removed
  /\ x.hurried = y.hurried /\ x.raced = y.raced /\ x.refused = y.refused /\ x.astray = y.astray

LEMMA InsertsItem ==
  ASSUME NEW x \in Item, NEW b \in Bps
  PROVE  LET d == InsertBreakpoint(x, b) y == d.item IN
         /\ Yields(d, b) /\ Alike(x, y) /\ y.state = "InsertProceeding"
         /\ y.id = x.id /\ y.resp = x.resp /\ y.deleting = x.deleting
         /\ y.odd <=> x.odd \/ x.state # "InsertRequested"
         /\ Sends(d, Cmd("insert", b, 0, x.params))
<1>1. Cmd("insert", b, 0, x.params) \in Command /\ Cmd("insert", b, 0, x.params).b = b
  BY DEF Cmd, Command, Op, Item
<1>2. "InsertProceeding" \in BreakpointState /\ "InsertRequested" \in BreakpointState
  BY DEF BreakpointState
<1>3. x.state = "InsertRequested" => IsAllowedTransition(x.state, "InsertProceeding")
  BY DEF IsAllowedTransition
<1> QED BY <1>1, <1>2, <1>3, Going DEF InsertBreakpoint, RunCommand, Yields, Alike, Sends

LEMMA DeletesItem ==
  ASSUME NEW x \in Item, NEW b \in Bps, NEW n \in Nat
  PROVE  LET d == DeleteInGdb(x, b, n) y == d.item IN
         /\ Yields(d, b) /\ Alike(x, y) /\ y.state = "Dead" /\ y.id = x.id /\ y.resp = x.resp
         /\ y.deleting
         /\ y.odd <=> x.odd \/ x.state # "RemoveRequested"
         /\ Sends(d, Cmd("delete", b, n, x.params))
<1>1. Cmd("delete", b, n, x.params) \in Command /\ Cmd("delete", b, n, x.params).b = b
  BY DEF Cmd, Command, Op, Item
<1> DEFINE y == GotoState(x, "RemoveProceeding", "RemoveRequested")
           z == DeleteThis(y)
<1>2. /\ y \in Item /\ y.state = "RemoveProceeding" /\ Alike(x, y) /\ y.id = x.id /\ y.resp = x.resp
      /\ y.odd <=> x.odd \/ x.state # "RemoveRequested"
  <2>1. "RemoveProceeding" \in BreakpointState /\ "RemoveRequested" \in BreakpointState
    BY DEF BreakpointState
  <2>2. x.state = "RemoveRequested" => IsAllowedTransition(x.state, "RemoveProceeding")
    BY DEF IsAllowedTransition
  <2> QED BY <2>1, <2>2, Going DEF Alike
<1>3. DeleteInGdb(x, b, n) = RunCommand(z, Cmd("delete", b, n, x.params))
  BY DEF DeleteInGdb
<1> HIDE DEF y
<1>4. IsAllowedTransition("RemoveProceeding", "Dead")
  BY DEF IsAllowedTransition
<1>5. /\ z \in Item /\ Alike(y, z) /\ z.state = "Dead" /\ z.id = y.id /\ z.resp = y.resp /\ z.deleting
      /\ z.odd <=> y.odd
  BY <1>2, <1>4 DEF DeleteThis, SetState, Item, BreakpointState, Alike
<1> HIDE DEF z
<1> QED BY <1>1, <1>2, <1>3, <1>5 DEF RunCommand, Yields, Alike, Sends

LEMMA ChangesOf ==
  ASSUME NEW x \in Item, Differs(x)
  PROVE  LET op == ChangeOp(x) IN
         /\ op \in Changes /\ op \in Op /\ op \notin Insertions /\ op # "delete" /\ op # "other"
         /\ op # "move" => ~Moves(x)
         /\ op \in {"enable", "disable"} =>
              /\ x.params.count = x.resp.count
              /\ op = "enable" <=> x.params.enabled
BY DEF ChangeOp, Changes, Op, Insertions, Differs

LEMMA ChangesItem ==
  ASSUME NEW x \in Item, NEW b \in Bps
  PROVE  LET d == ChangeBreakpoint(x, b) y == d.item IN
         /\ Yields(d, b) /\ Alike(x, y) /\ y.id = x.id /\ y.resp = x.resp /\ y.deleting = x.deleting
         /\ x.id = 0 => y = x /\ d.sent = <<>>
         /\ x.id # 0 /\ ~Differs(x) => y.state = "Inserted" /\ d.sent = <<>>
         /\ x.id # 0 /\ Differs(x) =>
              /\ y.state = IF x.state = "ChangeRequested" THEN "ChangeProceeding" ELSE x.state
              /\ Sends(d, Cmd(ChangeOp(x), b, x.id, x.params))
         /\ x.id # 0 => (y.odd <=> x.odd \/ x.state \notin {"ChangeRequested", "ChangeProceeding"})
<1> DEFINE y == IF x.state = "ChangeRequested"
                THEN GotoState(x, "ChangeProceeding", "ChangeRequested")
                ELSE [x EXCEPT !.odd = @ \/ x.state # "ChangeProceeding"]
           z == GotoState(y, "Inserted", "ChangeProceeding")
           c == Cmd(ChangeOp(x), b, x.id, x.params)
<1>1. "ChangeProceeding" \in BreakpointState /\ "ChangeRequested" \in BreakpointState
      /\ "Inserted" \in BreakpointState
  BY DEF BreakpointState
<1>2. IsAllowedTransition("ChangeRequested", "ChangeProceeding")
      /\ IsAllowedTransition("ChangeProceeding", "Inserted")
  BY DEF IsAllowedTransition
<1>3. /\ y \in Item /\ Alike(x, y) /\ y.id = x.id /\ y.resp = x.resp /\ y.deleting = x.deleting
      /\ y.state = IF x.state = "ChangeRequested" THEN "ChangeProceeding" ELSE x.state
      /\ y.odd <=> x.odd \/ x.state \notin {"ChangeRequested", "ChangeProceeding"}
  <2>1. CASE x.state = "ChangeRequested"
    <3> DEFINE g == GotoState(x, "ChangeProceeding", "ChangeRequested")
    <3>1. /\ g \in Item /\ Alike(x, g) /\ g.id = x.id /\ g.resp = x.resp /\ g.deleting = x.deleting
          /\ g.state = "ChangeProceeding"
          /\ g.odd <=> x.odd \/ x.state # "ChangeRequested" \/ ~IsAllowedTransition(x.state, "ChangeProceeding")
      BY <1>1, Going DEF Alike
    <3>2. y = g
      BY <2>1
    <3> HIDE DEF g, y
    <3> QED BY <3>1, <3>2, <2>1, <1>2
  <2>2. CASE x.state # "ChangeRequested"
    BY <2>2 DEF Alike, Item
  <2> QED BY <2>1, <2>2
<1>4. ChangeBreakpoint(x, b) =
        IF x.id = 0 THEN Quietly(x)
        ELSE IF Differs(x) THEN RunCommand(y, c) ELSE Quietly(z)
  BY DEF ChangeBreakpoint
<1>5. Differs(x) => c \in Command /\ c.b = b
  <2>1. x.params \in Params /\ x.resp \in Response /\ x.id \in Nat
    BY DEF Item
  <2> QED BY <2>1, ChangesOf DEF Cmd, Command
<1> HIDE DEF y, c
<1>6. /\ z \in Item /\ Alike(y, z) /\ z.id = y.id /\ z.resp = y.resp /\ z.deleting = y.deleting
      /\ z.state = "Inserted"
      /\ z.odd <=> y.odd \/ y.state # "ChangeProceeding"
  <2>0. y \in Item
    BY <1>3
  <2>1. /\ z \in Item /\ Alike(y, z) /\ z.id = y.id /\ z.resp = y.resp /\ z.deleting = y.deleting
        /\ z.state = "Inserted"
        /\ z.odd <=> y.odd \/ y.state # "ChangeProceeding" \/ ~IsAllowedTransition(y.state, "Inserted")
    BY <1>1, <2>0, Going DEF Alike
  <2> HIDE DEF z
  <2> QED BY <2>1, <1>2
<1> HIDE DEF z
<1>7. CASE x.id = 0
  BY <1>7, <1>4 DEF Quietly, Yields, Alike
<1>8. CASE x.id # 0 /\ Differs(x)
  BY <1>8, <1>3, <1>4, <1>5 DEF RunCommand, Yields, Sends, c
<1>9. CASE x.id # 0 /\ ~Differs(x)
  <2>1. z.odd <=> x.odd \/ x.state \notin {"ChangeRequested", "ChangeProceeding"}
    BY <1>3, <1>6
  <2>2. Alike(x, z)
    BY <1>3, <1>6 DEF Alike
  <2>3. ChangeBreakpoint(x, b) = Quietly(z)
    BY <1>4, <1>9
  <2> QED BY <1>9, <1>3, <1>6, <2>1, <2>2, <2>3 DEF Quietly, Yields
<1> QED BY <1>7, <1>8, <1>9

LEMMA NoNumber ==
  ASSUME last \in Nat, TableOK, NEW b \in Bps
  PROVE  Owns(b, 0)
BY DEF Owns, TableOK

LEMMA Claiming ==
  ASSUME last \in Nat, TableOK, NEW x \in Item, NEW b \in Bps, Owned(x, b)
  PROVE  LET y == Claim(x) IN
         /\ y \in Item /\ Owned(y, b) /\ (There(y) <=> There(x)) /\ (There(y) => y.engine)
         /\ y.removed = x.removed /\ (x.raced => y.raced)
         /\ x.engine \/ ~There(x) => y = x
         /\ There(x) /\ ~x.engine =>
              /\ y.state = "InsertRequested" /\ y.id = 0 /\ y.resp = NoResponse
              /\ y.params = x.params /\ y.hurried = x.hurried /\ y.refused = x.refused
              /\ y.astray = x.astray /\ y.deleting = x.deleting
              /\ y.odd <=> x.odd \/ x.state # "New"
              /\ y.raced <=> x.raced \/ x.deleting
<1>1. Owns(b, 0)
  BY NoNumber
<1>2. CASE There(x) /\ ~x.engine
  <2> DEFINE y == SetEngine(x)
  <2>1. Claim(x) = y
    BY <1>2 DEF Claim
  <2>2. /\ y \in Item /\ y.state = "InsertRequested" /\ y.id = 0 /\ y.resp = NoResponse /\ y.engine
        /\ y.params = x.params /\ y.hurried = x.hurried /\ y.refused = x.refused
        /\ y.astray = x.astray /\ y.deleting = x.deleting /\ y.removed = x.removed
        /\ y.odd <=> x.odd \/ x.state # "New"
        /\ y.raced <=> x.raced \/ x.deleting
    BY Parameters DEF SetEngine, Item, BreakpointState
  <2> HIDE DEF y
  <2> QED BY <1>1, <1>2, <2>1, <2>2 DEF Owned, There
<1>3. CASE ~(There(x) /\ ~x.engine)
  BY <1>3 DEF Claim, Owned
<1> QED BY <1>2, <1>3

(* Whatever has happened to an item, a synchronization asks gdb for nothing  *)
(* but what belongs to it.                                                   *)
LEMMA VisitIsSafe ==
  ASSUME last \in Nat, TableOK, NEW x \in Item, NEW b \in Bps, Owned(x, b)
  PROVE  LET d == SynchronizeOne(Claim(x), b) y == d.item IN
         /\ Yields(d, b) /\ Owned(y, b) /\ (There(y) <=> There(x)) /\ (There(y) => y.engine)
         /\ y.removed = x.removed /\ (x.raced => y.raced)
         /\ ~There(x) => d.sent = <<>>
         /\ ~stale => \A c \in Command : d.sent = <<c>> => Owns(b, c.id)
<1> DEFINE z == Claim(x)
<1>1. /\ z \in Item /\ Owned(z, b) /\ (There(z) <=> There(x)) /\ (There(z) => z.engine)
      /\ z.removed = x.removed /\ (x.raced => z.raced)
  BY Claiming
<1> HIDE DEF z
<1> DEFINE d == SynchronizeOne(z, b)
<1>0. Owns(b, 0) /\ z \in Item
  BY <1>1, NoNumber
<1>z. z \in Item
  BY <1>1
<1> SUFFICES /\ Yields(d, b) /\ Owned(d.item, b) /\ (There(d.item) <=> There(z))
             /\ (There(d.item) => d.item.engine)
             /\ d.item.removed = z.removed /\ (z.raced => d.item.raced)
             /\ ~There(z) => d.sent = <<>>
             /\ ~stale => \A c \in Command : d.sent = <<c>> => Owns(b, c.id)
  BY <1>1 DEF z
<1>2. CASE z.state = "InsertRequested"
  <2> DEFINE f == InsertBreakpoint(z, b)
  <2>1. /\ Yields(f, b) /\ Alike(z, f.item) /\ f.item.state = "InsertProceeding"
        /\ f.item.id = z.id /\ f.item.deleting = z.deleting
        /\ Sends(f, Cmd("insert", b, 0, z.params))
    BY <1>z, InsertsItem
  <2>3. \A c : f.sent = <<c>> => c.id = 0
    BY <2>1, JustSent DEF Cmd
  <2>2. d = f
    BY <1>2 DEF SynchronizeOne
  <2> HIDE DEF d, f
  <2> QED BY <1>0, <1>1, <1>2, <2>1, <2>2, <2>3 DEF Owned, There, Alike
<1>3. CASE z.state = "ChangeRequested"
  <2> DEFINE f == ChangeBreakpoint(z, b)
  <2>1. /\ Yields(f, b) /\ Alike(z, f.item) /\ f.item.id = z.id /\ f.item.deleting = z.deleting
        /\ f.item.state \in {"ChangeRequested", "ChangeProceeding", "Inserted"}
        /\ f.sent = <<>> \/ Sends(f, Cmd(ChangeOp(z), b, z.id, z.params))
    BY <1>z, <1>3, ChangesItem
  <2>3. \A c : f.sent = <<c>> => c.id = z.id
    BY <2>1, JustSent DEF Cmd
  <2>2. d = f
    BY <1>3 DEF SynchronizeOne
  <2> HIDE DEF d, f
  <2> QED BY <1>1, <1>3, <2>1, <2>2, <2>3 DEF Owned, There, Alike
<1>4. CASE z.state = "RemoveRequested" /\ z.id # 0
  <2> DEFINE f == DeleteInGdb(z, b, z.id)
  <2>0. z.id \in Nat
    BY <1>z DEF Item
  <2>1. /\ Yields(f, b) /\ Alike(z, f.item) /\ f.item.id = z.id /\ f.item.deleting
        /\ f.item.state = "Dead"
        /\ Sends(f, Cmd("delete", b, z.id, z.params))
    BY <1>z, <2>0, DeletesItem
  <2>3. \A c : f.sent = <<c>> => c.id = z.id
    BY <2>1, JustSent DEF Cmd
  <2>2. d = f
    BY <1>4 DEF SynchronizeOne, RemoveBreakpoint
  <2> HIDE DEF d, f
  <2> QED BY <1>1, <1>4, <2>1, <2>2, <2>3 DEF Owned, There, Alike
<1>5. CASE ~(z.state \in {"InsertRequested", "ChangeRequested"})
           /\ ~(z.state = "RemoveRequested" /\ z.id # 0)
  <2>1. d = Quietly(z)
    BY <1>5 DEF SynchronizeOne, RemoveBreakpoint
  <2>2. d.item = z /\ d.sent = <<>>
    BY <2>1 DEF Quietly
  <2> HIDE DEF d
  <2> QED BY <1>1, <1>5, <2>2 DEF Yields
<1> QED BY <1>2, <1>3, <1>4, <1>5

(* What a function yields for an item for which nothing is on its way.       *)
Follows(d, b) ==
  /\ ItemOK(d.item)
  /\ d.sent = <<>> => Resting(d.item, b)
  /\ \A c : d.sent = <<c>> => Sent(d.item, b, c)

AtRest(x) == gdb /\ ~x.refused => x.state \notin {"New", "ChangeRequested", "RemoveRequested"}

(* A change is asked for, or there is nothing to change. *)
LEMMA ChangeFollows ==
  ASSUME NEW x \in Item, NEW b \in Bps, phase # "idle",
         x.engine, x.id # 0, ~x.deleting, ~(x.removed /\ ~x.refused), x.odd => x.hurried,
         x.state \in {"ChangeRequested", "ChangeProceeding"},
         Numbered(b, x.id), Before(x, b)
  PROVE  LET d == ChangeBreakpoint(x, b) IN
         Follows(d, b) /\ (d.sent = <<>> => AtRest(d.item))
<1> DEFINE d == ChangeBreakpoint(x, b)
           y == d.item
           c == Cmd(ChangeOp(x), b, x.id, x.params)
<1>0. x.params \in Params /\ x.resp \in Response
  BY DEF Item
<1>1. /\ Yields(d, b) /\ Alike(x, y) /\ y.id = x.id /\ y.resp = x.resp /\ y.deleting = x.deleting
      /\ ~Differs(x) => y.state = "Inserted" /\ d.sent = <<>>
      /\ Differs(x) => y.state = "ChangeProceeding" /\ Sends(d, c)
      /\ y.odd <=> x.odd
  BY ChangesItem
<1> HIDE DEF d
<1>2. ItemOK(y)
  BY <1>1 DEF ItemOK, Alike
<1>3. CASE ~Differs(x)
  <2>1. x.params = Seen(x) /\ x.params.count = x.resp.count /\ Seen(y) = Seen(x)
    BY <1>1, <1>3, Seeing, SeenAlike DEF Alike, Differs
  <2>2. Sure(x) => Exactly(b, x.id, Seen(x), x.resp.pending)
    BY <2>1, Seeing DEF Before
  <2>3. Resting(y, b) /\ d.sent = <<>> /\ AtRest(y)
    BY <1>1, <1>3, <2>1, <2>2 DEF Resting, Alike, Sure, AtRest
  <2> QED BY <1>2, <2>3 DEF Follows, d
<1>4. CASE Differs(x)
  <2>1. d.sent = <<>> => ~gdb
    BY <1>1, <1>4, JustSent DEF AcceptsCommands
  <2>2. \A e : d.sent = <<e>> => e = c
    BY <1>1, <1>4, JustSent
  <2>3. y.state = "ChangeProceeding"
    BY <1>1, <1>4
  <2>5. Seen(y) = Seen(x) /\ (Moves(y) <=> Moves(x))
    BY <1>1, SeenAlike DEF Alike
  <2>4. c.op \in Changes /\ Changing(y, c.op) /\ c.id = y.id /\ c.params = y.params
    BY <1>0, <1>1, <1>4, <2>3, <2>5, ChangesOf DEF Changing, Cmd, Alike
  <2>6. Numbered(b, y.id) /\ Before(y, b)
    BY <1>1, <2>5 DEF Before, Sure, Alike
  <2>7. Sent(y, b, c)
    BY <2>4, <2>6 DEF Sent
  <2>8. ~gdb => Resting(y, b)
    BY <2>3 DEF Resting
  <2>9. AtRest(y)
    BY <2>3 DEF AtRest
  <2> QED BY <1>2, <2>1, <2>2, <2>7, <2>8, <2>9 DEF Follows, d
<1> QED BY <1>3, <1>4

LEMMA InsertFollows ==
  ASSUME NEW x \in Item, NEW b \in Bps, phase # "idle",
         x.engine, ~x.deleting, ~(x.removed /\ ~x.refused), ~x.astray, x.odd => x.hurried,
         x.state = "InsertRequested", InGdb(b) = {}
  PROVE  LET d == InsertBreakpoint(x, b) IN
         Follows(d, b) /\ AtRest(d.item)
<1> DEFINE d == InsertBreakpoint(x, b)
           y == d.item
           c == Cmd("insert", b, 0, x.params)
<1>1. /\ Yields(d, b) /\ Alike(x, y) /\ y.deleting = x.deleting /\ y.state = "InsertProceeding"
      /\ y.odd <=> x.odd
      /\ Sends(d, c)
  BY InsertsItem
<1> HIDE DEF d
<1>2. ItemOK(y) /\ AtRest(y)
  BY <1>1 DEF ItemOK, Alike, AtRest
<1>3. d.sent = <<>> => ~gdb
  BY <1>1, JustSent DEF AcceptsCommands
<1>4. \A e : d.sent = <<e>> => e = c
  BY <1>1, JustSent
<1>5. Sent(y, b, c)
  BY <1>1 DEF Sent, Insertions, Inserting, Cmd, Alike
<1>6. ~gdb => Resting(y, b)
  BY <1>1 DEF Resting, NotAsked
<1> QED BY <1>2, <1>3, <1>4, <1>5, <1>6 DEF Follows, d

LEMMA DeleteFollows ==
  ASSUME NEW x \in Item, NEW b \in Bps, NEW n \in Nat, phase # "idle", ~gdb => table = {},
         x.removed, x.odd => x.hurried, x.state = "RemoveRequested", Numbered(b, n)
  PROVE  LET d == DeleteInGdb(x, b, n) IN
         Follows(d, b) /\ AtRest(d.item)
<1> DEFINE d == DeleteInGdb(x, b, n)
           y == d.item
           c == Cmd("delete", b, n, x.params)
<1>1. /\ Yields(d, b) /\ Alike(x, y) /\ y.deleting /\ y.state = "Dead"
      /\ y.odd <=> x.odd
      /\ Sends(d, c)
  BY DeletesItem
<1> HIDE DEF d
<1>2. ItemOK(y) /\ AtRest(y)
  BY <1>1 DEF ItemOK, Alike, AtRest
<1>3. d.sent = <<>> => ~gdb
  BY <1>1, JustSent DEF AcceptsCommands
<1>4. \A e : d.sent = <<e>> => e = c
  BY <1>1, JustSent
<1>5. Sent(y, b, c)
  BY <1>1 DEF Sent, Insertions, Changes, Cmd, Alike
<1>6. ~gdb => Resting(y, b)
  BY <1>1 DEF Resting, InGdb
<1> QED BY <1>2, <1>3, <1>4, <1>5, <1>6 DEF Follows, d

LEMMA VisitFollows ==
  ASSUME last \in Nat, TableOK, NEW x \in Item, NEW b \in Bps, Owned(x, b), phase # "idle",
         ~gdb => table = {}, ItemOK(x), Resting(x, b), ~Claim(x).raced
  PROVE  LET d == SynchronizeOne(Claim(x), b) IN
         Follows(d, b) /\ (d.sent = <<>> => AtRest(d.item))
<1> DEFINE z == Claim(x)
           d == SynchronizeOne(z, b)
<1>1. /\ z \in Item /\ Owned(z, b)
      /\ x.engine \/ ~There(x) => z = x
      /\ There(x) /\ ~x.engine =>
              /\ z.state = "InsertRequested" /\ z.engine
              /\ z.refused = x.refused /\ z.removed = x.removed /\ z.hurried = x.hurried
              /\ z.astray = x.astray /\ z.deleting = x.deleting
              /\ z.odd <=> x.odd \/ x.state # "New"
              /\ z.raced <=> x.raced \/ x.deleting
  BY Claiming DEF There
<1>2. ~z.raced
  OBVIOUS
<1> HIDE DEF z
<1>3. z \in Item
  BY <1>1
<1>4. CASE There(x) /\ ~x.engine
  <2>1. x.state = "New" /\ ~x.removed /\ ~z.astray
    BY <1>1, <1>2, <1>4 DEF ItemOK, There
  <2>2. InGdb(b) = {} /\ ~z.deleting
    BY <1>1, <1>2, <1>4, <2>1 DEF Resting
  <2>3. z.engine /\ ~z.deleting /\ ~(z.removed /\ ~z.refused) /\ (z.odd => z.hurried)
        /\ z.state = "InsertRequested"
    BY <1>1, <1>4, <2>1, <2>2 DEF ItemOK
  <2>4. Follows(InsertBreakpoint(z, b), b) /\ AtRest(InsertBreakpoint(z, b).item)
    BY <1>3, <2>1, <2>2, <2>3, InsertFollows
  <2> QED BY <2>3, <2>4 DEF SynchronizeOne, z
<1>5. CASE x.engine \/ ~There(x)
  <2>1. z = x
    BY <1>1, <1>5
  <2>2. CASE x.state = "ChangeRequested" /\ x.id # 0
    <3>1. /\ x.engine /\ ~x.deleting /\ ~(x.removed /\ ~x.refused) /\ (x.odd => x.hurried)
          /\ Numbered(b, x.id) /\ (Sure(x) => Exactly(b, x.id, Seen(x), x.resp.pending))
      BY <2>2 DEF ItemOK, Resting
    <3>b. Before(x, b)
      BY <3>1, Seeing DEF Before
    <3>2. LET f == ChangeBreakpoint(x, b) IN Follows(f, b) /\ (f.sent = <<>> => AtRest(f.item))
      BY <2>2, <3>1, <3>b, ChangeFollows
    <3> QED BY <2>1, <2>2, <3>2 DEF SynchronizeOne, z
  <2>3. CASE x.state = "RemoveRequested" /\ x.id # 0
    <3>1. x.removed /\ (x.odd => x.hurried) /\ Numbered(b, x.id) /\ x.id \in Nat
      BY <2>3 DEF ItemOK, Resting, Item
    <3>2. Follows(DeleteInGdb(x, b, x.id), b) /\ AtRest(DeleteInGdb(x, b, x.id).item)
      BY <2>3, <3>1, DeleteFollows
    <3> QED BY <2>1, <2>3, <3>2 DEF SynchronizeOne, RemoveBreakpoint, z
  <2>4. CASE ~(x.state \in {"ChangeRequested", "RemoveRequested"} /\ x.id # 0)
    <3>1. x.state # "InsertRequested"
      BY DEF ItemOK
    <3>2. d = Quietly(x)
      BY <2>1, <2>4, <3>1 DEF SynchronizeOne, ChangeBreakpoint, RemoveBreakpoint
    <3>3. d.item = x /\ d.sent = <<>>
      BY <3>2 DEF Quietly
    <3>4. x.state # "New"
      BY <1>5 DEF There, ItemOK
    <3>5. AtRest(x)
      BY <2>4, <3>4 DEF AtRest, Resting, NotAsked
    <3> HIDE DEF d
    <3> QED BY <3>3, <3>5 DEF Follows, d, z
  <2> QED BY <2>2, <2>3, <2>4
<1> QED BY <1>4, <1>5

(* While a command or an answer is on its way, the item is left alone.       *)
LEMMA VisitLeaves ==
  ASSUME NEW x \in Item, NEW b, NEW c, ItemOK(x), x.engine \/ ~There(x),
         Sent(x, b, c) \/ Unread(x, b, c)
  PROVE  SynchronizeOne(Claim(x), b) = Quietly(x)
<1>1. Claim(x) = x
  BY DEF Claim
<1>2. \/ Inserting(x)
      \/ x.state \in {"ChangeProceeding", "Dead", "None"}
  BY DEF Sent, Unread, Changing
<1>3. \/ x.state \in {"InsertProceeding", "ChangeProceeding", "Dead", "None"}
      \/ x.state \in {"ChangeRequested", "RemoveRequested"} /\ x.id = 0
  BY <1>2 DEF Inserting
<1> QED BY <1>1, <1>3 DEF SynchronizeOne, ChangeBreakpoint, RemoveBreakpoint

-----------------------------------------------------------------------------
(* A synchronization. *)

(* Whatever the order of the visits, what each has asked for is sent once.   *)
LEMMA OrderOfCommands ==
  ASSUME NEW visit, IsFiniteSet(Bps), \A b \in Bps : Yields(visit[b], b),
         NEW order \in SetToSeqs(UNION {ToSet(visit[b].sent) : b \in Bps})
  PROVE  /\ order \in Seq(Command)
         /\ \A i \in DOMAIN order : \E b \in Bps : visit[b].sent = <<order[i]>> /\ order[i].b = b
         /\ \A b \in Bps : visit[b].sent = <<>> => NoneOf(order, b)
         /\ \A b \in Bps, c \in Command : visit[b].sent = <<c>> => Sole(order, b, c)
<1> DEFINE asked == UNION {ToSet(visit[b].sent) : b \in Bps}
           busy == {b \in Bps : visit[b].sent # <<>>}
           n == Cardinality(asked)
<1>1. \A b \in Bps : visit[b].sent = <<>> \/ \E c \in Command : c.b = b /\ visit[b].sent = <<c>>
  BY DEF Yields
<1>2. ToSet(<<>>) = {} /\ \A c : ToSet(<<c>>) = {c} /\ <<c>>[1] = c
  BY DEF ToSet
<1>3. \A b \in busy : /\ visit[b].sent[1] \in Command /\ visit[b].sent[1].b = b
                      /\ visit[b].sent = <<visit[b].sent[1]>>
                      /\ ToSet(visit[b].sent) = {visit[b].sent[1]}
  <2> SUFFICES ASSUME NEW b \in busy
               PROVE  /\ visit[b].sent[1] \in Command /\ visit[b].sent[1].b = b
                      /\ visit[b].sent = <<visit[b].sent[1]>>
                      /\ ToSet(visit[b].sent) = {visit[b].sent[1]}
    OBVIOUS
  <2>1. PICK c \in Command : c.b = b /\ visit[b].sent = <<c>>
    BY <1>1
  <2> QED BY <2>1, <1>2
<1>4. asked = {visit[b].sent[1] : b \in busy}
  <2>1. \A b \in Bps \ busy : ToSet(visit[b].sent) = {}
    BY <1>2
  <2> DEFINE T(b) == ToSet(visit[b].sent)
             c(b) == visit[b].sent[1]
  <2>2. \A b \in busy : T(b) = {c(b)}
    BY <1>3
  <2>3. \A b \in Bps \ busy : T(b) = {}
    BY <2>1
  <2>4. busy \subseteq Bps
    OBVIOUS
  <2> SUFFICES UNION {T(b) : b \in Bps} = {c(b) : b \in busy}
    OBVIOUS
  <2> HIDE DEF T, c, busy
  <2> QED BY <2>2, <2>3, <2>4
<1>5. asked \subseteq Command
  BY <1>3, <1>4
<1>6. IsFiniteSet(asked)
  <2> DEFINE f == [b \in busy |-> visit[b].sent[1]]
  <2>1. f \in Surjection(busy, asked)
    BY <1>4 DEF Surjection
  <2>2. IsFiniteSet(busy)
    BY FS_Subset
  <2> QED BY <2>1, <2>2, FS_Surjection
<1>7. n \in Nat
  BY <1>6, FS_CardinalityType
<1>8. order \in [1..n -> asked] /\ \A i, j \in 1..n : i # j => order[i] # order[j]
  BY DEF SetToSeqs
<1>9. \A c \in asked : \E i \in 1..n : order[i] = c
  <2>1. order \in Injection(1..n, asked)
    BY <1>8 DEF Injection, IsInjective
  <2>2. IsFiniteSet(1..n) /\ Cardinality(1..n) = n
    BY <1>7, FS_Interval
  <2>3. order \in Surjection(1..n, asked)
    BY <1>6, <2>1, <2>2, FS_Injection
  <2> QED BY <2>3 DEF Surjection
<1>10. DOMAIN order = 1..n /\ \A i \in 1..n : order[i] \in asked
  BY <1>8
<1>11. order \in Seq(Command)
  BY <1>5, <1>7, <1>8, SeqDef
<1> HIDE DEF asked, n
<1>12. ASSUME NEW i \in DOMAIN order PROVE \E b \in busy : order[i] = visit[b].sent[1]
  BY <1>4, <1>10
<1>13. ASSUME NEW i \in DOMAIN order
       PROVE  \E b \in Bps : visit[b].sent = <<order[i]>> /\ order[i].b = b
  <2>1. PICK b \in busy : order[i] = visit[b].sent[1]
    BY <1>12
  <2> QED BY <2>1, <1>3
<1>14. ASSUME NEW b \in Bps, visit[b].sent = <<>> PROVE NoneOf(order, b)
  <2> SUFFICES ASSUME NEW i \in DOMAIN order, order[i].b = b PROVE FALSE
    BY DEF NoneOf
  <2>1. visit[b].sent = <<order[i]>>
    BY <1>13
  <2>2. <<order[i]>> # <<>>
    OBVIOUS
  <2> QED BY <2>1, <2>2, <1>14
<1>15. ASSUME NEW b \in Bps, NEW c \in Command, visit[b].sent = <<c>> PROVE Sole(order, b, c)
  <2>1. b \in busy /\ visit[b].sent[1] = c /\ c.b = b
    BY <1>1, <1>2, <1>15
  <2>2. c \in asked
    BY <2>1, <1>4
  <2>3. PICK i \in 1..n : order[i] = c
    BY <2>2, <1>9
  <2>4. ASSUME NEW j \in DOMAIN order, order[j].b = b PROVE j = i
    <3>1. visit[b].sent = <<order[j]>>
      BY <1>13, <2>4
    <3>2. order[j] = c
      BY <3>1, <1>15
    <3> QED BY <3>2, <2>3, <1>8, <1>10, <2>4
  <2> QED BY <2>1, <2>3, <2>4, <1>10 DEF Sole
<1> QED BY <1>11, <1>13, <1>14, <1>15

LEMMA RacedStays ==
  ASSUME NEW z \in Item, NEW b \in Bps, z.raced
  PROVE  SynchronizeOne(z, b).item.raced
<1>1. InsertBreakpoint(z, b).item.raced
  BY InsertsItem DEF Alike
<1>2. ChangeBreakpoint(z, b).item.raced
  BY ChangesItem DEF Alike
<1>3. DeleteInGdb(z, b, z.id).item.raced
  <2>1. z.id \in Nat
    BY DEF Item
  <2> QED BY <2>1, DeletesItem DEF Alike
<1> QED BY <1>1, <1>2, <1>3 DEF SynchronizeOne, RemoveBreakpoint, Quietly

(* One breakpoint, in a synchronization that sends r behind the queue w.     *)
LEMMA VisitKeeps ==
  ASSUME last \in Nat, TableOK, ~gdb => table = {}, phase # "idle",
         NEW x \in Item, NEW b \in Bps, NEW w \in Seq(Command), NEW r \in Seq(Command), NEW s,
         Owned(x, b), Expected(x, w, s, b), x.raced \/ Tracked(x, w, s, b),
         NEW d, d = SynchronizeOne(Claim(x), b),
         d.sent = <<>> => NoneOf(r, b),
         \A c \in Command : d.sent = <<c>> => Sole(r, b, c)
  PROVE  LET y == d.item wr == w \o r IN
         /\ y \in Item /\ Owned(y, b) /\ Expected(y, wr, s, b)
         /\ y.raced \/ (Tracked(y, wr, s, b) /\ Settled(y, wr, s, b))
<1> DEFINE y == d.item
           wr == w \o r
           e == SynchronizeOne(Claim(x), b)
<1>1. /\ Yields(e, b) /\ Owned(e.item, b) /\ (There(e.item) <=> There(x))
      /\ There(e.item) => e.item.engine
      /\ e.item.removed = x.removed /\ (x.raced => e.item.raced)
      /\ ~There(x) => e.sent = <<>>
  BY VisitIsSafe
<1>2. /\ Yields(d, b) /\ Owned(y, b) /\ (There(y) <=> There(x)) /\ (There(y) => y.engine)
      /\ y.removed = x.removed /\ (x.raced => y.raced)
      /\ ~There(x) => d.sent = <<>>
  BY <1>1
<1>3. /\ wr \in Seq(Command)
      /\ NoneOf(r, b) => SameFor(w, wr, b)
      /\ NoneOf(w, b) => \A c : Sole(r, b, c) => Sole(wr, b, c)
  BY Behind
<1>4. y \in Item /\ (d.sent = <<>> \/ \E c \in Command : d.sent = <<c>>)
  BY <1>2 DEF Yields
<1> HIDE DEF wr, y
<1>5. Expected(y, wr, s, b)
  BY <1>2, <1>3 DEF Expected, SameFor
<1>6. ASSUME ~y.raced
      PROVE  Tracked(y, wr, s, b) /\ Settled(y, wr, s, b)
  <2>1. ~x.raced /\ ItemOK(x) /\ Tracked(x, w, s, b)
    BY <1>2, <1>6 DEF Tracked
  <2>2. CASE NoneOf(w, b) /\ NoneOf(s, b) /\ Resting(x, b)
    <3>1. ~Claim(x).raced
      <4>1. Claim(x).raced => y.raced
        <5>1. LET z == Claim(x) IN z \in Item
          BY Claiming
        <5> QED BY <5>1, RacedStays DEF y
      <4> QED BY <4>1, <1>6
    <3>2. Follows(e, b) /\ (e.sent = <<>> => AtRest(e.item))
      BY <2>1, <2>2, <3>1, VisitFollows
    <3>3. Follows(d, b) /\ (d.sent = <<>> => AtRest(y))
      BY <3>2 DEF y
    <3>4. CASE d.sent = <<>>
      <4>1. NoneOf(wr, b)
        BY <1>3, <2>2, <3>4 DEF SameFor
      <4> QED BY <2>2, <3>3, <3>4, <4>1 DEF Follows, Tracked, Settled, AtRest, y
    <3>5. ASSUME NEW c \in Command, d.sent = <<c>>
          PROVE  Tracked(y, wr, s, b) /\ Settled(y, wr, s, b)
      <4>1. Sole(wr, b, c)
        BY <1>3, <2>2, <3>5
      <4>2. c \in ToSet(wr) /\ ~NoneOf(wr, b)
        BY <4>1, SoleIsIn
      <4>3. Sent(y, b, c) /\ ItemOK(y)
        BY <3>3, <3>5 DEF Follows, y
      <4> QED BY <2>2, <4>1, <4>2, <4>3 DEF Tracked, Settled
    <3> QED BY <1>4, <3>4, <3>5
  <2>3. ASSUME NEW c, Sole(w, b, c), NoneOf(s, b), Sent(x, b, c)
        PROVE  Tracked(y, wr, s, b) /\ Settled(y, wr, s, b)
    <3>1. x.engine \/ ~There(x)
      BY <2>3, SoleIsIn DEF Expected
    <3>2. d = Quietly(x)
      BY <2>1, <2>3, <3>1, VisitLeaves
    <3>3. y = x /\ d.sent = <<>>
      BY <3>2 DEF Quietly, y
    <3>4. Sole(wr, b, c)
      BY <1>3, <2>3, <3>3, SoleIsIn DEF SameFor
    <3>5. c \in ToSet(wr) /\ ~NoneOf(wr, b)
      BY <3>4, SoleIsIn
    <3> QED BY <2>1, <2>3, <3>3, <3>4, <3>5 DEF Tracked, Settled
  <2>4. ASSUME NEW c, NoneOf(w, b), Sole(s, b, c), Unread(x, b, c)
        PROVE  Tracked(y, wr, s, b) /\ Settled(y, wr, s, b)
    <3>1. x.engine \/ ~There(x)
      BY <2>4, SoleIsIn DEF Expected
    <3>2. d = Quietly(x)
      BY <2>1, <2>4, <3>1, VisitLeaves
    <3>3. y = x /\ d.sent = <<>>
      BY <3>2 DEF Quietly, y
    <3>4. NoneOf(wr, b)
      BY <1>3, <2>4, <3>3 DEF SameFor
    <3>5. c \in ToSet(s) /\ ~NoneOf(s, b)
      BY <2>4, SoleIsIn
    <3> QED BY <2>1, <2>4, <3>3, <3>4, <3>5 DEF Tracked, Settled
  <2> QED BY <2>1, <2>2, <2>3, <2>4 DEF Tracked
<1> QED BY <1>2, <1>4, <1>5, <1>6 DEF y, wr

(* attemptBreakpointSynchronization keeps what is known of every item, and   *)
(* leaves nothing that waits for another synchronization.                    *)
LEMMA SynchronizationKeeps ==
  ASSUME last \in Nat, TableOK, ~gdb => table = {}, AcceptsBreakpoints,
         NEW e \in Handler, NEW s, WireOK(e.wire), \A b \in Bps : Held(e, s, b),
         ~gdb => e.wire = <<>>,
         NEW f \in AttemptBreakpointSynchronization(e)
  PROVE  /\ f \in Handler /\ f.timer = e.timer /\ WireOK(f.wire)
         /\ ~gdb => f.wire = <<>>
         /\ \A b \in Bps : Held(f, s, b)
                        /\ (f.item[b].raced \/ Settled(f.item[b], f.wire, s, b))
<1> DEFINE visit == [b \in Bps |-> SynchronizeOne(Claim(e.item[b]), b)]
           asked == UNION {ToSet(visit[b].sent) : b \in Bps}
<1>1. PICK order \in SetToSeqs(asked) :
        f = [e EXCEPT !.item = [b \in Bps |-> visit[b].item], !.wire = @ \o order]
  BY DEF AttemptBreakpointSynchronization
<1>2. \A b \in Bps : visit[b] = SynchronizeOne(Claim(e.item[b]), b)
  OBVIOUS
<1> HIDE DEF visit
<1>3. e.item \in [Bps -> Item] /\ e.wire \in Seq(Command) /\ e.timer \in BOOLEAN
  BY DEF Handler
<1>4. \A b \in Bps : e.item[b] \in Item /\ Owned(e.item[b], b)
  BY <1>3 DEF Held
<1>5. ASSUME NEW b \in Bps
      PROVE  /\ Yields(visit[b], b)
             /\ ~stale => \A c \in Command : visit[b].sent = <<c>> => Owns(b, c.id)
  BY <1>2, <1>4, VisitIsSafe
<1>6. IsFiniteSet(Bps) /\ phase # "idle"
  BY ParametersAssumption DEF AcceptsBreakpoints
<1>7. /\ order \in Seq(Command)
      /\ \A i \in DOMAIN order : \E b \in Bps : visit[b].sent = <<order[i]>> /\ order[i].b = b
      /\ \A b \in Bps : visit[b].sent = <<>> => NoneOf(order, b)
      /\ \A b \in Bps, c \in Command : visit[b].sent = <<c>> => Sole(order, b, c)
  BY <1>5, <1>6, OrderOfCommands
<1>8. /\ f.item = [b \in Bps |-> visit[b].item] /\ f.wire = e.wire \o order /\ f.timer = e.timer
      /\ f = [item |-> f.item, wire |-> f.wire, timer |-> f.timer]
  BY <1>1 DEF Handler
<1>9. \A b \in Bps : f.item[b] = visit[b].item
  BY <1>8
<1>10. ASSUME NEW b \in Bps
       PROVE  /\ f.item[b] \in Item /\ Held(f, s, b)
              /\ f.item[b].raced \/ Settled(f.item[b], f.wire, s, b)
  <2> DEFINE x == e.item[b]
             d == visit[b]
  <2>1. /\ x \in Item /\ Owned(x, b) /\ Expected(x, e.wire, s, b)
        /\ x.raced \/ Tracked(x, e.wire, s, b)
    BY <1>4 DEF Held
  <2>2. /\ d = SynchronizeOne(Claim(x), b)
        /\ d.sent = <<>> => NoneOf(order, b)
        /\ \A c \in Command : d.sent = <<c>> => Sole(order, b, c)
    BY <1>2, <1>7
  <2> HIDE DEF x, d
  <2>3. /\ d.item \in Item /\ Owned(d.item, b) /\ Expected(d.item, e.wire \o order, s, b)
        /\ d.item.raced \/ (Tracked(d.item, e.wire \o order, s, b)
                             /\ Settled(d.item, e.wire \o order, s, b))
    BY <1>3, <1>6, <1>7, <2>1, <2>2, VisitKeeps
  <2>4. d.item = f.item[b] /\ f.wire = e.wire \o order
    BY <1>8, <1>9 DEF d
  <2> QED BY <2>3, <2>4 DEF Held
<1>11. /\ f.wire \in Seq(Command)
       /\ \A i \in DOMAIN f.wire : (\E j \in DOMAIN e.wire : f.wire[i] = e.wire[j])
                                 \/ (\E j \in DOMAIN order : f.wire[i] = order[j])
  <2> DEFINE w == e.wire
             wr == w \o order
  <2>1. w \in Seq(Command) /\ order \in Seq(Command)
    BY <1>3, <1>7
  <2> HIDE DEF w
  <2>2. /\ wr \in Seq(Command)
        /\ \A i \in DOMAIN wr : (\E j \in DOMAIN w : wr[i] = w[j])
                               \/ (\E j \in DOMAIN order : wr[i] = order[j])
    BY <2>1, Behind
  <2>3. f.wire = wr
    BY <1>8 DEF w
  <2> HIDE DEF wr
  <2> QED BY <2>2, <2>3 DEF w
<1>12. f \in Handler
  BY <1>3, <1>8, <1>9, <1>10, <1>11 DEF Handler
<1>13. WireOK(f.wire)
  <2> SUFFICES ASSUME ~stale, NEW i \in DOMAIN f.wire PROVE Owns(f.wire[i].b, f.wire[i].id)
    BY DEF WireOK
  <2>1. CASE \E j \in DOMAIN e.wire : f.wire[i] = e.wire[j]
    BY <2>1 DEF WireOK
  <2>2. ASSUME NEW j \in DOMAIN order, f.wire[i] = order[j]
        PROVE  Owns(f.wire[i].b, f.wire[i].id)
    <3>1. PICK b \in Bps : visit[b].sent = <<order[j]>> /\ order[j].b = b
      BY <1>7
    <3>2. order[j] \in Command
      BY <1>7, ElementOfSeq
    <3> QED BY <3>1, <3>2, <1>5, <2>2
  <2> QED BY <2>1, <2>2, <1>11
<1>14. ~gdb => f.wire = <<>>
  <2> SUFFICES ASSUME ~gdb PROVE f.wire = <<>>
    OBVIOUS
  <2>1. \A b \in Bps : visit[b].sent = <<>>
    BY <1>5 DEF Yields
  <2>2. DOMAIN order = {}
    <3> SUFFICES ASSUME NEW i \in DOMAIN order PROVE FALSE
      OBVIOUS
    <3>1. PICK b \in Bps : visit[b].sent = <<order[i]>>
      BY <1>7
    <3>2. <<order[i]>> # <<>>
      OBVIOUS
    <3> QED BY <2>1, <3>1, <3>2
  <2>3. order = <<>>
    BY <1>7, <2>2
  <2> QED BY <2>3, <1>8
<1> QED BY <1>8, <1>10, <1>12, <1>13, <1>14

-----------------------------------------------------------------------------
(* The answers. *)

(* Whatever has happened to an item, a callback asks gdb for nothing but     *)
(* what belongs to it.                                                       *)
Safely(x, d, b) ==
  /\ Yields(d, b) /\ Owned(d.item, b)
  /\ d.item.removed = x.removed /\ (x.raced => d.item.raced)
  /\ There(x) => There(d.item)
  /\ There(d.item) /\ ~d.item.engine => There(x) /\ ~x.engine
  /\ ~stale => \A c \in Command : d.sent = <<c>> => Owns(b, c.id)

LEMMA QuietlyIsSafe ==
  ASSUME NEW x \in Item, NEW b \in Bps, Owned(x, b)
  PROVE  Safely(x, Quietly(x), b)
<1> DEFINE d == Quietly(x)
<1>1. d.item = x /\ d.sent = <<>> /\ \A c : d.sent # <<c>>
  BY DEF Quietly
<1> HIDE DEF d
<1>2. Safely(x, d, b)
  BY <1>1 DEF Safely, Yields
<1> QED BY <1>2 DEF d

LEMMA CommandIsSafe ==
  ASSUME NEW x \in Item, NEW b \in Bps, Owned(x, b), NEW c \in Command, c.b = b,
         ~stale => Owns(b, c.id)
  PROVE  Safely(x, RunCommand(x, c), b) /\ Sends(RunCommand(x, c), c)
<1> DEFINE d == RunCommand(x, c)
<1>1. d.item = x /\ Sends(d, c)
  BY DEF RunCommand, Sends
<1> HIDE DEF d
<1>2. \A e : d.sent = <<e>> => e = c
  BY <1>1, JustSent
<1>3. d.sent = <<>> \/ (d.sent = <<c>> /\ AcceptsCommands /\ gdb)
  BY <1>1, JustSent
<1>4. Safely(x, d, b)
  BY <1>1, <1>2, <1>3 DEF Safely, Yields
<1> QED BY <1>1, <1>4 DEF d

LEMMA InsertIsSafe ==
  ASSUME last \in Nat, TableOK, NEW x \in Item, NEW b \in Bps, There(x), Owned(x, b)
  PROVE  Safely(x, InsertBreakpoint(x, b), b)
<1> DEFINE d == InsertBreakpoint(x, b)
           c == Cmd("insert", b, 0, x.params)
<1>1. /\ Yields(d, b) /\ Alike(x, d.item) /\ d.item.state = "InsertProceeding"
      /\ d.item.id = x.id /\ d.item.deleting = x.deleting /\ Sends(d, c)
  BY InsertsItem
<1> HIDE DEF d
<1>2. \A e : d.sent = <<e>> => e.id = 0
  BY <1>1, JustSent DEF Cmd
<1>3. Owns(b, 0)
  BY NoNumber
<1>4. Safely(x, d, b)
  BY <1>1, <1>2, <1>3 DEF Safely, Owned, There, Alike
<1> QED BY <1>4 DEF d

LEMMA ChangeIsSafe ==
  ASSUME NEW x \in Item, NEW b \in Bps, There(x), Owned(x, b),
         AcceptsCommands /\ ~stale => Owns(b, x.id)
  PROVE  Safely(x, ChangeBreakpoint(x, b), b)
<1> DEFINE d == ChangeBreakpoint(x, b)
           y == d.item
           c == Cmd(ChangeOp(x), b, x.id, x.params)
<1>1. /\ Yields(d, b) /\ Alike(x, y) /\ y.id = x.id /\ y.deleting = x.deleting
      /\ x.id = 0 => y = x /\ d.sent = <<>>
      /\ x.id # 0 /\ ~Differs(x) => y.state = "Inserted" /\ d.sent = <<>>
      /\ x.id # 0 /\ Differs(x) =>
           /\ y.state = IF x.state = "ChangeRequested" THEN "ChangeProceeding" ELSE x.state
           /\ Sends(d, c)
  BY ChangesItem
<1> HIDE DEF d
<1>2. \A e : d.sent = <<e>> => e.id = x.id /\ AcceptsCommands
  <2>1. d.sent = <<>> \/ Sends(d, c)
    BY <1>1
  <2>2. c.id = x.id
    BY DEF Cmd
  <2> HIDE DEF c
  <2>0. \A e : <<e>> # <<>>
    OBVIOUS
  <2>3. CASE d.sent = <<>>
    BY <2>0, <2>3
  <2>4. CASE Sends(d, c) /\ d.sent # <<>>
    BY <2>2, <2>4, JustSent
  <2> QED BY <2>1, <2>3, <2>4
<1>3. y.state \in {x.state, "ChangeProceeding", "Inserted"}
  BY <1>1
<1>4. Safely(x, d, b)
  BY <1>1, <1>2, <1>3 DEF Safely, Owned, There, Alike
<1> QED BY <1>4 DEF d

LEMMA DeleteIsSafe ==
  ASSUME NEW x \in Item, NEW b \in Bps, NEW n \in Nat, There(x), x.removed, Owned(x, b),
         ~stale => Owns(b, n)
  PROVE  Safely(x, DeleteInGdb(x, b, n), b)
<1> DEFINE d == DeleteInGdb(x, b, n)
           y == d.item
           c == Cmd("delete", b, n, x.params)
<1>1. /\ Yields(d, b) /\ Alike(x, y) /\ y.id = x.id /\ y.deleting /\ y.state = "Dead" /\ Sends(d, c)
  BY DeletesItem
<1> HIDE DEF d
<1>2. \A e : d.sent = <<e>> => e.id = n
  BY <1>1, JustSent DEF Cmd
<1>4. Safely(x, d, b)
  BY <1>1, <1>2 DEF Safely, Owned, There, Alike
<1> QED BY <1>4 DEF d

(* A step of a callback on the item itself, before it asks for anything.     *)
LEMMA SafelyAfter ==
  ASSUME NEW x, NEW y, NEW d, NEW b, Safely(y, d, b),
         y.removed = x.removed, y.raced = x.raced, There(x), There(y), y.engine = x.engine
  PROVE  Safely(x, d, b)
BY DEF Safely

(* What gdb says of a breakpoint. *)
LEMMA Updating ==
  ASSUME NEW resp \in Response, NEW p \in Params, NEW w \in BOOLEAN, NEW t, t.params = p, t.pending = w
  PROVE  LET u == UpdateResponse(resp, t) IN
         /\ u \in Response /\ u.count = resp.count /\ u.enabled = p.enabled /\ u.pending = w
         /\ u.line = IF w THEN resp.line ELSE p.line
BY DEF UpdateResponse, Response, Params

LEMMA CallbackIsSafe ==
  ASSUME last \in Nat, TableOK, NEW x \in Item, NEW b \in Bps, NEW a \in Answer, a.b = b,
         Owned(x, b), There(x) /\ phase # "idle" => x.engine,
         a.op \in Insertions /\ a.ok => a.id # 0 /\ Owns(b, a.id)
  PROVE  Safely(x, Callback(x, a), b)
<1>0. x.params \in Params /\ x.resp \in Response /\ a.params \in Params /\ a.id \in Nat /\ a.pending \in BOOLEAN
  BY DEF Item, Answer
<1>1. CASE a.op = "insert"
  <2> DEFINE known == [x EXCEPT !.id = a.id, !.resp = UpdateResponse(@, a),
                                !.astray = a.pending /\ a.params.line # x.params.line]
             moving == GotoState(known, "ChangeRequested", "InsertProceeding")
             done == GotoState(known, "Inserted", "InsertProceeding")
  <2>0. Callback(x, a) = HandleBreakInsert1(x, a)
    BY <1>1 DEF Callback
  <2>1. CASE ~There(x) /\ a.ok
    BY <2>0, <2>1, QuietlyIsSafe DEF HandleBreakInsert1
  <2>2. CASE ~There(x) /\ ~a.ok
    <3>1. Cmd("other", b, 0, a.params) \in Command /\ Cmd("other", b, 0, a.params).b = b
          /\ Cmd("other", b, 0, a.params).id = 0
      BY <1>0 DEF Cmd, Command, Op
    <3>2. Safely(x, RunCommand(x, Cmd("other", b, 0, a.params)), b)
      BY <3>1, NoNumber, CommandIsSafe
    <3> QED BY <2>0, <2>2, <3>2 DEF HandleBreakInsert1
  <2>3. CASE There(x) /\ ~a.ok
    <3>1. Cmd("break", b, 0, x.params) \in Command /\ Cmd("break", b, 0, x.params).b = b
          /\ Cmd("break", b, 0, x.params).id = 0
      BY <1>0 DEF Cmd, Command, Op
    <3>2. Safely(x, RunCommand(x, Cmd("break", b, 0, x.params)), b)
      BY <3>1, NoNumber, CommandIsSafe
    <3> QED BY <2>0, <2>3, <3>2 DEF HandleBreakInsert1
  <2>4. CASE There(x) /\ a.ok /\ x.state = "RemoveRequested"
    <3>1. x.removed /\ Owns(b, a.id)
      BY <1>1, <2>4 DEF Owned, Insertions
    <3>2. Safely(x, DeleteInGdb(x, b, a.id), b)
      BY <1>0, <2>4, <3>1, DeleteIsSafe
    <3> QED BY <2>0, <2>4, <3>2 DEF HandleBreakInsert1
  <2>5. CASE There(x) /\ a.ok /\ x.state # "RemoveRequested"
    <3>0. Owns(b, a.id)
      BY <1>1, <2>5 DEF Insertions
    <3>1. /\ known \in Item /\ known.id = a.id /\ known.engine = x.engine /\ known.removed = x.removed
          /\ known.raced = x.raced /\ known.deleting = x.deleting
      BY <1>0, Updating DEF Item
    <3> HIDE DEF known
    <3>k. known \in Item
      BY <3>1
    <3>s. "ChangeRequested" \in BreakpointState /\ "InsertProceeding" \in BreakpointState
          /\ "Inserted" \in BreakpointState
      BY DEF BreakpointState
    <3>2. /\ moving \in Item /\ moving.id = known.id /\ moving.engine = known.engine
          /\ moving.removed = known.removed /\ moving.raced = known.raced
          /\ moving.deleting = known.deleting /\ moving.state = "ChangeRequested"
      BY <3>k, <3>s, Going
    <3>3. /\ done \in Item /\ done.id = known.id /\ done.engine = known.engine
          /\ done.removed = known.removed /\ done.raced = known.raced
          /\ done.deleting = known.deleting /\ done.state = "Inserted"
      BY <3>k, <3>s, Going
    <3> HIDE DEF moving, done
    <3>4. Owned(moving, b) /\ Owned(done, b) /\ There(moving) /\ There(done)
      BY <2>5, <3>0, <3>1, <3>2, <3>3 DEF Owned, There
    <3>5. Safely(moving, ChangeBreakpoint(moving, b), b)
      BY <3>0, <3>1, <3>2, <3>4, ChangeIsSafe
    <3>6. Safely(done, Quietly(done), b)
      BY <3>3, <3>4, QuietlyIsSafe
    <3>7. Safely(x, ChangeBreakpoint(moving, b), b) /\ Safely(x, Quietly(done), b)
      BY <2>5, <3>1, <3>2, <3>3, <3>4, <3>5, <3>6, SafelyAfter
    <3>8. HandleBreakInsert1(x, a) = IF NeedsChange(known) THEN ChangeBreakpoint(moving, b) ELSE Quietly(done)
      BY <2>5 DEF HandleBreakInsert1, known, moving, done
    <3> QED BY <2>0, <3>7, <3>8
  <2> QED BY <2>1, <2>2, <2>3, <2>4, <2>5
<1>2. CASE a.op = "break"
  <2>0. Callback(x, a) = HandleBreakInsert2(x, a)
    BY <1>2 DEF Callback
  <2>1. CASE ~a.ok
    BY <2>0, <2>1, QuietlyIsSafe DEF HandleBreakInsert2
  <2>2. CASE a.ok
    <3> DEFINE y == HandleAlienBreakpoint(x, a)
               z == GotoState(y, "Inserted", "InsertProceeding")
               resp == UpdateResponse(NoResponse, a)
    <3>0. Owns(b, a.id)
      BY <1>2, <2>2 DEF Insertions
    <3>r. resp \in Response
      BY <1>0, Parameters, Updating
    <3>1. /\ y \in Item /\ y.id \in {x.id, a.id} /\ (There(x) => y.engine = x.engine /\ y.state = x.state)
          /\ ~There(x) => IF a.pending THEN y.engine = x.engine /\ y.state = x.state /\ y.id = x.id
                                         ELSE y.engine /\ y.state = "Inserted" /\ y.id = a.id
          /\ y.removed = x.removed /\ (x.raced => y.raced) /\ y.deleting = x.deleting
      <4> HIDE DEF resp
      <4>1. y = CASE There(x) /\ resp.line = x.params.line -> [x EXCEPT !.id = a.id, !.resp = resp]
                  [] ~There(x) /\ ~a.pending ->
                       [x EXCEPT !.id = a.id, !.resp = resp, !.params = a.params, !.state = "Inserted",
                                 !.engine = TRUE]
                  [] OTHER -> [x EXCEPT !.raced = TRUE]
        BY DEF HandleAlienBreakpoint, resp
      <4> HIDE DEF y
      <4> QED BY <1>0, <3>r, <4>1 DEF Item, BreakpointState
    <3> HIDE DEF y
    <3>s. "InsertProceeding" \in BreakpointState /\ "Inserted" \in BreakpointState
      BY DEF BreakpointState
    <3>k. y \in Item
      BY <3>1
    <3>2. /\ z \in Item /\ z.id = y.id /\ z.engine = y.engine
          /\ z.removed = y.removed /\ z.raced = y.raced
          /\ z.deleting = y.deleting /\ z.state = "Inserted"
      BY <3>k, <3>s, Going
    <3> HIDE DEF z
    <3>3. CASE There(x)
      <4>1. Owned(z, b) /\ There(z)
        BY <3>0, <3>1, <3>2, <3>3 DEF Owned, There
      <4>2. Safely(z, Quietly(z), b) /\ Quietly(z).item = z
        BY <3>2, <4>1, QuietlyIsSafe DEF Quietly
      <4>3. Safely(x, Quietly(z), b)
        BY <3>1, <3>2, <3>3, <4>1, <4>2 DEF Safely
      <4>4. HandleBreakInsert2(x, a) = Quietly(z)
        BY <2>2, <3>3 DEF HandleBreakInsert2, y, z
      <4> QED BY <2>0, <4>3, <4>4
    <3>4. CASE ~There(x)
      <4>1. Owned(y, b) /\ (There(y) => y.engine)
        BY <3>0, <3>1, <3>4 DEF Owned, There
      <4>2. Safely(y, Quietly(y), b) /\ Quietly(y).item = y
        BY <3>1, <4>1, QuietlyIsSafe DEF Quietly
      <4>3. Safely(x, Quietly(y), b)
        BY <3>1, <3>4, <4>1, <4>2 DEF Safely
      <4>4. HandleBreakInsert2(x, a) = Quietly(y)
        BY <2>2, <3>4 DEF HandleBreakInsert2, y
      <4> QED BY <2>0, <4>3, <4>4
    <3> QED BY <3>3, <3>4
  <2> QED BY <2>1, <2>2
<1>3. CASE a.op = "move"
  <2>0. Callback(x, a) = HandleBreakLineNumber(x, a)
    BY <1>3 DEF Callback
  <2>1. CASE ~There(x)
    <3>1. Cmd("nowhere", b, 0, a.params) \in Command /\ Cmd("nowhere", b, 0, a.params).b = b
          /\ Cmd("nowhere", b, 0, a.params).id = 0
      BY <1>0 DEF Cmd, Command, Op
    <3>2. Safely(x, RunCommand(x, Cmd("nowhere", b, 0, a.params)), b)
      BY <3>1, NoNumber, CommandIsSafe
    <3> QED BY <2>0, <2>1, <3>2 DEF HandleBreakLineNumber
  <2>2. CASE There(x)
    <3> DEFINE y == [x EXCEPT !.resp.line = x.params.line, !.state = "InsertRequested",
                              !.odd = @ \/ x.state # "ChangeProceeding", !.astray = FALSE]
    <3>1. /\ y \in Item /\ y.id = x.id /\ y.engine = x.engine /\ y.state = "InsertRequested"
          /\ y.removed = x.removed /\ y.raced = x.raced /\ y.deleting = x.deleting
      BY <1>0 DEF Item, Response, Params, BreakpointState
    <3>2. HandleBreakLineNumber(x, a) = InsertBreakpoint(y, b)
      BY <2>2 DEF HandleBreakLineNumber
    <3> HIDE DEF y
    <3>3. Owned(y, b) /\ There(y)
      BY <2>2, <3>1 DEF Owned, There
    <3>4. Safely(y, InsertBreakpoint(y, b), b)
      BY <3>1, <3>3, InsertIsSafe
    <3>5. Safely(x, InsertBreakpoint(y, b), b)
      BY <2>2, <3>1, <3>3, <3>4, SafelyAfter
    <3> QED BY <2>0, <3>2, <3>5
  <2> QED BY <2>1, <2>2
<1>4. CASE a.op = "count" /\ There(x)
  <2> DEFINE y == [x EXCEPT !.resp.count = x.params.count]
  <2>1. /\ y \in Item /\ y.id = x.id /\ y.engine = x.engine /\ y.state = x.state
        /\ y.removed = x.removed /\ y.raced = x.raced /\ y.deleting = x.deleting
    BY <1>0 DEF Item, Response, Params
  <2>2. Callback(x, a) = ChangeBreakpoint(y, b)
    BY <1>4 DEF Callback, HandleBreakIgnore
  <2> HIDE DEF y
  <2>3. Owned(y, b) /\ There(y) /\ (AcceptsCommands /\ ~stale => Owns(b, y.id))
    BY <1>4, <2>1 DEF Owned, There, AcceptsCommands
  <2>4. Safely(y, ChangeBreakpoint(y, b), b)
    BY <2>1, <2>3, ChangeIsSafe
  <2>5. Safely(x, ChangeBreakpoint(y, b), b)
    BY <1>4, <2>1, <2>3, <2>4, SafelyAfter
  <2> QED BY <2>2, <2>5
<1>5. ASSUME NEW on \in BOOLEAN, There(x), Callback(x, a) = HandleBreakEnabled(x, a, on)
      PROVE  Safely(x, Callback(x, a), b)
  <2> DEFINE y == [x EXCEPT !.resp.enabled = on, !.odd = @ \/ x.params.enabled # on]
  <2>1. /\ y \in Item /\ y.id = x.id /\ y.engine = x.engine /\ y.state = x.state
        /\ y.removed = x.removed /\ y.raced = x.raced /\ y.deleting = x.deleting
    BY <1>0, <1>5 DEF Item, Response, Params
  <2>2. Callback(x, a) = ChangeBreakpoint(y, b)
    BY <1>5 DEF HandleBreakEnabled
  <2> HIDE DEF y
  <2>3. Owned(y, b) /\ There(y) /\ (AcceptsCommands /\ ~stale => Owns(b, y.id))
    BY <1>5, <2>1 DEF Owned, There, AcceptsCommands
  <2>4. Safely(y, ChangeBreakpoint(y, b), b)
    BY <2>1, <2>3, ChangeIsSafe
  <2>5. Safely(x, ChangeBreakpoint(y, b), b)
    BY <1>5, <2>1, <2>3, <2>4, SafelyAfter
  <2> QED BY <2>2, <2>5
<1>6. CASE a.op \in {"disable", "enable"} /\ There(x)
  BY <1>5, <1>6 DEF Callback
<1>7. CASE a.op \notin {"insert", "break", "move", "nowhere"} /\ ~(a.op \in {"count", "disable", "enable"} /\ There(x))
  BY <1>7, QuietlyIsSafe DEF Callback
<1>8. CASE a.op = "nowhere"
  <2>1. Cmd("other", b, 0, a.params) \in Command /\ Cmd("other", b, 0, a.params).b = b
        /\ Cmd("other", b, 0, a.params).id = 0
    BY <1>0 DEF Cmd, Command, Op
  <2>2. Safely(x, RunCommand(x, Cmd("other", b, 0, a.params)), b)
    BY <2>1, NoNumber, CommandIsSafe
  <2> QED BY <1>8, <2>2 DEF Callback
<1> QED BY <1>1, <1>2, <1>3, <1>4, <1>6, <1>7, <1>8

(* For an item that is kept track of, the callback sends the next command or *)
(* leaves nothing that waits.                                                *)
LEMMA CallbackFollows ==
  ASSUME last \in Nat, TableOK, ~gdb => table = {}, phase # "idle",
         NEW x \in Item, NEW b \in Bps, NEW a \in Answer, a.b = b,
         ItemOK(x), Unread(x, b, a), a.op \in Insertions /\ a.ok => a.id # 0
  PROVE  LET d == Callback(x, a) IN
         d.item.raced \/ (Follows(d, b) /\ (d.sent = <<>> => AtRest(d.item)))
<1> DEFINE d == Callback(x, a)
<1> SUFFICES d.item.raced \/ (Follows(d, b) /\ (d.sent = <<>> => AtRest(d.item)))
  OBVIOUS
<1>0. x.params \in Params /\ x.resp \in Response /\ a.params \in Params /\ a.id \in Nat /\ a.pending \in BOOLEAN
  BY DEF Item, Answer
<1>q. ASSUME NEW y, ItemOK(y), Resting(y, b), AtRest(y), d = Quietly(y)
      PROVE  Follows(d, b) /\ (d.sent = <<>> => AtRest(d.item))
  <2>1. d.item = y /\ d.sent = <<>> /\ \A c : d.sent # <<c>>
    BY <1>q DEF Quietly
  <2> HIDE DEF d
  <2> QED BY <1>q, <2>1 DEF Follows
<1>1. CASE a.op = "insert"
  <2> DEFINE known == [x EXCEPT !.id = a.id, !.resp = UpdateResponse(@, a),
                                !.astray = a.pending /\ a.params.line # x.params.line]
             moving == GotoState(known, "ChangeRequested", "InsertProceeding")
             done == GotoState(known, "Inserted", "InsertProceeding")
  <2>0. d = HandleBreakInsert1(x, a)
    BY <1>1 DEF Callback
  <2>1. /\ Inserting(x) /\ There(x)
        /\ ~x.refused => a.params.count = x.params.count
        /\ a.ok => Numbered(b, a.id) /\ (Sure(x) => Exactly(b, a.id, a.params, a.pending)) /\ a.id # 0
        /\ ~a.ok => x.refused /\ InGdb(b) = {}
    BY <1>1 DEF Unread, Insertions, Changes, Inserting, There
  <2>2. CASE ~a.ok
    <3> DEFINE c == Cmd("break", b, 0, x.params)
               f == RunCommand(x, c)
    <3>1. d = f
      BY <2>0, <2>1, <2>2 DEF HandleBreakInsert1
    <3>2. f.item = x /\ Sends(f, c)
      BY DEF RunCommand, Sends
    <3> HIDE DEF f, d
    <3>3. f.sent = <<>> => ~gdb
      BY <3>2, JustSent DEF AcceptsCommands
    <3>4. \A e : f.sent = <<e>> => e = c
      BY <3>2, JustSent
    <3>5. Sent(x, b, c)
      BY <2>1, <2>2 DEF Sent, Insertions, Cmd
    <3>6. ~gdb => Resting(x, b)
      BY <2>1, <2>2 DEF Resting, NotAsked, Inserting
    <3>7. AtRest(x)
      BY <2>1, <2>2 DEF AtRest
    <3> QED BY <3>1, <3>2, <3>3, <3>4, <3>5, <3>6, <3>7 DEF Follows, d
  <2>3. CASE a.ok /\ x.state = "RemoveRequested"
    <3>1. d = DeleteInGdb(x, b, a.id)
      BY <2>0, <2>1, <2>3 DEF HandleBreakInsert1
    <3>2. x.removed /\ (x.odd => x.hurried)
      BY <2>3 DEF ItemOK
    <3>3. Follows(DeleteInGdb(x, b, a.id), b) /\ AtRest(DeleteInGdb(x, b, a.id).item)
      BY <1>0, <2>1, <2>3, <3>2, DeleteFollows
    <3> QED BY <3>1, <3>3
  <2>4. CASE a.ok /\ x.state # "RemoveRequested"
    <3>1. /\ known \in Item /\ known.id = a.id /\ known.state = x.state /\ known.odd = x.odd
          /\ known.params = x.params /\ known.engine = x.engine /\ known.removed = x.removed
          /\ known.hurried = x.hurried /\ known.raced = x.raced /\ known.refused = x.refused
          /\ known.astray <=> a.pending /\ a.params.line # x.params.line
          /\ known.deleting = x.deleting
          /\ known.resp \in Response /\ known.resp.count = x.resp.count
          /\ known.resp.enabled = a.params.enabled /\ known.resp.pending = a.pending
          /\ ~a.pending => known.resp.line = a.params.line
      <4> DEFINE resp == UpdateResponse(x.resp, a)
                 lost == a.pending /\ a.params.line # x.params.line
      <4>1. /\ resp \in Response /\ resp.count = x.resp.count /\ resp.enabled = a.params.enabled
            /\ resp.pending = a.pending /\ (~a.pending => resp.line = a.params.line)
        BY <1>0, Updating
      <4>2. lost \in BOOLEAN /\ (lost <=> a.pending /\ a.params.line # x.params.line)
        BY <1>0
      <4>3. known = [x EXCEPT !.id = a.id, !.resp = resp, !.astray = lost]
        OBVIOUS
      <4> HIDE DEF known, resp, lost
      <4> QED BY <1>0, <4>1, <4>2, <4>3 DEF Item
    <3>2. HandleBreakInsert1(x, a) = IF NeedsChange(known) THEN ChangeBreakpoint(moving, b) ELSE Quietly(done)
      BY <2>1, <2>4 DEF HandleBreakInsert1
    <3> HIDE DEF known
    <3>k. known \in Item
      BY <3>1
    <3>s. "ChangeRequested" \in BreakpointState /\ "InsertProceeding" \in BreakpointState
          /\ "Inserted" \in BreakpointState
      BY DEF BreakpointState
    <3>3. /\ moving \in Item /\ moving.id = known.id /\ moving.resp = known.resp
          /\ Alike(known, moving) /\ moving.deleting = known.deleting /\ moving.state = "ChangeRequested"
          /\ moving.odd <=> known.odd \/ known.state # "InsertProceeding"
                              \/ ~IsAllowedTransition(known.state, "ChangeRequested")
      BY <3>k, <3>s, Going DEF Alike
    <3>4. /\ done \in Item /\ done.id = known.id /\ done.resp = known.resp
          /\ Alike(known, done) /\ done.deleting = known.deleting /\ done.state = "Inserted"
          /\ done.odd <=> known.odd \/ known.state # "InsertProceeding"
                              \/ ~IsAllowedTransition(known.state, "Inserted")
      BY <3>k, <3>s, Going DEF Alike
    <3> HIDE DEF moving, done
    <3>5. /\ IsAllowedTransition("InsertProceeding", "ChangeRequested")
          /\ IsAllowedTransition("InsertProceeding", "Inserted")
      BY DEF IsAllowedTransition
    <3>6. /\ x.engine /\ ~x.deleting /\ ~(x.removed /\ ~x.refused) /\ (x.odd => x.hurried)
          /\ x.state # "InsertProceeding" => x.hurried
      BY <2>1, <2>4 DEF ItemOK, Inserting
    <3>7. Sure(known) => Sure(x) /\ a.params = [Seen(known) EXCEPT !.count = x.params.count]
      <4>1. /\ Sure(known) => Sure(x) /\ a.params.count = x.params.count
            /\ ~known.astray => Seen(known).line = a.params.line
        BY <2>1, <3>1 DEF Sure, Seen, Inserting
      <4>2. Seen(known) \in View /\ Seen(known).enabled = a.params.enabled /\ a.params \in View
        BY <1>0, <3>1, <3>k, Seeing DEF View, Params
      <4> QED BY <4>1, <4>2 DEF View, Sure
    <3>8a. Seen(moving) = Seen(known) /\ Seen(done) = Seen(known)
      BY <3>3, <3>4, SeenAlike DEF Alike
    <3>8. CASE NeedsChange(known)
      <4>1. /\ moving.engine /\ moving.id # 0 /\ ~moving.deleting /\ ~(moving.removed /\ ~moving.refused)
            /\ moving.odd => moving.hurried
        BY <2>1, <2>4, <3>1, <3>3, <3>5, <3>6 DEF Alike
      <4>2. Numbered(b, moving.id)
        BY <2>1, <2>4, <3>1, <3>3
      <4>3. Before(moving, b)
        BY <2>1, <2>4, <3>1, <3>3, <3>7, <3>8a DEF Before, Alike, Sure
      <4>4. LET f == ChangeBreakpoint(moving, b) IN Follows(f, b) /\ (f.sent = <<>> => AtRest(f.item))
        BY <3>3, <4>1, <4>2, <4>3, ChangeFollows
      <4> QED BY <2>0, <3>2, <3>8, <4>4
    <3>9. CASE ~NeedsChange(known)
      <4>1. ItemOK(done)
        BY <2>1, <2>4, <3>1, <3>4, <3>5, <3>6 DEF Alike, ItemOK
      <4>2. Seen(known) = known.params /\ known.params.count = known.resp.count
        <5>1. ~Differs(known) /\ known.params.count = known.resp.count
          BY <3>9 DEF NeedsChange, IgnoresEnabled, Differs, Moves
        <5> QED BY <3>k, <5>1, Seeing
      <4>5. Sure(known) => a.params = Seen(known)
        BY <3>1, <3>7, <3>k, <4>2, Seeing
      <4>3. Resting(done, b)
        BY <2>1, <2>4, <3>1, <3>4, <3>7, <3>8a, <4>2, <4>5 DEF Resting, Alike, Sure
      <4>4. AtRest(done)
        BY <3>4 DEF AtRest
      <4> QED BY <1>q, <2>0, <3>2, <3>9, <4>1, <4>3, <4>4
    <3> QED BY <3>8, <3>9
  <2> QED BY <2>2, <2>3, <2>4
<1>2. CASE a.op = "break"
  <2>0. d = HandleBreakInsert2(x, a)
    BY <1>2 DEF Callback
  <2>1. /\ Inserting(x) /\ There(x) /\ x.refused
        /\ a.ok => Numbered(b, a.id) /\ a.id # 0
        /\ ~a.ok => InGdb(b) = {}
    BY <1>2 DEF Unread, Insertions, Changes, Inserting, There
  <2>2. CASE ~a.ok
    <3>1. Resting(x, b)
      BY <2>1, <2>2 DEF Resting, NotAsked, Inserting
    <3>2. AtRest(x)
      BY <2>1 DEF AtRest
    <3> QED BY <1>q, <2>0, <2>2, <3>1, <3>2 DEF HandleBreakInsert2
  <2>3. CASE a.ok
    <3> DEFINE y == HandleAlienBreakpoint(x, a)
               z == GotoState(y, "Inserted", "InsertProceeding")
               resp == UpdateResponse(NoResponse, a)
    <3>1. d = Quietly(z)
      BY <2>0, <2>1, <2>3 DEF HandleBreakInsert2
    <3>r. resp \in Response
      BY <1>0, Parameters, Updating
    <3>2. /\ y \in Item
          /\ \/ y.raced
             \/ y.id = a.id /\ y.state = x.state /\ y.odd = x.odd /\ Alike(x, y) /\ y.deleting = x.deleting
      <4> HIDE DEF resp
      <4>1. y = IF resp.line = x.params.line THEN [x EXCEPT !.id = a.id, !.resp = resp]
                                             ELSE [x EXCEPT !.raced = TRUE]
        BY <2>1 DEF HandleAlienBreakpoint, resp
      <4> HIDE DEF y
      <4> QED BY <1>0, <3>r, <4>1 DEF Item, Alike
    <3> HIDE DEF y
    <3>k. y \in Item
      BY <3>2
    <3>s. "InsertProceeding" \in BreakpointState /\ "Inserted" \in BreakpointState
      BY DEF BreakpointState
    <3>3. /\ z \in Item /\ z.id = y.id
          /\ Alike(y, z) /\ z.deleting = y.deleting /\ z.state = "Inserted"
          /\ z.odd <=> y.odd \/ y.state # "InsertProceeding"
                              \/ ~IsAllowedTransition(y.state, "Inserted")
      BY <3>k, <3>s, Going DEF Alike
    <3> HIDE DEF z
    <3>8. CASE y.raced
      <4>1. d.item = z
        BY <3>1 DEF Quietly
      <4> HIDE DEF d
      <4>2. d.item.raced
        BY <3>3, <3>8, <4>1 DEF Alike
      <4> QED BY <4>2
    <3>9. CASE ~y.raced
      <4>4. IsAllowedTransition("InsertProceeding", "Inserted")
        BY DEF IsAllowedTransition
      <4>5. /\ x.engine /\ ~x.deleting /\ (x.odd => x.hurried)
            /\ x.state # "InsertProceeding" => x.hurried
        BY <2>1 DEF ItemOK, Inserting
      <4>6. ItemOK(z)
        BY <2>1, <2>3, <3>2, <3>3, <3>9, <4>4, <4>5 DEF ItemOK, Alike
      <4>7. Resting(z, b) /\ AtRest(z)
        BY <2>1, <2>3, <3>2, <3>3, <3>9 DEF Resting, Alike, Sure, AtRest
      <4> QED BY <1>q, <3>1, <4>6, <4>7
    <3> QED BY <3>8, <3>9
  <2> QED BY <2>2, <2>3
<1>3. CASE a.op = "move"
  <2> DEFINE y == [x EXCEPT !.resp.line = x.params.line, !.state = "InsertRequested",
                            !.odd = @ \/ x.state # "ChangeProceeding", !.astray = FALSE]
  <2>1. Changing(x, "move") /\ InGdb(b) = {}
    BY <1>3 DEF Unread, Insertions
  <2>2. x.state = "ChangeProceeding"
    BY <2>1 DEF Changing
  <2>3. d = InsertBreakpoint(y, b)
    BY <1>3, <2>2 DEF Callback, HandleBreakLineNumber, There
  <2>4. /\ y \in Item /\ y.state = "InsertRequested" /\ y.deleting = x.deleting
        /\ y.engine = x.engine /\ y.removed = x.removed /\ y.hurried = x.hurried
        /\ y.refused = x.refused /\ ~y.astray
        /\ y.odd <=> x.odd
    <3> DEFINE resp == [x.resp EXCEPT !.line = x.params.line]
               odd == x.odd \/ x.state # "ChangeProceeding"
    <3>1. resp \in Response /\ odd \in BOOLEAN /\ (odd <=> x.odd)
      BY <1>0, <2>2 DEF Item, Response, Params
    <3>2. y = [x EXCEPT !.resp = resp, !.state = "InsertRequested", !.odd = odd, !.astray = FALSE]
      BY DEF Item
    <3> HIDE DEF y, resp, odd
    <3> QED BY <3>1, <3>2 DEF Item, BreakpointState
  <2> HIDE DEF y, d
  <2>5. y.engine /\ ~y.deleting /\ ~(y.removed /\ ~y.refused) /\ (y.odd => y.hurried)
    BY <2>2, <2>4 DEF ItemOK
  <2>6. Follows(InsertBreakpoint(y, b), b) /\ AtRest(InsertBreakpoint(y, b).item)
    BY <2>1, <2>4, <2>5, InsertFollows
  <2>7. Follows(d, b) /\ AtRest(d.item)
    BY <2>3, <2>6
  <2> QED BY <2>7
<1>4. ASSUME NEW y \in Item, Alike(x, y), y.id = x.id, y.state = x.state, y.deleting = x.deleting,
             y.odd <=> x.odd, x.state = "ChangeProceeding", Numbered(b, x.id),
             Sure(x) => Exactly(b, x.id, Seen(y), y.resp.pending), d = ChangeBreakpoint(y, b)
      PROVE  Follows(d, b) /\ (d.sent = <<>> => AtRest(d.item))
  <2>1. y.engine /\ y.id # 0 /\ ~y.deleting /\ ~(y.removed /\ ~y.refused) /\ (y.odd => y.hurried)
    BY <1>4 DEF ItemOK, Alike
  <2>2. Before(y, b)
    BY <1>4, Seeing DEF Before, Sure, Alike
  <2>3. LET f == ChangeBreakpoint(y, b) IN Follows(f, b) /\ (f.sent = <<>> => AtRest(f.item))
    BY <1>4, <2>1, <2>2, ChangeFollows
  <2> QED BY <1>4, <2>3
<1>5. CASE a.op = "count"
  <2> DEFINE y == [x EXCEPT !.resp.count = x.params.count]
  <2>1. /\ Changing(x, "count") /\ Numbered(b, x.id)
        /\ Sure(x) => Exactly(b, x.id, [Seen(x) EXCEPT !.count = x.params.count], x.resp.pending)
    BY <1>5 DEF Unread, Insertions
  <2>2. x.state = "ChangeProceeding"
    BY <2>1 DEF Changing
  <2>3. d = ChangeBreakpoint(y, b)
    BY <1>5, <2>2 DEF Callback, HandleBreakIgnore, There
  <2>4. /\ y \in Item /\ Alike(x, y) /\ y.id = x.id /\ y.state = x.state /\ y.deleting = x.deleting
        /\ y.odd <=> x.odd
        /\ y.resp.pending = x.resp.pending /\ Seen(y) = [Seen(x) EXCEPT !.count = x.params.count]
    BY <1>0 DEF Item, Response, Params, Alike, Seen
  <2> HIDE DEF y, d
  <2> QED BY <1>4, <2>1, <2>2, <2>3, <2>4
<1>6. ASSUME NEW on \in BOOLEAN, a.op = (IF on THEN "enable" ELSE "disable"),
             There(x) => d = HandleBreakEnabled(x, a, on)
      PROVE  Follows(d, b) /\ (d.sent = <<>> => AtRest(d.item))
  <2> DEFINE y == [x EXCEPT !.resp.enabled = on, !.odd = @ \/ x.params.enabled # on]
  <2>1. /\ Changing(x, a.op) /\ Numbered(b, x.id)
        /\ Sure(x) => Exactly(b, x.id, x.params, x.resp.pending)
    BY <1>6 DEF Unread, Insertions
  <2>2. /\ x.state = "ChangeProceeding"
        /\ x.params.count = x.resp.count /\ (Sure(x) => x.params.line = Seen(x).line)
        /\ x.params.enabled = on
    BY <1>0, <1>6, <2>1, Seeing DEF Changing, Params, Sure
  <2>3. d = ChangeBreakpoint(y, b)
    BY <1>6, <2>2 DEF HandleBreakEnabled, There
  <2>4. /\ y \in Item /\ Alike(x, y) /\ y.id = x.id /\ y.state = x.state /\ y.deleting = x.deleting
        /\ y.odd <=> x.odd
        /\ y.resp.pending = x.resp.pending /\ Seen(y) = [Seen(x) EXCEPT !.enabled = on]
    <3> DEFINE resp == [x.resp EXCEPT !.enabled = on]
               odd == x.odd \/ x.params.enabled # on
    <3>1. /\ resp \in Response /\ resp.line = x.resp.line /\ resp.count = x.resp.count
          /\ resp.enabled = on /\ resp.pending = x.resp.pending
          /\ odd \in BOOLEAN /\ (odd <=> x.odd)
      BY <1>0, <2>2 DEF Item, Response, Params
    <3>2. y = [x EXCEPT !.resp = resp, !.odd = odd]
      BY DEF Item
    <3> HIDE DEF y, resp, odd
    <3>3. /\ y \in Item /\ Alike(x, y) /\ y.id = x.id /\ y.state = x.state /\ y.deleting = x.deleting
          /\ y.odd <=> x.odd
          /\ y.resp = resp
      BY <3>1, <3>2 DEF Item, Alike
    <3>4. Seen(y) = [Seen(x) EXCEPT !.enabled = on]
      BY <3>1, <3>3 DEF Seen, Alike
    <3> QED BY <3>1, <3>3, <3>4
  <2>5. Sure(x) => [Seen(x) EXCEPT !.enabled = on] = x.params
    BY <1>0, <2>2, Seeing DEF View, Params
  <2> HIDE DEF y, d
  <2> QED BY <1>4, <2>1, <2>2, <2>3, <2>4, <2>5
<1>7. CASE a.op = "disable"
  <2>1. There(x) => d = HandleBreakEnabled(x, a, FALSE)
    BY <1>7 DEF Callback
  <2> QED BY <1>6, <1>7, <2>1
<1>8. CASE a.op = "enable"
  <2>1. There(x) => d = HandleBreakEnabled(x, a, TRUE)
    BY <1>8 DEF Callback
  <2> QED BY <1>6, <1>8, <2>1
<1>9. CASE a.op \notin {"insert", "break", "move", "count", "disable", "enable"}
  <2>1. x.state \in {"Dead", "None"} /\ InGdb(b) = {}
    BY <1>9 DEF Unread, Insertions
  <2>2. Resting(x, b) /\ AtRest(x)
    BY <2>1 DEF Resting, AtRest
  <2>3. d = Quietly(x)
    BY <1>9, <2>1 DEF Callback, Unread, Insertions
  <2> QED BY <1>q, <2>2, <2>3
<1> QED BY <1>1, <1>2, <1>3, <1>5, <1>7, <1>8, <1>9

(* What happens to the others does not concern an item. *)
LEMMA Frame ==
  ASSUME NEW x, NEW b, NEW w, NEW wr, NEW s, NEW sr, SameFor(w, wr, b), SameFor(s, sr, b)
  PROVE  /\ Expected(x, w, s, b) => Expected(x, wr, sr, b)
         /\ Tracked(x, w, s, b) => Tracked(x, wr, sr, b)
         /\ Settled(x, w, s, b) => Settled(x, wr, sr, b)
         /\ \A t, u : Due(x, w, s, t, b) /\ (t => u) => Due(x, wr, sr, u, b)
<1>1. NoneOf(w, b) <=> NoneOf(wr, b)
  BY DEF SameFor
<1>2. NoneOf(s, b) <=> NoneOf(sr, b)
  BY DEF SameFor
<1>3. Tracked(x, w, s, b) => Tracked(x, wr, sr, b)
  <2> SUFFICES ASSUME Tracked(x, w, s, b) PROVE Tracked(x, wr, sr, b)
    OBVIOUS
  <2>1. CASE NoneOf(w, b) /\ NoneOf(s, b) /\ Resting(x, b)
    BY <1>1, <1>2, <2>1 DEF Tracked
  <2>2. ASSUME NEW c \in ToSet(w), Sole(w, b, c), NoneOf(s, b), Sent(x, b, c) PROVE Tracked(x, wr, sr, b)
    <3>1. Sole(wr, b, c)
      BY <2>2 DEF SameFor
    <3>2. c \in ToSet(wr)
      BY <3>1, SoleIsIn
    <3> QED BY <1>2, <2>2, <3>1, <3>2 DEF Tracked
  <2>3. ASSUME NEW c \in ToSet(s), NoneOf(w, b), Sole(s, b, c), Unread(x, b, c) PROVE Tracked(x, wr, sr, b)
    <3>1. Sole(sr, b, c)
      BY <2>3 DEF SameFor
    <3>2. c \in ToSet(sr)
      BY <3>1, SoleIsIn
    <3> QED BY <1>1, <2>3, <3>1, <3>2 DEF Tracked
  <2> QED BY <2>1, <2>2, <2>3 DEF Tracked
<1> QED BY <1>1, <1>2, <1>3 DEF Expected, Settled, Due

LEMMA Unconcerned ==
  ASSUME NEW e, NEW f, NEW s, NEW r, NEW k, Good(e, s, k), f.item[k] = e.item[k],
         SameFor(e.wire, f.wire, k), SameFor(s, r, k), e.timer => f.timer
  PROVE  Good(f, r, k)
<1> DEFINE z == e.item[k]
           w == e.wire
           wr == f.wire
           t == e.timer
<1>1. SameFor(w, wr, k)
  OBVIOUS
<1>2. Owned(z, k) /\ Expected(z, w, s, k) /\ (z.raced \/ Tracked(z, w, s, k))
      /\ (z.raced \/ Due(z, w, s, t, k))
  BY DEF Good, Held
<1>3. f.item[k] = z /\ f.wire = wr /\ (t => f.timer)
  OBVIOUS
<1> HIDE DEF z, w, wr, t
<1>4. /\ Expected(z, w, s, k) => Expected(z, wr, r, k)
      /\ Tracked(z, w, s, k) => Tracked(z, wr, r, k)
      /\ Settled(z, w, s, k) => Settled(z, wr, r, k)
      /\ \A i, j : Due(z, w, s, i, k) /\ (i => j) => Due(z, wr, r, j, k)
  BY <1>1, Frame
<1> QED BY <1>2, <1>3, <1>4 DEF Good, Held

(* One breakpoint, when its callback has been called. *)
LEMMA CallKeeps ==
  ASSUME last \in Nat, TableOK, ~gdb => table = {},
         NEW x \in Item, NEW b \in Bps, NEW w \in Seq(Command), NEW s \in Seq(Answer), s # <<>>,
         Head(s).b = b, AnswersOK(s),
         Owned(x, b), Expected(x, w, s, b), x.raced \/ Tracked(x, w, s, b),
         NEW d, d = Callback(x, Head(s)), NEW t
  PROVE  LET y == d.item wr == w \o d.sent r == Tail(s) IN
         /\ Safely(x, d, b) /\ Expected(y, wr, r, b)
         /\ y.raced \/ (Tracked(y, wr, r, b) /\ Due(y, wr, r, t, b))
<1> DEFINE a == Head(s)
           r == Tail(s)
           y == d.item
           wr == w \o d.sent
<1>1. /\ a \in Answer /\ a.b = b /\ ~NoneOf(s, b) /\ r \in Seq(Answer)
      /\ \A c : Sole(s, b, c) => c = a /\ NoneOf(r, b)
      /\ a \in ToSet(s)
  BY OneLess
<1>2. /\ There(x) /\ phase # "idle" => x.engine
      /\ There(x) \/ x.removed
      /\ There(x) /\ ~x.engine => NoneOf(w, b)
  BY <1>1 DEF Expected
<1>3. a.op \in Insertions /\ a.ok => a.id # 0 /\ Owns(b, a.id)
  BY <1>1 DEF AnswersOK, ToSet
<1> HIDE DEF a, r, y, wr
<1>4. Safely(x, d, b)
  <2>1. a \in Answer /\ a.b = b
    BY <1>1
  <2>2. Safely(x, Callback(x, a), b)
    BY <1>2, <1>3, <2>1, CallbackIsSafe
  <2> QED BY <2>2 DEF a
<1>5. d.sent \in Seq(Command) /\ (d.sent = <<>> \/ \E c \in Command : c.b = b /\ d.sent = <<c>> /\ AcceptsCommands)
  <2>1. d.sent = <<>> \/ \E c \in Command : c.b = b /\ d.sent = <<c>> /\ AcceptsCommands
    BY <1>4 DEF Safely, Yields
  <2>2. <<>> \in Seq(Command) /\ \A c \in Command : <<c>> \in Seq(Command)
    OBVIOUS
  <2> QED BY <2>1, <2>2
<1>6. /\ wr \in Seq(Command)
      /\ d.sent = <<>> => SameFor(w, wr, b)
      /\ \A c : d.sent = <<c>> /\ c.b = b /\ NoneOf(w, b) => Sole(wr, b, c)
  <2> DEFINE q == d.sent
  <2>1. q \in Seq(Command)
    BY <1>5
  <2>2. q = <<>> => NoneOf(q, b)
    BY NothingInEmpty
  <2>3. \A c : q = <<c>> /\ c.b = b => Sole(q, b, c)
    BY OneIsSole
  <2>4. wr = w \o q
    BY DEF wr
  <2> HIDE DEF q
  <2>5. /\ w \o q \in Seq(Command)
        /\ NoneOf(q, b) => SameFor(w, w \o q, b)
        /\ NoneOf(w, b) => \A c : Sole(q, b, c) => Sole(w \o q, b, c)
    BY <2>1, Behind
  <2> QED BY <2>2, <2>3, <2>4, <2>5 DEF q
<1>7. Expected(y, wr, r, b)
  <2>1. There(y) \/ y.removed
    BY <1>2, <1>4 DEF Safely, y
  <2>2. ASSUME There(y), ~y.engine PROVE NoneOf(wr, b) /\ phase = "idle"
    <3>1. There(x) /\ ~x.engine
      BY <1>4, <2>2 DEF Safely, y
    <3>2. NoneOf(w, b) /\ phase = "idle"
      BY <1>2, <3>1
    <3>3. d.sent = <<>>
      BY <1>5, <3>2 DEF AcceptsCommands
    <3> QED BY <1>6, <3>2, <3>3 DEF SameFor
  <2> QED BY <2>1, <2>2 DEF Expected
<1>8. ASSUME ~y.raced
      PROVE  Tracked(y, wr, r, b) /\ Due(y, wr, r, t, b)
  <2>1. Tracked(x, w, s, b)
    BY <1>4, <1>8 DEF Safely, y
  <2>2. PICK c \in ToSet(s) : NoneOf(w, b) /\ Sole(s, b, c) /\ Unread(x, b, c)
    BY <1>1, <2>1 DEF Tracked
  <2>3. NoneOf(w, b) /\ Unread(x, b, a) /\ ItemOK(x) /\ NoneOf(r, b)
    BY <1>1, <2>1, <2>2 DEF Tracked
  <2>4. Follows(d, b) /\ (d.sent = <<>> => AtRest(y))
    <3>1. CASE phase # "idle"
      <4>1. a \in Answer /\ a.b = b /\ (a.op \in Insertions /\ a.ok => a.id # 0)
        BY <1>1, <1>3
      <4>2. LET f == Callback(x, a) IN f.item.raced \/ (Follows(f, b) /\ (f.sent = <<>> => AtRest(f.item)))
        BY <2>3, <3>1, <4>1, CallbackFollows
      <4> QED BY <1>8, <4>2 DEF y, a
    <3>2. CASE phase = "idle"
      <4>1. x.state \in {"None", "New", "Dead"}
        BY <2>3, <3>2 DEF ItemOK
      <4>2. a.op = "delete" /\ x.state \in {"Dead", "None"} /\ InGdb(b) = {}
        BY <2>3, <4>1 DEF Unread, Inserting, Changing
      <4>3. d = Quietly(x)
        BY <4>2 DEF Callback, a
      <4>4. y = x /\ d.sent = <<>> /\ \A e : d.sent # <<e>>
        <5>1. y = x /\ d.sent = <<>>
          BY <4>3 DEF Quietly, y
        <5>2. \A e : <<>> # <<e>>
          OBVIOUS
        <5> QED BY <5>1, <5>2
      <4>5. Resting(x, b) /\ AtRest(x)
        BY <4>2 DEF Resting, AtRest
      <4> QED BY <2>3, <4>4, <4>5 DEF Follows, y
    <3> QED BY <3>1, <3>2
  <2>5. CASE d.sent = <<>>
    <3>1. NoneOf(wr, b)
      BY <1>6, <2>3, <2>5 DEF SameFor
    <3> QED BY <2>3, <2>4, <2>5, <3>1 DEF Follows, Tracked, Due, Settled, AtRest, y
  <2>6. ASSUME NEW k \in Command, k.b = b, d.sent = <<k>>
        PROVE  Tracked(y, wr, r, b) /\ Due(y, wr, r, t, b)
    <3>1. Sole(wr, b, k)
      BY <1>6, <2>3, <2>6
    <3>2. k \in ToSet(wr) /\ ~NoneOf(wr, b)
      BY <3>1, SoleIsIn
    <3>3. Sent(y, b, k) /\ ItemOK(y)
      BY <2>4, <2>6 DEF Follows, y
    <3> QED BY <2>3, <3>1, <3>2, <3>3 DEF Tracked, Due, Settled
  <2> QED BY <1>5, <2>5, <2>6
<1> QED BY <1>4, <1>7, <1>8 DEF y, wr, r

(* The handler, when a callback has been called, and afterwards.             *)
LEMMA CalledIsSound ==
  ASSUME World, NEW e, NEW s, Sound(e, s), s # <<>>
  PROVE  LET f == Called(e, Head(s)) IN Sound(f, Tail(s)) /\ f.timer = e.timer
<1> DEFINE a == Head(s)
           r == Tail(s)
           b == a.b
           d == Callback(e.item[b], a)
           f == Called(e, a)
<1>1. /\ last \in Nat /\ TableOK /\ (~gdb => table = {}) /\ phase \in Phase
      /\ e \in Handler /\ s \in Seq(Answer) /\ (~gdb => e.wire = <<>>)
      /\ WireOK(e.wire) /\ AnswersOK(s) /\ \A k \in Bps : Good(e, s, k)
  BY DEF World, Sound
<1>2. e.item \in [Bps -> Item] /\ e.wire \in Seq(Command) /\ e.timer \in BOOLEAN
  BY <1>1 DEF Handler
<1>3. /\ a \in Answer /\ r \in Seq(Answer)
      /\ \A k : k # b => SameFor(s, r, k)
      /\ \A i \in DOMAIN r : \E j \in DOMAIN s : r[i] = s[j]
  BY <1>1, OneLess
<1>4. b \in Bps
  BY <1>3 DEF Answer
<1> DEFINE x == e.item[b]
           w == e.wire
           y == d.item
           q == d.sent
           wr == w \o q
<1>5. f = [item |-> [e.item EXCEPT ![b] = y], wire |-> wr, timer |-> e.timer]
  <2>1. f = [e EXCEPT !.item[b] = y, !.wire = @ \o q]
    BY DEF Called
  <2>2. e = [item |-> e.item, wire |-> e.wire, timer |-> e.timer]
    BY <1>1 DEF Handler
  <2> HIDE DEF f, y, q, b
  <2> QED BY <2>1, <2>2
<1>6. x \in Item /\ w \in Seq(Command)
  BY <1>2, <1>4
<1>7. Owned(x, b) /\ Expected(x, w, s, b) /\ (x.raced \/ Tracked(x, w, s, b))
  BY <1>1, <1>4 DEF Good, Held
<1>8. /\ Safely(x, d, b) /\ Expected(y, wr, r, b)
      /\ y.raced \/ (Tracked(y, wr, r, b) /\ Due(y, wr, r, e.timer, b))
  <2> DEFINE g == d
  <2> HIDE DEF x, w, g
  <2>0. g = Callback(x, Head(s)) /\ Head(s).b = b
    BY DEF g, x
  <2> HIDE DEF b
  <2>1. LET z == g.item v == w \o g.sent u == Tail(s) IN
         /\ Safely(x, g, b) /\ Expected(z, v, u, b)
         /\ z.raced \/ (Tracked(z, v, u, b) /\ Due(z, v, u, e.timer, b))
    BY <1>1, <1>4, <1>6, <1>7, <2>0, CallKeeps
  <2> QED BY <2>1 DEF g, w
<1> HIDE DEF d
<1>9. y \in Item /\ (q = <<>> \/ \E c \in Command : c.b = b /\ q = <<c>> /\ AcceptsCommands /\ gdb)
      /\ (~stale => \A c \in Command : q = <<c>> => Owns(b, c.id)) /\ Owned(y, b)
  BY <1>8 DEF Safely, Yields
<1>10. q \in Seq(Command) /\ \A i \in DOMAIN q : q[i].b = b /\ (~stale => Owns(b, q[i].id))
  <2>1. CASE q = <<>>
    BY <2>1
  <2>2. ASSUME NEW c \in Command, c.b = b, q = <<c>> PROVE <1>10!1 /\ <1>10!2
    BY <1>9, <2>2
  <2> QED BY <1>9, <2>1, <2>2
<1> HIDE DEF q, y, f, a, r, b, x, w
<1>11. /\ wr \in Seq(Command)
       /\ \A k : k # b => SameFor(w, wr, k)
       /\ \A i \in DOMAIN wr : (\E j \in DOMAIN w : wr[i] = w[j]) \/ (\E j \in DOMAIN q : wr[i] = q[j])
  <2>1. \A k : k # b => NoneOf(q, k)
    BY <1>10 DEF NoneOf
  <2>2. ASSUME NEW k
        PROVE  /\ wr \in Seq(Command)
               /\ NoneOf(q, k) => SameFor(w, wr, k)
               /\ \A i \in DOMAIN wr : (\E j \in DOMAIN w : wr[i] = w[j]) \/ (\E j \in DOMAIN q : wr[i] = q[j])
    BY <1>6, <1>10, Behind
  <2> QED BY <2>1, <2>2
<1>12. ~gdb => wr = <<>>
  BY <1>1, <1>9 DEF w
<1> HIDE DEF wr
<1>13. /\ f.item = [e.item EXCEPT ![b] = y] /\ f.wire = wr /\ f.timer = e.timer
       /\ f = [item |-> f.item, wire |-> f.wire, timer |-> f.timer]
  BY <1>5
<1>14. f \in Handler
  BY <1>2, <1>4, <1>9, <1>11, <1>13 DEF Handler
<1>15. f.item[b] = y /\ \A k \in Bps : k # b => f.item[k] = e.item[k]
  BY <1>2, <1>4, <1>13
<1>16. WireOK(f.wire)
  BY <1>1, <1>10, <1>11, <1>13 DEF WireOK, w
<1>17. AnswersOK(r)
  BY <1>1, <1>3 DEF AnswersOK
<1>18. ASSUME NEW k \in Bps PROVE Good(f, r, k)
  <2>1. CASE k = b
    <3>1. f.item[k] = y /\ f.wire = wr /\ f.timer = e.timer
      BY <2>1, <1>13, <1>15
    <3>2. Owned(y, k) /\ Expected(y, wr, r, k)
      BY <2>1, <1>8, <1>9
    <3>3. y.raced \/ (Tracked(y, wr, r, k) /\ Due(y, wr, r, e.timer, k))
      BY <2>1, <1>8
    <3> QED BY <3>1, <3>2, <3>3 DEF Good, Held
  <2>2. CASE k # b
    <3>1. Good(e, s, k) /\ f.item[k] = e.item[k] /\ f.wire = wr /\ f.timer = e.timer
      BY <1>1, <1>13, <1>15, <2>2
    <3>2. SameFor(e.wire, wr, k) /\ SameFor(s, r, k)
      BY <1>3, <1>11, <2>2 DEF w
    <3> QED BY <3>1, <3>2, Unconcerned
  <2> QED BY <2>1, <2>2
<1>19. Sound(f, r) /\ f.timer = e.timer
  BY <1>3, <1>12, <1>13, <1>14, <1>16, <1>17, <1>18 DEF Sound
<1> QED BY <1>19 DEF f, a, r

LEMMA SynchronizationIsSound ==
  ASSUME World, NEW e, NEW s, e \in Handler, s \in Seq(Answer), ~gdb => e.wire = <<>>,
         WireOK(e.wire), AnswersOK(s), \A b \in Bps : Held(e, s, b), AcceptsBreakpoints,
         NEW f \in AttemptBreakpointSynchronization(e)
  PROVE  /\ Sound(f, s) /\ f.timer = e.timer
         /\ \A b \in Bps : f.item[b].raced \/ Settled(f.item[b], f.wire, s, b)
<1>1. last \in Nat /\ TableOK /\ (~gdb => table = {})
  BY DEF World
<1>2. /\ f \in Handler /\ f.timer = e.timer /\ WireOK(f.wire)
      /\ ~gdb => f.wire = <<>>
      /\ \A b \in Bps : Held(f, s, b) /\ (f.item[b].raced \/ Settled(f.item[b], f.wire, s, b))
  BY <1>1, SynchronizationKeeps
<1> QED BY <1>2 DEF Sound, Good, Due

LEMMA ReadingIsSound ==
  ASSUME World, NEW e, NEW s, Sound(e, s), s # <<>>,
         NEW f \in HandleResultRecord(e, Head(s))
  PROVE  Sound(f, Tail(s))
<1> DEFINE g == Called(e, Head(s))
           r == Tail(s)
<1>1. Sound(g, r)
  BY CalledIsSound
<1>2. f = g \/ f \in AttemptBreakpointSynchronization(g)
  BY DEF HandleResultRecord
<1> HIDE DEF g, r
<1>3. CASE f \in AttemptBreakpointSynchronization(g) /\ AcceptsBreakpoints
  <2>1. /\ g \in Handler /\ r \in Seq(Answer) /\ (~gdb => g.wire = <<>>)
        /\ WireOK(g.wire) /\ AnswersOK(r) /\ \A b \in Bps : Held(g, r, b)
    BY <1>1 DEF Sound, Good
  <2> QED BY <1>3, <2>1, SynchronizationIsSound DEF r
<1>4. CASE f \in AttemptBreakpointSynchronization(g) /\ ~AcceptsBreakpoints
  BY <1>1, <1>4 DEF AttemptBreakpointSynchronization, r
<1> QED BY <1>1, <1>2, <1>3, <1>4 DEF r

-----------------------------------------------------------------------------
(* Steps. *)
LEMMA NextIsSound ==
  ASSUME NEW e, NEW s, h' = e, answers' = s, World', Sound(e, s)'
  PROVE  IInv'
BY DEF IInv, World, TableOK, Sound, WireOK, AnswersOK, Good, Held, Owns, Owned, Expected, Tracked, ItemOK, Resting,
       Sent, Unread, Due, Settled, Inserting, Changing, Before, Exactly, Numbered, InGdb, NotAsked, Sure

LEMMA SameWorld ==
  ASSUME UNCHANGED <<phase, gdb, table, last, stale>>, NEW e, NEW s, Sound(e, s)
  PROVE  Sound(e, s)'
BY DEF Sound, WireOK, AnswersOK, Good, Held, Owns, Owned, Expected, Tracked, ItemOK, Resting,
       Sent, Unread, Due, Settled, Inserting, Changing, Before, Exactly, Numbered, InGdb, NotAsked, Sure

LEMMA StepInSameWorld ==
  ASSUME IInv, UNCHANGED <<phase, gdb, table, last, stale, sessions>>, edits' \in 0..MaxEdits,
         Sound(h', answers')
  PROVE  IInv'
<1>1. World'
  BY DEF IInv, World, TableOK
<1>2. PICK e, s : e = h' /\ s = answers'
  OBVIOUS
<1>3. Sound(e, s)
  BY <1>2
<1>4. Sound(e, s)'
  BY <1>3, SameWorld
<1> QED BY <1>1, <1>2, <1>4, NextIsSound

(* A step of one item. *)
LEMMA PutIsSound ==
  ASSUME NEW e, NEW s, Sound(e, s), NEW b \in Bps, NEW x \in Item, NEW t \in BOOLEAN, e.timer => t,
         Owned(x, b), Expected(x, e.wire, s, b),
         x.raced \/ (Tracked(x, e.wire, s, b) /\ Due(x, e.wire, s, t, b)),
         NEW f, f = [item |-> [e.item EXCEPT ![b] = x], wire |-> e.wire, timer |-> t]
  PROVE  Sound(f, s)
<1>1. /\ e \in Handler /\ s \in Seq(Answer) /\ (~gdb => e.wire = <<>>)
      /\ WireOK(e.wire) /\ AnswersOK(s) /\ \A k \in Bps : Good(e, s, k)
  BY DEF Sound
<1>2. e.item \in [Bps -> Item] /\ e.wire \in Seq(Command)
  BY <1>1 DEF Handler
<1>3. f.wire = e.wire /\ f.timer = t /\ f.item[b] = x /\ \A k \in Bps : k # b => f.item[k] = e.item[k]
  BY <1>2
<1>4. f \in Handler
  BY <1>2 DEF Handler
<1>5. ASSUME NEW k \in Bps PROVE Good(f, s, k)
  <2>1. CASE k = b
    BY <1>3, <2>1 DEF Good, Held
  <2>2. CASE k # b
    <3>1. /\ Good(e, s, k) /\ f.item[k] = e.item[k] /\ SameFor(e.wire, f.wire, k) /\ SameFor(s, s, k)
          /\ e.timer => f.timer
      BY <1>1, <1>3, <2>2, SameForItself
    <3> QED BY <3>1, Unconcerned
  <2> QED BY <2>1, <2>2
<1> QED BY <1>1, <1>3, <1>4, <1>5 DEF Sound

LEMMA FlightOf ==
  ASSUME NEW b
  PROVE  InFlight(b) <=> ~(NoneOf(h.wire, b) /\ NoneOf(answers, b))
BY DEF InFlight, NoneOf, ToSet

(* What the user does to an item that is kept track of.                      *)
Slow(x, y, w, s, b) ==
  /\ y.engine = x.engine /\ y.id = x.id /\ y.resp = x.resp /\ y.refused = x.refused
  /\ y.hurried <=> x.hurried \/ x.state \notin {"New", "Inserted"}
  /\ y.astray <=> x.astray \/ (x.id # 0 /\ x.resp.pending /\ y.params.line # x.params.line)
  /\ (NoneOf(w, b) /\ NoneOf(s, b)) \/ (x.id = 0 /\ y.params.count = x.params.count)

LEMMA NothingForNew ==
  ASSUME NEW x, NEW w, NEW s, NEW b, Tracked(x, w, s, b), x.state \in {"None", "New"}, ~x.removed
  PROVE  NoneOf(w, b) /\ NoneOf(s, b) /\ Resting(x, b) /\ ItemOK(x)
<1>1. \A c : ~Sent(x, b, c) /\ ~Unread(x, b, c)
  BY DEF Sent, Unread, Inserting, Changing
<1> QED BY <1>1 DEF Tracked

LEMMA EditKeeps ==
  ASSUME ~gdb => table = {}, NEW x \in Item, NEW y \in Item, NEW w, NEW s, NEW b,
         Tracked(x, w, s, b), Owned(x, b), There(x), ~x.deleting, ~x.removed, Slow(x, y, w, s, b),
         y.deleting = x.deleting, y.removed = x.removed, y.odd => x.odd \/ y.hurried,
         y.state = x.state \/ (y.state = "ChangeRequested" /\ x.state # "New"),
         Sure(y) /\ x.state = "Inserted" /\ y.state = "Inserted" => y.params = Seen(y)
  PROVE  Tracked(y, w, s, b)
<1>1. /\ ItemOK(x) /\ x.state \in {"New", "InsertProceeding", "ChangeRequested", "ChangeProceeding", "Inserted"}
      /\ y.hurried \/ x.state \in {"New", "Inserted"}
  BY DEF Tracked, ItemOK, Owned, There, Item, BreakpointState, Slow
<1>2. ItemOK(y)
  BY <1>1 DEF ItemOK, Slow
<1>3. CASE NoneOf(w, b) /\ NoneOf(s, b)
  <2>1. Resting(x, b)
    BY <1>3, SoleIsIn DEF Tracked
  <2>2. ~gdb => InGdb(b) = {}
    BY DEF InGdb
  <2>3. Resting(y, b)
    BY <1>1, <2>1, <2>2 DEF Resting, Slow, Sure, NotAsked, Numbered, ItemOK, Seen
  <2> QED BY <1>2, <1>3, <2>3 DEF Tracked
<1>4. CASE ~(NoneOf(w, b) /\ NoneOf(s, b))
  <2>1. x.id = 0 /\ y.params.count = x.params.count /\ y.id = 0 /\ y.refused = x.refused
    BY <1>4 DEF Slow
  <2>2. x.state # "ChangeProceeding"
    BY <1>1, <2>1 DEF ItemOK
  <2>3. Inserting(x) => Inserting(y)
    BY <1>1, <2>1 DEF Inserting, Slow
  <2>4. \A c : Sent(x, b, c) => Sent(y, b, c)
    BY <1>1, <2>1, <2>2, <2>3 DEF Sent, Changing
  <2>s. Sure(y) => Sure(x)
    BY DEF Sure, Slow
  <2>5. \A a : Unread(x, b, a) => Unread(y, b, a)
    BY <1>1, <2>1, <2>2, <2>3, <2>s DEF Unread, Changing
  <2> QED BY <1>2, <1>4, <2>4, <2>5 DEF Tracked
<1> QED BY <1>3, <1>4

LEMMA RemovalKeeps ==
  ASSUME ~gdb => table = {}, NEW x \in Item, NEW y \in Item, NEW w, NEW s, NEW b,
         Tracked(x, w, s, b), Owned(x, b), There(x), ~x.deleting, ~x.removed, Slow(x, y, w, s, b),
         y.removed, y.odd => x.odd \/ y.hurried, y.params = x.params,
         \/ x.state = "New" /\ y.state = "Dead" /\ y.deleting
         \/ x.state # "New" /\ y.state = "RemoveRequested" /\ ~y.deleting
  PROVE  Tracked(y, w, s, b)
<1>1. /\ ItemOK(x) /\ x.state \in {"New", "InsertProceeding", "ChangeRequested", "ChangeProceeding", "Inserted"}
      /\ y.hurried \/ x.state \in {"New", "Inserted"}
  BY DEF Tracked, ItemOK, Owned, There, Item, BreakpointState, Slow
<1>2. ItemOK(y)
  BY <1>1 DEF ItemOK, Slow
<1>3. CASE NoneOf(w, b) /\ NoneOf(s, b)
  <2>1. Resting(x, b)
    BY <1>3, SoleIsIn DEF Tracked
  <2>2. ~gdb => InGdb(b) = {}
    BY DEF InGdb
  <2>3. Resting(y, b)
    BY <1>1, <2>1, <2>2 DEF Resting, Slow, Sure, NotAsked, Numbered, ItemOK, Seen
  <2> QED BY <1>2, <1>3, <2>3 DEF Tracked
<1>4. CASE ~(NoneOf(w, b) /\ NoneOf(s, b))
  <2>1. x.id = 0 /\ y.params.count = x.params.count /\ y.id = 0 /\ y.refused = x.refused
    BY <1>4 DEF Slow
  <2>2. x.state # "ChangeProceeding"
    BY <1>1, <2>1 DEF ItemOK
  <2>3. Inserting(x) => Inserting(y)
    BY <1>1, <2>1 DEF Inserting, Slow
  <2>4. \A c : Sent(x, b, c) => Sent(y, b, c)
    BY <1>1, <2>1, <2>2, <2>3 DEF Sent, Changing
  <2>s. Sure(y) => Sure(x)
    BY DEF Sure, Slow
  <2>5. \A a : Unread(x, b, a) => Unread(y, b, a)
    BY <1>1, <2>1, <2>2, <2>3, <2>s DEF Unread, Changing
  <2> QED BY <1>2, <1>4, <2>4, <2>5 DEF Tracked
<1> QED BY <1>3, <1>4

-----------------------------------------------------------------------------
(* The user's steps. *)
LEMMA Looking ==
  ASSUME IInv, NEW b \in Bps
  PROVE  LET x == h.item[b] IN
         /\ x \in Item /\ h \in Handler /\ h.timer \in BOOLEAN /\ (~gdb => table = {})
         /\ h = [item |-> h.item, wire |-> h.wire, timer |-> h.timer]
         /\ Owned(x, b) /\ Expected(x, h.wire, answers, b)
         /\ x.raced \/ (Tracked(x, h.wire, answers, b) /\ Due(x, h.wire, answers, h.timer, b))
<1>1. h \in Handler /\ Good(h, answers, b) /\ (~gdb => table = {})
  BY DEF IInv, World, Sound
<1>2. h.item \in [Bps -> Item] /\ h.timer \in BOOLEAN
  BY <1>1 DEF Handler
<1>3. h.item[b] \in Item
  BY <1>2
<1>4. h = [item |-> h.item, wire |-> h.wire, timer |-> h.timer]
  BY <1>1 DEF Handler
<1> QED BY <1>1, <1>2, <1>3, <1>4 DEF Good, Held

(* A step that puts y in the place of the item of b.                         *)
LEMMA PutStep ==
  ASSUME IInv, UNCHANGED <<phase, gdb, table, last, stale, sessions, answers>>, edits' \in 0..MaxEdits,
         NEW b \in Bps, NEW y \in Item, NEW t \in BOOLEAN, h.timer => t,
         h' = [item |-> [h.item EXCEPT ![b] = y], wire |-> h.wire, timer |-> t],
         Owned(y, b), Expected(y, h.wire, answers, b),
         y.raced \/ (Tracked(y, h.wire, answers, b) /\ Due(y, h.wire, answers, t, b))
  PROVE  IInv'
<1>1. Sound(h, answers)
  BY DEF IInv
<1>2. PICK f : f = h'
  OBVIOUS
<1>3. Sound(f, answers)
  BY <1>1, <1>2, PutIsSound
<1>4. Sound(h', answers')
  BY <1>2, <1>3
<1> QED BY <1>4, StepInSameWorld

LEMMA Puts ==
  ASSUME NEW b \in Bps, NEW y, h = [item |-> h.item, wire |-> h.wire, timer |-> h.timer]
  PROVE  /\ Put(b, y) = [item |-> [h.item EXCEPT ![b] = y], wire |-> h.wire, timer |-> h.timer]
         /\ ScheduleSynchronization(Put(b, y)) =
              [item |-> [h.item EXCEPT ![b] = y], wire |-> h.wire, timer |-> TRUE]
<1>1. PICK it, w, t : it = h.item /\ w = h.wire /\ t = h.timer
  OBVIOUS
<1>2. h = [item |-> it, wire |-> w, timer |-> t]
  BY <1>1
<1>3. Put(b, y) = [item |-> [it EXCEPT ![b] = y], wire |-> w, timer |-> t]
  BY <1>2 DEF Put
<1>4. ScheduleSynchronization(Put(b, y)) = [item |-> [it EXCEPT ![b] = y], wire |-> w, timer |-> TRUE]
  <2> DEFINE g == Put(b, y)
             u == [it EXCEPT ![b] = y]
  <2>1. g = [item |-> u, wire |-> w, timer |-> t]
    BY <1>3
  <2> HIDE DEF g, u
  <2>2. ScheduleSynchronization(g) = [item |-> u, wire |-> w, timer |-> TRUE]
    <3>1. PICK due : due = TRUE
      OBVIOUS
    <3>2. ScheduleSynchronization(g) = [g EXCEPT !.timer = due]
      BY <3>1 DEF ScheduleSynchronization
    <3>3. [g EXCEPT !.timer = due] = [item |-> u, wire |-> w, timer |-> due]
      BY <2>1
    <3> QED BY <3>1, <3>2, <3>3
  <2> QED BY <2>2 DEF g, u
<1> QED BY <1>1, <1>3, <1>4

LEMMA Touching ==
  ASSUME IInv, NEW b \in Bps
  PROVE  LET o == h.item[b] x == Touch(b) IN
         /\ x \in Item /\ x.state = o.state /\ x.params = o.params /\ x.engine = o.engine /\ x.id = o.id
         /\ x.resp = o.resp /\ x.deleting = o.deleting /\ x.removed = o.removed /\ x.refused = o.refused
         /\ x.odd = o.odd /\ x.astray = o.astray
         /\ x.hurried <=> o.hurried \/ o.state \notin {"New", "Inserted"}
         /\ x.raced <=> \/ o.raced \/ o.removed \/ phase \in {"starting", "shutdown"}
                        \/ o.id # 0 /\ ~(NoneOf(h.wire, b) /\ NoneOf(answers, b))
<1> DEFINE o == h.item[b]
           flight == InFlight(b)
<1>1. o \in Item
  BY Looking
<1>2. flight <=> ~(NoneOf(h.wire, b) /\ NoneOf(answers, b))
  BY FlightOf
<1>3. Touch(b) = [o EXCEPT !.raced = @ \/ (flight /\ o.id # 0) \/ o.removed \/ phase \in {"starting", "shutdown"},
                           !.hurried = @ \/ o.state \notin {"New", "Inserted"}]
  BY DEF Touch
<1>4. flight \in BOOLEAN
  BY DEF InFlight
<1> HIDE DEF o, flight
<1> QED BY <1>1, <1>2, <1>3, <1>4 DEF Item, o

LEMMA StepAppendBreakpoint ==
  ASSUME IInv, NEW b \in Bps, NEW p \in Inputs, AppendBreakpoint(b, p)
  PROVE  IInv'
<1> DEFINE o == h.item[b]
           y == [o EXCEPT !.state = "New", !.params = p]
<1>1. /\ o \in Item /\ Owned(o, b) /\ Expected(o, h.wire, answers, b)
      /\ o.raced \/ Tracked(o, h.wire, answers, b)
      /\ h = [item |-> h.item, wire |-> h.wire, timer |-> h.timer]
  BY Looking
<1>2. /\ ~There(o) /\ ~o.removed /\ h' = ScheduleSynchronization(Put(b, y))
      /\ UNCHANGED <<phase, gdb, table, last, answers, stale, edits, sessions>>
  BY DEF AppendBreakpoint
<1>3. h' = [item |-> [h.item EXCEPT ![b] = y], wire |-> h.wire, timer |-> TRUE]
  BY <1>1, <1>2, Puts
<1>4. edits' \in 0..MaxEdits
  BY <1>2 DEF IInv, World
<1>5. /\ y \in Item /\ y.state = "New" /\ y.engine = o.engine /\ y.id = o.id /\ y.resp = o.resp
      /\ y.deleting = o.deleting /\ y.removed = o.removed /\ y.raced = o.raced
      /\ y.refused = o.refused /\ y.odd = o.odd /\ y.hurried = o.hurried /\ y.astray = o.astray
  BY <1>1, Parameters DEF Item, BreakpointState
<1> HIDE DEF y, o
<1>6. Owned(y, b) /\ Expected(y, h.wire, answers, b)
  BY <1>1, <1>2, <1>5 DEF Owned, Expected, There
<1>7. ASSUME ~y.raced PROVE Tracked(y, h.wire, answers, b)
  <2>1. /\ NoneOf(h.wire, b) /\ NoneOf(answers, b) /\ Resting(o, b) /\ ItemOK(o) /\ o.state = "None"
    BY <1>1, <1>2, <1>5, <1>7, NothingForNew DEF There
  <2>2. ItemOK(y) /\ Resting(y, b)
    BY <1>2, <1>5, <2>1 DEF ItemOK, Resting
  <2> QED BY <2>1, <2>2 DEF Tracked
<1>8. Due(y, h.wire, answers, TRUE, b)
  BY DEF Due
<1> QED BY <1>2, <1>3, <1>4, <1>5, <1>6, <1>7, <1>8, PutStep

LEMMA StepDeletionHelper ==
  ASSUME IInv, NEW b \in Bps, DeletionHelper(b)
  PROVE  IInv'
<1> DEFINE o == h.item[b]
           y == [o EXCEPT !.state = "None", !.params = Absent.params, !.engine = FALSE,
                          !.id = 0, !.resp = NoResponse, !.deleting = FALSE, !.astray = FALSE]
<1>1. /\ o \in Item /\ Owned(o, b) /\ Expected(o, h.wire, answers, b) /\ h.timer \in BOOLEAN
      /\ o.raced \/ Tracked(o, h.wire, answers, b)
      /\ h = [item |-> h.item, wire |-> h.wire, timer |-> h.timer]
  BY Looking
<1>2. /\ o.deleting /\ h' = Put(b, y)
      /\ UNCHANGED <<phase, gdb, table, last, answers, stale, edits, sessions>>
  BY DEF DeletionHelper, Put
<1>3. h' = [item |-> [h.item EXCEPT ![b] = y], wire |-> h.wire, timer |-> h.timer]
  BY <1>1, <1>2, Puts
<1>4. edits' \in 0..MaxEdits
  BY <1>2 DEF IInv, World
<1>5. /\ y \in Item /\ y.state = "None" /\ ~y.engine /\ y.id = 0 /\ y.resp = NoResponse
      /\ ~y.deleting /\ y.removed = o.removed /\ y.raced = o.raced
      /\ y.refused = o.refused /\ y.odd = o.odd /\ y.hurried = o.hurried /\ ~y.astray
  BY <1>1, Parameters DEF Item, BreakpointState
<1> HIDE DEF y, o
<1>6. Owned(y, b) /\ Expected(y, h.wire, answers, b)
  BY <1>1, <1>2, <1>5 DEF Owned, Expected, There
<1>7. ASSUME ~y.raced PROVE Tracked(y, h.wire, answers, b)
  <2>1. Tracked(o, h.wire, answers, b) /\ ItemOK(o) /\ o.state = "Dead" /\ o.removed
    BY <1>1, <1>2, <1>5, <1>7 DEF Tracked, ItemOK
  <2>2. ItemOK(y)
    BY <1>5, <2>1 DEF ItemOK
  <2>3. Resting(o, b) => Resting(y, b)
    BY <1>5, <2>1 DEF Resting
  <2>4. \A c : (Sent(o, b, c) => Sent(y, b, c)) /\ (Unread(o, b, c) => Unread(y, b, c))
    BY <1>5, <2>1 DEF Sent, Unread, Inserting, Changing
  <2> QED BY <2>1, <2>2, <2>3, <2>4 DEF Tracked
<1>8. Due(y, h.wire, answers, h.timer, b)
  BY <1>5 DEF Due, Settled
<1> QED BY <1>1, <1>2, <1>3, <1>4, <1>5, <1>6, <1>7, <1>8, PutStep

LEMMA StepSetEnabled ==
  ASSUME IInv, NEW b \in Bps, SetEnabled(b)
  PROVE  IInv'
<1> DEFINE o == h.item[b]
           x == Touch(b)
           y == [x EXCEPT !.params.enabled = ~@]
           z == [y EXCEPT !.state = "ChangeRequested"]
<1>1. /\ o \in Item /\ Owned(o, b) /\ Expected(o, h.wire, answers, b) /\ h.timer \in BOOLEAN
      /\ o.raced \/ (Tracked(o, h.wire, answers, b) /\ Due(o, h.wire, answers, h.timer, b))
      /\ h = [item |-> h.item, wire |-> h.wire, timer |-> h.timer] /\ (~gdb => table = {})
  BY Looking
<1>2. /\ There(o) /\ ~o.deleting /\ edits < MaxEdits /\ edits' = edits + 1
      /\ h' = IF y.engine THEN ScheduleSynchronization(Put(b, z)) ELSE Put(b, y)
      /\ UNCHANGED <<phase, gdb, table, last, answers, stale, sessions>>
  BY DEF SetEnabled, Edit
<1>3. edits' \in 0..MaxEdits
  BY <1>2, ParametersAssumption DEF IInv, World
<1>4. /\ x \in Item /\ x.state = o.state /\ x.params = o.params /\ x.engine = o.engine /\ x.id = o.id
      /\ x.resp = o.resp /\ x.deleting = o.deleting /\ x.removed = o.removed /\ x.refused = o.refused
      /\ x.odd = o.odd /\ x.astray = o.astray
      /\ x.hurried <=> o.hurried \/ o.state \notin {"New", "Inserted"}
      /\ x.raced <=> \/ o.raced \/ o.removed \/ phase \in {"starting", "shutdown"}
                     \/ o.id # 0 /\ ~(NoneOf(h.wire, b) /\ NoneOf(answers, b))
  BY Touching
<1> HIDE DEF x
<1>5. /\ y \in Item /\ y.state = x.state /\ y.params.count = x.params.count /\ y.engine = x.engine
      /\ y.id = x.id /\ y.resp = x.resp /\ y.deleting = x.deleting /\ y.removed = x.removed
      /\ y.refused = x.refused /\ y.odd = x.odd /\ y.hurried = x.hurried /\ y.raced = x.raced
      /\ y.astray = x.astray /\ y.params.line = x.params.line
  BY <1>4 DEF Item, Params
<1> HIDE DEF y
<1>6. /\ z \in Item /\ z.state = "ChangeRequested" /\ z.params = y.params /\ z.engine = y.engine
      /\ z.id = y.id /\ z.resp = y.resp /\ z.deleting = y.deleting /\ z.removed = y.removed
      /\ z.refused = y.refused /\ z.odd = y.odd /\ z.hurried = y.hurried /\ z.raced = y.raced
      /\ z.astray = y.astray
  BY <1>5 DEF Item, BreakpointState
<1> HIDE DEF z, o
<1>7. CASE y.engine
  <2>1. h' = [item |-> [h.item EXCEPT ![b] = z], wire |-> h.wire, timer |-> TRUE]
    BY <1>1, <1>2, <1>7, Puts
  <2>2. Owned(z, b) /\ Expected(z, h.wire, answers, b)
    BY <1>1, <1>2, <1>4, <1>5, <1>6, <1>7 DEF Owned, Expected, There
  <2>3. ASSUME ~z.raced PROVE Tracked(z, h.wire, answers, b)
    <3>1. ~o.raced /\ ~o.removed
      BY <1>4, <1>5, <1>6, <2>3
    <3>2. Slow(o, z, h.wire, answers, b)
      BY <1>4, <1>5, <1>6, <2>3 DEF Slow
    <3>3. Tracked(o, h.wire, answers, b) /\ o.state # "New"
      BY <1>1, <1>4, <1>5, <1>7, <3>1 DEF Tracked, ItemOK
    <3>4. /\ z.deleting = o.deleting /\ z.removed = o.removed /\ (z.odd => o.odd \/ z.hurried)
          /\ z.state = "ChangeRequested"
      BY <1>4, <1>5, <1>6
    <3> QED BY <1>1, <1>2, <1>6, <3>1, <3>2, <3>3, <3>4, EditKeeps
  <2>4. Due(z, h.wire, answers, TRUE, b)
    BY DEF Due
  <2> QED BY <1>2, <1>3, <1>6, <2>1, <2>2, <2>3, <2>4, PutStep
<1>8. CASE ~y.engine
  <2>1. h' = [item |-> [h.item EXCEPT ![b] = y], wire |-> h.wire, timer |-> h.timer]
    BY <1>1, <1>2, <1>8, Puts
  <2>2. Owned(y, b) /\ Expected(y, h.wire, answers, b)
    BY <1>1, <1>2, <1>4, <1>5, <1>8 DEF Owned, Expected, There
  <2>3. ASSUME ~y.raced PROVE Tracked(y, h.wire, answers, b) /\ Due(y, h.wire, answers, h.timer, b)
    <3>1. ~o.raced /\ ~o.removed
      BY <1>4, <1>5, <2>3
    <3>2. Slow(o, y, h.wire, answers, b)
      BY <1>4, <1>5, <2>3 DEF Slow
    <3>3. Tracked(o, h.wire, answers, b) /\ o.state = "New"
      BY <1>1, <1>2, <1>4, <1>5, <1>8, <3>1 DEF Tracked, ItemOK, There
    <3>4. /\ y.deleting = o.deleting /\ y.removed = o.removed /\ (y.odd => o.odd \/ y.hurried)
          /\ y.state = o.state
      BY <1>4, <1>5
    <3>5. Tracked(y, h.wire, answers, b)
      BY <1>1, <1>2, <1>5, <3>1, <3>2, <3>3, <3>4, EditKeeps
    <3>6. Due(y, h.wire, answers, h.timer, b)
      BY <1>1, <1>4, <1>5, <3>1 DEF Due, Settled
    <3> QED BY <3>5, <3>6
  <2> QED BY <1>1, <1>2, <1>3, <1>5, <2>1, <2>2, <2>3, PutStep
<1> QED BY <1>7, <1>8

LEMMA StepChangeBreakpointData ==
  ASSUME IInv, NEW b \in Bps, NEW p \in Inputs, ChangeBreakpointData(b, p)
  PROVE  IInv'
<1> DEFINE o == h.item[b]
           x == Touch(b)
           flight == InFlight(b)
           lost == o.id # 0 /\ o.resp.pending /\ p.line # o.params.line
           y == [x EXCEPT !.params = p, !.raced = @ \/ (flight /\ p.count # o.params.count),
                          !.astray = @ \/ lost]
           z == SetState(y, "ChangeRequested")
<1>1. /\ o \in Item /\ Owned(o, b) /\ Expected(o, h.wire, answers, b) /\ h.timer \in BOOLEAN
      /\ o.raced \/ (Tracked(o, h.wire, answers, b) /\ Due(o, h.wire, answers, h.timer, b))
      /\ h = [item |-> h.item, wire |-> h.wire, timer |-> h.timer] /\ (~gdb => table = {})
  BY Looking
<1>2. /\ There(o) /\ ~o.deleting /\ edits < MaxEdits /\ edits' = edits + 1 /\ p # o.params
      /\ h' = IF NeedsChange(y) /\ y.engine /\ y.state # "New"
              THEN ScheduleSynchronization(Put(b, z)) ELSE Put(b, y)
      /\ UNCHANGED <<phase, gdb, table, last, answers, stale, sessions>>
  BY DEF ChangeBreakpointData, Edit
<1>3. edits' \in 0..MaxEdits
  BY <1>2, ParametersAssumption DEF IInv, World
<1>4. /\ x \in Item /\ x.state = o.state /\ x.params = o.params /\ x.engine = o.engine /\ x.id = o.id
      /\ x.resp = o.resp /\ x.deleting = o.deleting /\ x.removed = o.removed /\ x.refused = o.refused
      /\ x.odd = o.odd /\ x.astray = o.astray
      /\ x.hurried <=> o.hurried \/ o.state \notin {"New", "Inserted"}
      /\ x.raced <=> \/ o.raced \/ o.removed \/ phase \in {"starting", "shutdown"}
                     \/ o.id # 0 /\ ~(NoneOf(h.wire, b) /\ NoneOf(answers, b))
  BY Touching
<1>f. (flight <=> ~(NoneOf(h.wire, b) /\ NoneOf(answers, b))) /\ flight \in BOOLEAN
  BY FlightOf DEF InFlight
<1>l. (lost <=> o.id # 0 /\ o.resp.pending /\ p.line # o.params.line) /\ lost \in BOOLEAN
  BY <1>1 DEF Item, Response
<1> HIDE DEF x, o, flight, lost
<1>5. /\ y \in Item /\ y.state = x.state /\ y.params = p /\ y.engine = x.engine
      /\ y.id = x.id /\ y.resp = x.resp /\ y.deleting = x.deleting /\ y.removed = x.removed
      /\ y.refused = x.refused /\ y.odd = x.odd /\ y.hurried = x.hurried
      /\ y.raced <=> x.raced \/ (flight /\ p.count # o.params.count)
      /\ y.astray <=> x.astray \/ lost
  BY <1>4, <1>f, <1>l, Parameters DEF Item
<1> HIDE DEF y
<1>6. /\ z \in Item /\ z.state = "ChangeRequested" /\ z.params = y.params /\ z.engine = y.engine
      /\ z.id = y.id /\ z.resp = y.resp /\ z.deleting = y.deleting /\ z.removed = y.removed
      /\ z.refused = y.refused /\ z.hurried = y.hurried /\ z.raced = y.raced
      /\ z.astray = y.astray
      /\ z.odd <=> y.odd \/ ~IsAllowedTransition(y.state, "ChangeRequested")
  BY <1>5 DEF SetState, Item, BreakpointState
<1>7. IsAllowedTransition("Inserted", "ChangeRequested")
  BY DEF IsAllowedTransition
<1> HIDE DEF z
<1>8. CASE NeedsChange(y) /\ y.engine /\ y.state # "New"
  <2>1. h' = [item |-> [h.item EXCEPT ![b] = z], wire |-> h.wire, timer |-> TRUE]
    BY <1>1, <1>2, <1>8, Puts DEF o
  <2>2. Owned(z, b) /\ Expected(z, h.wire, answers, b)
    BY <1>1, <1>2, <1>4, <1>5, <1>6, <1>8 DEF Owned, Expected, There
  <2>3. ASSUME ~z.raced PROVE Tracked(z, h.wire, answers, b)
    <3>1. ~o.raced /\ ~o.removed
      BY <1>4, <1>5, <1>6, <2>3
    <3>2. Slow(o, z, h.wire, answers, b)
      BY <1>4, <1>5, <1>6, <1>f, <1>l, <2>3 DEF Slow
    <3>3. Tracked(o, h.wire, answers, b) /\ o.state # "New"
      BY <1>1, <1>4, <1>5, <1>8, <3>1
    <3>4. /\ z.deleting = o.deleting /\ z.removed = o.removed /\ (z.odd => o.odd \/ z.hurried)
          /\ z.state = "ChangeRequested"
      BY <1>4, <1>5, <1>6, <1>7, <1>8
    <3> QED BY <1>1, <1>2, <1>6, <3>1, <3>2, <3>3, <3>4, EditKeeps
  <2>4. Due(z, h.wire, answers, TRUE, b)
    BY DEF Due
  <2> QED BY <1>2, <1>3, <1>6, <2>1, <2>2, <2>3, <2>4, PutStep
<1>9. CASE ~(NeedsChange(y) /\ y.engine /\ y.state # "New")
  <2>1. h' = [item |-> [h.item EXCEPT ![b] = y], wire |-> h.wire, timer |-> h.timer]
    BY <1>1, <1>2, <1>9, Puts DEF o
  <2>2. Owned(y, b) /\ Expected(y, h.wire, answers, b)
    BY <1>1, <1>2, <1>4, <1>5 DEF Owned, Expected, There
  <2>3. ASSUME ~y.raced PROVE Tracked(y, h.wire, answers, b) /\ Due(y, h.wire, answers, h.timer, b)
    <3>1. ~o.raced /\ ~o.removed
      BY <1>4, <1>5, <2>3
    <3>2. Slow(o, y, h.wire, answers, b)
      BY <1>4, <1>5, <1>f, <1>l, <2>3 DEF Slow
    <3>3. Tracked(o, h.wire, answers, b) /\ ItemOK(o)
      BY <1>1, <3>1 DEF Tracked
    <3>4. /\ y.deleting = o.deleting /\ y.removed = o.removed /\ (y.odd => o.odd \/ y.hurried)
          /\ y.state = o.state
      BY <1>4, <1>5
    <3>5. o.state = "Inserted" => y.params = Seen(y)
      <4>1. o.state = "Inserted" => ~NeedsChange(y)
        BY <1>4, <1>5, <1>9, <3>3 DEF ItemOK
      <4>2. ~NeedsChange(y) => ~Differs(y)
        BY DEF NeedsChange, IgnoresEnabled, Differs, Moves
      <4> QED BY <1>5, <4>1, <4>2, Seeing
    <3>6. Tracked(y, h.wire, answers, b)
      BY <1>1, <1>2, <1>5, <3>1, <3>2, <3>3, <3>4, <3>5, EditKeeps
    <3>7. Due(y, h.wire, answers, h.timer, b)
      BY <1>1, <1>4, <1>5, <3>1 DEF Due, Settled
    <3> QED BY <3>6, <3>7
  <2> QED BY <1>1, <1>2, <1>3, <1>5, <2>1, <2>2, <2>3, PutStep DEF o
<1> QED BY <1>8, <1>9

LEMMA StepRemoveItem ==
  ASSUME IInv, NEW b \in Bps, RemoveItem(b)
  PROVE  IInv'
<1> DEFINE o == h.item[b]
           t == Touch(b)
           x == [t EXCEPT !.removed = TRUE]
           y == CASE x.state = "RemoveRequested" -> x
                  [] x.state \in {"Inserted", "InsertProceeding"} -> SetState(x, "RemoveRequested")
                  [] x.state = "New" -> DeleteThis(x)
                  [] OTHER -> [x EXCEPT !.state = "RemoveRequested"]
           due == h.timer \/ x.state \in {"Inserted", "InsertProceeding"}
<1>1. /\ o \in Item /\ Owned(o, b) /\ Expected(o, h.wire, answers, b) /\ h.timer \in BOOLEAN
      /\ o.raced \/ (Tracked(o, h.wire, answers, b) /\ Due(o, h.wire, answers, h.timer, b))
      /\ h = [item |-> h.item, wire |-> h.wire, timer |-> h.timer] /\ (~gdb => table = {})
  BY Looking
<1>2. /\ There(o) /\ ~o.deleting /\ edits < MaxEdits /\ edits' = edits + 1
      /\ h' = CASE x.state = "RemoveRequested" -> Put(b, x)
                [] x.state \in {"Inserted", "InsertProceeding"} ->
                     ScheduleSynchronization(Put(b, SetState(x, "RemoveRequested")))
                [] x.state = "New" -> Put(b, DeleteThis(x))
                [] OTHER -> Put(b, [x EXCEPT !.state = "RemoveRequested"])
      /\ UNCHANGED <<phase, gdb, table, last, answers, stale, sessions>>
  BY DEF RemoveItem, Edit
<1>3. edits' \in 0..MaxEdits
  BY <1>2, ParametersAssumption DEF IInv, World
<1>4. /\ t \in Item /\ t.state = o.state /\ t.params = o.params /\ t.engine = o.engine /\ t.id = o.id
      /\ t.resp = o.resp /\ t.deleting = o.deleting /\ t.removed = o.removed /\ t.refused = o.refused
      /\ t.odd = o.odd /\ t.astray = o.astray
      /\ t.hurried <=> o.hurried \/ o.state \notin {"New", "Inserted"}
      /\ t.raced <=> \/ o.raced \/ o.removed \/ phase \in {"starting", "shutdown"}
                     \/ o.id # 0 /\ ~(NoneOf(h.wire, b) /\ NoneOf(answers, b))
  BY Touching
<1> HIDE DEF t, o
<1>5. /\ x \in Item /\ x.state = t.state /\ x.params = t.params /\ x.engine = t.engine
      /\ x.id = t.id /\ x.resp = t.resp /\ x.deleting = t.deleting /\ x.removed
      /\ x.refused = t.refused /\ x.odd = t.odd /\ x.hurried = t.hurried /\ x.raced = t.raced
      /\ x.astray = t.astray
  BY <1>4 DEF Item
<1> HIDE DEF x
<1>6. h' = [item |-> [h.item EXCEPT ![b] = y], wire |-> h.wire, timer |-> due]
  <2>1. CASE x.state = "RemoveRequested"
    BY <1>1, <1>2, <2>1, Puts DEF o
  <2>2. CASE x.state \in {"Inserted", "InsertProceeding"}
    BY <1>1, <1>2, <2>2, Puts DEF o
  <2>3. CASE x.state = "New"
    BY <1>1, <1>2, <2>3, Puts DEF o
  <2>4. CASE x.state \notin {"RemoveRequested", "Inserted", "InsertProceeding", "New"}
    BY <1>1, <1>2, <2>4, Puts DEF o
  <2> QED BY <2>1, <2>2, <2>3, <2>4
<1>7. /\ IsAllowedTransition("Inserted", "RemoveRequested")
      /\ IsAllowedTransition("InsertProceeding", "RemoveRequested")
      /\ IsAllowedTransition("New", "Dead")
  BY DEF IsAllowedTransition
<1>8. /\ y \in Item /\ y.params = x.params /\ y.engine = x.engine
      /\ y.id = x.id /\ y.resp = x.resp /\ y.removed
      /\ y.refused = x.refused /\ y.hurried = x.hurried /\ y.raced = x.raced
      /\ y.astray = x.astray
      /\ y.odd <=> x.odd
      /\ x.state = "New" => y.state = "Dead" /\ y.deleting
      /\ x.state # "New" => y.state = "RemoveRequested" /\ y.deleting = x.deleting
  <2>1. CASE x.state = "RemoveRequested"
    BY <1>5, <2>1
  <2>2. CASE x.state \in {"Inserted", "InsertProceeding"}
    BY <1>5, <1>7, <2>2 DEF SetState, Item, BreakpointState
  <2>3. CASE x.state = "New"
    BY <1>5, <1>7, <2>3 DEF DeleteThis, SetState, Item, BreakpointState
  <2>4. CASE x.state \notin {"RemoveRequested", "Inserted", "InsertProceeding", "New"}
    BY <1>5, <2>4 DEF Item, BreakpointState
  <2> QED BY <2>1, <2>2, <2>3, <2>4
<1> HIDE DEF y
<1>9. Owned(y, b) /\ Expected(y, h.wire, answers, b)
  BY <1>1, <1>2, <1>4, <1>5, <1>8 DEF Owned, Expected, There
<1>10. ASSUME ~y.raced PROVE Tracked(y, h.wire, answers, b) /\ Due(y, h.wire, answers, due, b)
  <2>1. ~o.raced /\ ~o.removed
    BY <1>4, <1>5, <1>8, <1>10
  <2>2. Slow(o, y, h.wire, answers, b)
    BY <1>4, <1>5, <1>8, <1>10 DEF Slow
  <2>3. Tracked(o, h.wire, answers, b) /\ ItemOK(o)
    BY <1>1, <2>1 DEF Tracked
  <2>4. y.params = o.params /\ (y.odd => o.odd \/ y.hurried)
        /\ (o.state = "New" => y.state = "Dead" /\ y.deleting)
        /\ (o.state # "New" => y.state = "RemoveRequested" /\ ~y.deleting)
    BY <1>2, <1>4, <1>5, <1>8
  <2>5. Tracked(y, h.wire, answers, b)
    BY <1>1, <1>2, <1>8, <2>1, <2>2, <2>3, <2>4, RemovalKeeps
  <2>6. Due(y, h.wire, answers, due, b)
    <3>1. CASE o.state = "New"
      BY <2>4, <3>1 DEF Due, Settled
    <3>2. CASE o.state \in {"Inserted", "InsertProceeding"}
      BY <1>4, <1>5, <3>2 DEF Due
    <3>3. CASE o.state = "ChangeRequested"
      BY <1>1, <1>4, <1>5, <1>8, <2>1, <3>3 DEF Due, Settled
    <3>4. CASE o.state = "ChangeProceeding"
      <4>1. gdb => ~(NoneOf(h.wire, b) /\ NoneOf(answers, b))
        BY <2>3, <3>4, SoleIsIn DEF Tracked, Resting
      <4> QED BY <4>1 DEF Due, Settled
    <3>5. o.state \in {"New", "Inserted", "InsertProceeding", "ChangeRequested", "ChangeProceeding"}
      BY <1>1, <1>2, <2>1, <2>3 DEF Owned, ItemOK, There, Item, BreakpointState
    <3> QED BY <3>1, <3>2, <3>3, <3>4, <3>5
  <2> QED BY <2>5, <2>6
<1>11. due \in BOOLEAN /\ (h.timer => due)
  BY <1>1
<1> HIDE DEF due
<1> QED BY <1>2, <1>3, <1>6, <1>8, <1>9, <1>10, <1>11, PutStep DEF o

-----------------------------------------------------------------------------
(* The event loop's steps. *)
LEMMA StepReadAnswer ==
  ASSUME IInv, ReadAnswer
  PROVE  IInv'
<1>1. /\ answers # <<>> /\ h' \in HandleResultRecord(h, Head(answers)) /\ answers' = Tail(answers)
      /\ UNCHANGED <<phase, gdb, table, last, stale, edits, sessions>>
  BY DEF ReadAnswer
<1>2. World /\ Sound(h, answers) /\ edits \in 0..MaxEdits
  BY DEF IInv, World
<1>3. PICK f : f = h'
  OBVIOUS
<1>4. f \in HandleResultRecord(h, Head(answers))
  BY <1>1, <1>3
<1>5. Sound(f, Tail(answers))
  BY <1>1, <1>2, <1>4, ReadingIsSound
<1>6. Sound(h', answers')
  BY <1>1, <1>3, <1>5
<1> QED BY <1>1, <1>2, <1>6, StepInSameWorld

(* When nothing is promised of what waits, the timer does not matter.        *)
LEMMA WithoutTimer ==
  ASSUME NEW e, NEW s, Sound(e, s), NEW g, g = [e EXCEPT !.timer = FALSE]
  PROVE  /\ g \in Handler /\ s \in Seq(Answer) /\ (~gdb => g.wire = <<>>)
         /\ WireOK(g.wire) /\ AnswersOK(s) /\ \A b \in Bps : Held(g, s, b)
         /\ g.item = e.item /\ g.wire = e.wire /\ g.timer = FALSE
<1>1. /\ e \in Handler /\ s \in Seq(Answer) /\ (~gdb => e.wire = <<>>)
      /\ WireOK(e.wire) /\ AnswersOK(s) /\ \A b \in Bps : Held(e, s, b)
  BY DEF Sound, Good
<1>2. g \in Handler /\ g.item = e.item /\ g.wire = e.wire /\ g.timer = FALSE
  BY <1>1 DEF Handler
<1> QED BY <1>1, <1>2 DEF Held

LEMMA Racing ==
  ASSUME NEW x \in Item, NEW b, NEW w, NEW s, NEW y, NEW r \in BOOLEAN, y = [x EXCEPT !.raced = r]
  PROVE  /\ y \in Item
         /\ Owned(x, b) => Owned(y, b)
         /\ Expected(x, w, s, b) => Expected(y, w, s, b)
         /\ Tracked(x, w, s, b) => Tracked(y, w, s, b)
<1>1. /\ y \in Item /\ y.state = x.state /\ y.params = x.params /\ y.engine = x.engine /\ y.id = x.id
      /\ y.resp = x.resp /\ y.deleting = x.deleting /\ y.removed = x.removed /\ y.hurried = x.hurried
      /\ y.refused = x.refused /\ y.odd = x.odd /\ y.astray = x.astray
  BY DEF Item
<1>s. Seen(y) = Seen(x) /\ (Moves(y) <=> Moves(x))
  BY <1>1, SeenAlike
<1>2. ItemOK(x) => ItemOK(y)
  BY <1>1 DEF ItemOK
<1>3. Resting(x, b) => Resting(y, b)
  BY <1>1, <1>s DEF Resting, NotAsked, Sure
<1>4. Inserting(x) => Inserting(y)
  BY <1>1 DEF Inserting
<1>5. \A op : Changing(x, op) => Changing(y, op)
  BY <1>1, <1>s DEF Changing
<1>6. Before(x, b) => Before(y, b)
  BY <1>1, <1>s DEF Before, Sure
<1>7. \A c : Sent(x, b, c) => Sent(y, b, c)
  BY <1>1, <1>4, <1>5, <1>6 DEF Sent
<1>8. \A c : Unread(x, b, c) => Unread(y, b, c)
  BY <1>1, <1>s, <1>4, <1>5 DEF Unread, Sure
<1>9. Tracked(x, w, s, b) => Tracked(y, w, s, b)
  BY <1>2, <1>3, <1>7, <1>8 DEF Tracked
<1>10. (Owned(x, b) => Owned(y, b)) /\ (Expected(x, w, s, b) => Expected(y, w, s, b))
  BY <1>1 DEF Owned, Expected, There
<1> QED BY <1>1, <1>9, <1>10

LEMMA StepTimerEvent ==
  ASSUME IInv, TimerEvent
  PROVE  IInv'
<1> DEFINE e == [h EXCEPT !.timer = FALSE]
<1>1. /\ h' \in IF AcceptsBreakpoints THEN AttemptBreakpointSynchronization(e) ELSE {Missed(e)}
      /\ UNCHANGED <<phase, gdb, table, last, answers, stale, edits, sessions>>
  BY DEF TimerEvent
<1>2. World /\ Sound(h, answers) /\ edits \in 0..MaxEdits /\ phase \in Phase
  BY DEF IInv, World
<1>3. /\ e \in Handler /\ answers \in Seq(Answer) /\ (~gdb => e.wire = <<>>)
      /\ WireOK(e.wire) /\ AnswersOK(answers) /\ \A b \in Bps : Held(e, answers, b)
  BY <1>2, WithoutTimer
<1> HIDE DEF e
<1>4. PICK f : f = h'
  OBVIOUS
<1>5. ASSUME AcceptsBreakpoints PROVE Sound(f, answers)
  <2>1. f \in AttemptBreakpointSynchronization(e)
    BY <1>1, <1>4, <1>5
  <2> QED BY <1>2, <1>3, <1>5, <2>1, SynchronizationIsSound
<1>6. ASSUME ~AcceptsBreakpoints PROVE Sound(f, answers)
  <2> DEFINE r == [b \in Bps |-> e.item[b].raced \/ (phase \in {"starting", "shutdown"} /\ e.item[b].state \in Waiting)]
  <2>1. e.item \in [Bps -> Item] /\ e = [item |-> e.item, wire |-> e.wire, timer |-> e.timer]
        /\ e.wire \in Seq(Command) /\ e.timer \in BOOLEAN
    BY <1>3 DEF Handler
  <2> DEFINE new == [b \in Bps |-> [e.item[b] EXCEPT !.raced = @ \/ (phase \in {"starting", "shutdown"} /\ e.item[b].state \in Waiting)]]
  <2>2. f = [e EXCEPT !.item = new]
    <3>1. f = Missed(e)
      BY <1>1, <1>4, <1>6
    <3>2. Missed(e) = [e EXCEPT !.item = new]
      BY DEF Missed
    <3> QED BY <3>1, <3>2
  <2>3. /\ f.wire = e.wire /\ f.timer = e.timer /\ f = [item |-> f.item, wire |-> f.wire, timer |-> f.timer]
        /\ f.item = new
    <3> HIDE DEF new
    <3> QED BY <2>1, <2>2
  <2>4. ASSUME NEW b \in Bps
        PROVE  f.item[b] = [e.item[b] EXCEPT !.raced = r[b]] /\ r[b] \in BOOLEAN
               /\ (~r[b] => ~e.item[b].raced /\ ~(phase \in {"starting", "shutdown"} /\ e.item[b].state \in Waiting))
               /\ (f.item[b].raced <=> r[b]) /\ f.item[b].state = e.item[b].state /\ f.item[b] \in Item
    <3>1. e.item[b] \in Item
      BY <2>1
    <3>2. r[b] = (e.item[b].raced \/ (phase \in {"starting", "shutdown"} /\ e.item[b].state \in Waiting))
      OBVIOUS
    <3>3. r[b] \in BOOLEAN
      BY <3>1, <3>2 DEF Item
    <3>4. f.item[b] = [e.item[b] EXCEPT !.raced = r[b]]
      BY <2>3, <3>1, <3>2
    <3> HIDE DEF r
    <3> QED BY <3>1, <3>2, <3>3, <3>4 DEF Item
  <2> HIDE DEF r
  <2>5. f \in Handler
    <3>1. f.item \in [Bps -> Item]
      BY <2>3, <2>4
    <3> QED BY <2>1, <2>3, <3>1 DEF Handler
  <2>6. ASSUME NEW b \in Bps PROVE Good(f, answers, b)
    <3> DEFINE x == e.item[b]
               y == f.item[b]
    <3>1. x \in Item /\ y = [x EXCEPT !.raced = r[b]] /\ r[b] \in BOOLEAN /\ (y.raced <=> r[b]) /\ y.state = x.state
          /\ (~r[b] => ~x.raced /\ ~(phase \in {"starting", "shutdown"} /\ x.state \in Waiting))
      BY <2>1, <2>4
    <3>2. Owned(x, b) /\ Expected(x, e.wire, answers, b) /\ (x.raced \/ Tracked(x, e.wire, answers, b))
      BY <1>3 DEF Held
    <3> HIDE DEF x, y
    <3>3. Owned(y, b) /\ Expected(y, e.wire, answers, b) /\ (Tracked(x, e.wire, answers, b) => Tracked(y, e.wire, answers, b))
      BY <3>1, <3>2, Racing
    <3>4. y.raced \/ Due(y, e.wire, answers, e.timer, b)
      <4>1. phase \in {"idle", "starting", "shutdown"}
        BY <1>2, <1>6 DEF AcceptsBreakpoints, Phase
      <4>2. ASSUME ~y.raced, phase = "starting" PROVE x.state \notin {"New", "ChangeRequested", "RemoveRequested"}
        BY <3>1, <4>2 DEF Waiting
      <4> QED BY <3>1, <4>1, <4>2 DEF Due, Settled
    <3>5. y.raced \/ Tracked(y, e.wire, answers, b)
      BY <3>1, <3>2, <3>3
    <3> QED BY <2>3, <3>3, <3>4, <3>5 DEF Good, Held, y
  <2> QED BY <1>3, <2>3, <2>5, <2>6 DEF Sound
<1>7. Sound(h', answers')
  BY <1>1, <1>4, <1>5, <1>6
<1> QED BY <1>1, <1>2, <1>7, StepInSameWorld

-----------------------------------------------------------------------------
(* The debugger's steps. *)
LEMMA PhaseChanges ==
  ASSUME UNCHANGED <<gdb, table, last, stale>>, phase # "idle", phase' # "idle", NEW e, NEW s, Sound(e, s),
         phase' \in {"prepared", "starting", "live"} /\ ~e.timer
           => \A b \in Bps : e.item[b].raced \/ Settled(e.item[b], e.wire, s, b)
  PROVE  Sound(e, s)'
<1>1. ASSUME NEW x, NEW w, NEW q, NEW b
      PROVE  /\ Owned(x, b) => Owned(x, b)'
             /\ Expected(x, w, q, b) => Expected(x, w, q, b)'
             /\ Tracked(x, w, q, b) => Tracked(x, w, q, b)'
             /\ Settled(x, w, q, b) => Settled(x, w, q, b)'
  <2>1. Owned(x, b) => Owned(x, b)'
    BY DEF Owned, Owns
  <2>2. Expected(x, w, q, b) => Expected(x, w, q, b)'
    BY DEF Expected
  <2>3. Tracked(x, w, q, b) => Tracked(x, w, q, b)'
    BY DEF Tracked, ItemOK, Resting, Sent, Unread, Inserting, Changing, Before, Exactly, Numbered, InGdb, NotAsked, Sure
  <2>4. Settled(x, w, q, b) => Settled(x, w, q, b)'
    BY DEF Settled
  <2> QED BY <2>1, <2>2, <2>3, <2>4
<1>2. ASSUME NEW b \in Bps PROVE Good(e, s, b)'
  <2> DEFINE x == e.item[b]
             w == e.wire
  <2>1. Owned(x, b) /\ Expected(x, w, s, b) /\ (x.raced \/ Tracked(x, w, s, b))
    BY DEF Sound, Good, Held
  <2>2. phase' \in {"prepared", "starting", "live"} /\ ~e.timer => x.raced \/ Settled(x, w, s, b)
    OBVIOUS
  <2> HIDE DEF x, w
  <2>3. Owned(x, b)' /\ Expected(x, w, s, b)' /\ (x.raced \/ Tracked(x, w, s, b)')
    BY <1>1, <2>1
  <2>4. x.raced \/ Due(x, w, s, e.timer, b)'
    BY <1>1, <2>2 DEF Due
  <2> QED BY <2>3, <2>4 DEF Good, Held, x, w
<1>3. WireOK(e.wire)' /\ AnswersOK(s)'
  BY DEF Sound, WireOK, AnswersOK, Owns
<1> QED BY <1>2, <1>3 DEF Sound

LEMMA StepPrepare ==
  ASSUME IInv, Prepare
  PROVE  IInv'
<1>1. /\ phase = "setup" /\ gdb /\ phase' = "prepared" /\ h' \in AttemptBreakpointSynchronization(h)
      /\ UNCHANGED <<gdb, table, last, answers, stale, edits, sessions>>
  BY DEF Prepare
<1>2. World /\ Sound(h, answers)
  BY DEF IInv
<1>3. PICK f, s : f = h' /\ s = answers
  OBVIOUS
<1>4. /\ Sound(f, s)
      /\ \A b \in Bps : f.item[b].raced \/ Settled(f.item[b], f.wire, s, b)
  <2>1. /\ h \in Handler /\ s \in Seq(Answer) /\ (~gdb => h.wire = <<>>)
        /\ WireOK(h.wire) /\ AnswersOK(s) /\ \A b \in Bps : Held(h, s, b)
    BY <1>2, <1>3 DEF Sound, Good
  <2>2. AcceptsBreakpoints /\ f \in AttemptBreakpointSynchronization(h)
    BY <1>1, <1>3 DEF AcceptsBreakpoints
  <2> QED BY <1>2, <2>1, <2>2, SynchronizationIsSound
<1>5. Sound(f, s)'
  BY <1>1, <1>4, PhaseChanges
<1>6. World'
  BY <1>1, <1>2 DEF World, TableOK, Phase
<1> QED BY <1>1, <1>3, <1>5, <1>6, NextIsSound

LEMMA StepPhase ==
  ASSUME IInv, FinishSetup \/ Launch \/ Shutdown
  PROVE  IInv'
<1>1. /\ phase # "idle" /\ phase' \in Phase /\ phase' # "idle"
      /\ phase' \in {"prepared", "starting", "live"} => phase \in {"prepared", "starting", "live"}
      /\ UNCHANGED <<h, gdb, table, last, answers, stale, edits, sessions>>
  BY DEF FinishSetup, Launch, Shutdown, Phase
<1>2. World /\ Sound(h, answers)
  BY DEF IInv
<1>3. PICK f, s : f = h /\ s = answers
  OBVIOUS
<1>4. phase' \in {"prepared", "starting", "live"} /\ ~f.timer
        => \A b \in Bps : f.item[b].raced \/ Settled(f.item[b], f.wire, s, b)
  BY <1>1, <1>2, <1>3 DEF Sound, Good, Due
<1>5. Sound(f, s)'
  BY <1>1, <1>2, <1>3, <1>4, PhaseChanges
<1>6. World'
  BY <1>1, <1>2 DEF World, TableOK
<1> QED BY <1>1, <1>3, <1>5, <1>6, NextIsSound

(* Before a session every item is nobody's, but for those that the code has  *)
(* lost track of.                                                            *)
LEMMA StepStartSession ==
  ASSUME IInv, StartSession
  PROVE  IInv'
<1>1. /\ phase = "idle" /\ sessions < MaxSessions /\ answers = <<>>
      /\ phase' = "setup" /\ gdb' = TRUE /\ last' = 0 /\ sessions' = sessions + 1
      /\ stale' = \E b \in Bps : h.item[b].engine
      /\ UNCHANGED <<h, table, answers, edits>>
  BY DEF StartSession
<1>2. World /\ Sound(h, answers)
  BY DEF IInv
<1>3. ~gdb /\ table = {} /\ h.wire = <<>>
  BY <1>1, <1>2 DEF World, Sound
<1>4. stale' \in BOOLEAN
  BY <1>1
<1>5. World'
  BY <1>1, <1>2, <1>3, <1>4, ParametersAssumption DEF World, TableOK, Phase
<1>6. PICK e, s : e = h /\ s = answers
  OBVIOUS
<1>7. e \in Handler /\ s \in Seq(Answer) /\ e.wire = <<>> /\ s = <<>>
      /\ \A b \in Bps : Good(e, s, b)
  BY <1>1, <1>2, <1>3, <1>6 DEF Sound
<1>8. WireOK(e.wire)' /\ AnswersOK(s)'
  BY <1>7 DEF WireOK, AnswersOK
<1>9. ASSUME NEW b \in Bps PROVE Good(e, s, b)'
  <2> DEFINE x == e.item[b]
             w == e.wire
  <2>1. x \in Item
    BY <1>7 DEF Handler
  <2>2. Owned(x, b) /\ Expected(x, w, s, b) /\ (x.raced \/ Tracked(x, w, s, b))
    BY <1>7 DEF Good, Held
  <2>3. NoneOf(w, b) /\ NoneOf(s, b)
    BY <1>7, NothingInEmpty
  <2>4. x.engine => stale'
    BY <1>1, <1>6
  <2> HIDE DEF x, w
  <2>5. Owned(x, b)'
    BY <2>2, <2>4 DEF Owned
  <2>6. Expected(x, w, s, b)'
    BY <2>3 DEF Expected
  <2>7. ASSUME ~x.raced PROVE Tracked(x, w, s, b)'
    <3>1. ItemOK(x) /\ x.state \in {"None", "New", "Dead"}
      BY <1>1, <2>2, <2>7 DEF Tracked, ItemOK
    <3>2. InGdb(b)' = {}
      BY <1>1, <1>3 DEF InGdb
    <3>3. Resting(x, b)'
      BY <3>1, <3>2 DEF Resting
    <3>4. ItemOK(x)'
      BY <1>1, <3>1 DEF ItemOK
    <3> QED BY <2>3, <3>3, <3>4 DEF Tracked
  <2>8. Due(x, w, s, e.timer, b)'
    BY <1>1 DEF Due
  <2> QED BY <2>5, <2>6, <2>7, <2>8 DEF Good, Held, x, w
<1>10. Sound(e, s)'
  BY <1>7, <1>8, <1>9 DEF Sound
<1> QED BY <1>1, <1>5, <1>6, <1>10, NextIsSound

(* gdb goes, and its breakpoints with it. *)
LEMMA StepGdbDies ==
  ASSUME IInv, GdbDies
  PROVE  IInv'
<1>1. /\ gdb' = FALSE /\ table' = {} /\ h' = [h EXCEPT !.wire = <<>>]
      /\ UNCHANGED <<phase, last, answers, stale, edits, sessions>>
  BY DEF GdbDies
<1>2. World /\ Sound(h, answers)
  BY DEF IInv
<1>3. World'
  BY <1>1, <1>2 DEF World, TableOK
<1>4. PICK e, s : e = h' /\ s = answers
  OBVIOUS
<1>5. h \in Handler /\ s \in Seq(Answer) /\ (\A b \in Bps : Good(h, s, b)) /\ AnswersOK(s)
  BY <1>2, <1>4 DEF Sound
<1>6. e \in Handler /\ e.wire = <<>> /\ e.item = h.item /\ e.timer = h.timer
  <2>1. <<>> \in Seq(Command)
    OBVIOUS
  <2> QED BY <1>1, <1>4, <1>5, <2>1 DEF Handler
<1>7. WireOK(e.wire)' /\ AnswersOK(s)'
  BY <1>1, <1>5, <1>6 DEF WireOK, AnswersOK, Owns
<1>8. ASSUME NEW b \in Bps PROVE Good(e, s, b)'
  <2> DEFINE x == e.item[b]
             w == h.wire
             v == e.wire
  <2>1. x \in Item
    BY <1>5, <1>6 DEF Handler
  <2>2. Owned(x, b) /\ Expected(x, w, s, b) /\ (x.raced \/ Tracked(x, w, s, b))
    BY <1>5, <1>6 DEF Good, Held
  <2>3. NoneOf(v, b)
    BY <1>6, NothingInEmpty
  <2>4. InGdb(b)' = {} /\ ~gdb'
    BY <1>1 DEF InGdb
  <2> HIDE DEF x, w, v
  <2>5. Owned(x, b)'
    BY <1>1, <2>2 DEF Owned, Owns
  <2>6. Expected(x, v, s, b)'
    BY <1>1, <2>2, <2>3 DEF Expected
  <2>7. ASSUME ~x.raced PROVE Tracked(x, v, s, b)'
    <3>1. Tracked(x, w, s, b) /\ ItemOK(x)
      BY <2>2, <2>7 DEF Tracked
    <3>2. ItemOK(x)'
      BY <1>1, <3>1 DEF ItemOK
    <3>3. ASSUME NoneOf(s, b) PROVE Tracked(x, v, s, b)'
      <4>1. Resting(x, b) => Resting(x, b)'
        BY <2>4 DEF Resting, NotAsked, Sure, Numbered
      <4>2. \A c : Sent(x, b, c) => Resting(x, b)'
        BY <2>4 DEF Sent, Resting, Inserting, Changing, NotAsked, Sure, Numbered
      <4>3. Resting(x, b)'
        BY <3>1, <3>3, <4>1, <4>2, SoleIsIn DEF Tracked
      <4> QED BY <2>3, <3>2, <3>3, <4>3 DEF Tracked
    <3>4. ASSUME NEW a \in ToSet(s), Sole(s, b, a), Unread(x, b, a) PROVE Tracked(x, v, s, b)'
      <4>1. Inserting(x)' <=> Inserting(x)
        BY DEF Inserting
      <4>2. \A op : Changing(x, op)' <=> Changing(x, op)
        BY DEF Changing
      <4>3. Unread(x, b, a)'
        BY <2>4, <3>4, <4>1, <4>2 DEF Unread, Numbered, Sure
      <4> QED BY <2>3, <3>2, <3>4, <4>3 DEF Tracked
    <3> QED BY <3>1, <3>3, <3>4 DEF Tracked
  <2>8. Due(x, v, s, e.timer, b)'
    BY <2>4 DEF Due, Settled
  <2> QED BY <2>5, <2>6, <2>7, <2>8 DEF Good, Held, x, v
<1>9. Sound(e, s)'
  BY <1>5, <1>6, <1>7, <1>8 DEF Sound
<1> QED BY <1>1, <1>3, <1>4, <1>9, NextIsSound

(* The engine gives an item up, and with it what gdb has answered.           *)
Freed(x, y, s, b) ==
  /\ x.raced \/ (There(x) /\ x.engine /\ x.removed) \/ ~NoneOf(s, b) => y.raced
  /\ y.params = x.params /\ y.deleting = x.deleting /\ y.removed = x.removed
  /\ y.hurried = x.hurried /\ y.odd = x.odd
  /\ IF There(x) /\ x.engine
     THEN y.state = "New" /\ ~y.engine /\ y.id = 0 /\ y.resp = NoResponse /\ ~y.astray
     ELSE /\ y.state = x.state /\ y.engine = x.engine /\ y.id = x.id /\ y.resp = x.resp
          /\ y.refused = x.refused /\ y.astray = x.astray

LEMMA FreedIsSound ==
  ASSUME IInv, phase' = "idle", ~gdb', gdb' \in BOOLEAN, table' = {},
         UNCHANGED <<last, answers, stale, edits, sessions>>,
         NEW e, h' = e, e.wire = <<>>, e \in Handler,
         \A b \in Bps : Freed(h.item[b], e.item[b], answers, b)
  PROVE  IInv'
<1>2. World /\ Sound(h, answers)
  BY DEF IInv
<1>3. World'
  BY <1>2 DEF World, TableOK, Phase
<1>4. PICK s : s = answers
  OBVIOUS
<1>5. h \in Handler /\ s \in Seq(Answer) /\ (\A b \in Bps : Good(h, s, b)) /\ AnswersOK(s)
  BY <1>2, <1>4 DEF Sound
<1>7. WireOK(e.wire)' /\ AnswersOK(s)'
  BY <1>5 DEF WireOK, AnswersOK, Owns
<1>8. ASSUME NEW b \in Bps PROVE Good(e, s, b)'
  <2> DEFINE x == h.item[b]
             y == e.item[b]
             w == h.wire
             v == e.wire
  <2>1. x \in Item /\ y \in Item /\ Freed(x, y, s, b)
    BY <1>4, <1>5 DEF Handler
  <2>2. Owned(x, b) /\ Expected(x, w, s, b) /\ (x.raced \/ Tracked(x, w, s, b))
    BY <1>5 DEF Good, Held
  <2>3. NoneOf(v, b)
    BY NothingInEmpty
  <2>4. InGdb(b)' = {}
    BY DEF InGdb
  <2> HIDE DEF x, w, v, y
  <2>5. Owned(y, b)'
    BY <2>1, <2>2 DEF Owned, Owns, Freed, There
  <2>6. Expected(y, v, s, b)'
    BY <2>1, <2>2, <2>3 DEF Expected, Freed, There
  <2>7. ASSUME ~y.raced PROVE Tracked(y, v, s, b)'
    <3>1. NoneOf(s, b) /\ ~x.raced /\ ~(There(x) /\ x.engine /\ x.removed)
      BY <2>1, <2>7 DEF Freed
    <3>2. ItemOK(x)
      BY <2>2, <3>1 DEF Tracked
    <3>3. CASE There(x) /\ x.engine
      <4>1. ~x.removed /\ ~x.deleting /\ y.state = "New" /\ ~y.engine /\ y.id = 0 /\ y.resp = NoResponse
            /\ ~y.removed /\ ~y.deleting /\ (y.odd => y.hurried) /\ ~y.astray
        BY <2>1, <2>2, <3>1, <3>2, <3>3 DEF Freed, Owned, ItemOK
      <4>2. ItemOK(y)'
        BY <4>1 DEF ItemOK
      <4>3. Resting(y, b)'
        BY <2>4, <4>1 DEF Resting
      <4> QED BY <2>3, <3>1, <4>2, <4>3 DEF Tracked
    <3>4. CASE ~(There(x) /\ x.engine)
      <4>1. x.state \in {"None", "New", "Dead"} /\ y.state = x.state
        BY <2>1, <3>2, <3>4 DEF ItemOK, Freed, There
      <4>2. ItemOK(y)'
        BY <2>1, <3>2, <3>4, <4>1 DEF ItemOK, Freed
      <4>3. Resting(y, b)'
        BY <2>4, <4>1 DEF Resting
      <4> QED BY <2>3, <3>1, <4>2, <4>3 DEF Tracked
    <3> QED BY <3>3, <3>4
  <2>8. Due(y, v, s, e.timer, b)'
    BY DEF Due
  <2> QED BY <2>5, <2>6, <2>7, <2>8 DEF Good, Held, y, v
<1>9. Sound(e, s)'
  BY <1>5, <1>7, <1>8 DEF Sound
<1> QED BY <1>3, <1>4, <1>9, NextIsSound

LEMMA Releasing ==
  ASSUME NEW e \in Handler
  PROVE  LET f == Release(e) IN
         /\ f \in Handler /\ f.wire = <<>> /\ f.timer = e.timer
         /\ \A b \in Bps : Freed(e.item[b], f.item[b], <<>>, b)
<1> DEFINE it == [b \in Bps |->
              IF There(e.item[b]) /\ e.item[b].engine
              THEN [NotifyBreakpointReleased(e.item[b]) EXCEPT
                      !.raced = @ \/ e.item[b].removed, !.refused = FALSE, !.astray = FALSE]
              ELSE e.item[b]]
           f == Release(e)
<1>1. e.item \in [Bps -> Item] /\ e.timer \in BOOLEAN /\ e = [item |-> e.item, wire |-> e.wire, timer |-> e.timer]
  BY DEF Handler
<1>2. f = [e EXCEPT !.wire = <<>>, !.item = it]
  BY DEF Release
<1>3. <<>> \in Seq(Command)
  OBVIOUS
<1>4. ASSUME NEW b \in Bps PROVE it[b] \in Item /\ Freed(e.item[b], it[b], <<>>, b)
  <2> DEFINE x == e.item[b]
             n == NotifyBreakpointReleased(x)
             y == [n EXCEPT !.raced = @ \/ x.removed, !.refused = FALSE, !.astray = FALSE]
  <2>1. it[b] = IF There(x) /\ x.engine THEN y ELSE x
    OBVIOUS
  <2>2. x \in Item
    BY <1>1
  <2>3. NoneOf(<<>>, b)
    BY NothingInEmpty
  <2> HIDE DEF x, it
  <2>4. /\ n \in Item /\ n.state = "New" /\ ~n.engine /\ n.id = 0 /\ n.resp = NoResponse
        /\ n.params = x.params /\ n.deleting = x.deleting /\ n.removed = x.removed
        /\ n.hurried = x.hurried /\ n.odd = x.odd /\ n.raced = x.raced
    BY <2>2, Parameters DEF NotifyBreakpointReleased, Item, BreakpointState
  <2> HIDE DEF n
  <2>5. /\ y \in Item /\ y.state = "New" /\ ~y.engine /\ y.id = 0 /\ y.resp = NoResponse
        /\ y.params = x.params /\ y.deleting = x.deleting /\ y.removed = x.removed
        /\ y.hurried = x.hurried /\ y.odd = x.odd /\ (y.raced <=> x.raced \/ x.removed) /\ ~y.astray
    BY <2>2, <2>4 DEF Item
  <2> HIDE DEF y
  <2> QED BY <2>1, <2>2, <2>3, <2>5 DEF Freed, x
<1>5. it \in [Bps -> Item]
  BY <1>4
<1> HIDE DEF it, f
<1>6. f.wire = <<>> /\ f.timer = e.timer /\ f.item = it /\ f = [item |-> f.item, wire |-> f.wire, timer |-> f.timer]
  BY <1>1, <1>2
<1> QED BY <1>1, <1>3, <1>4, <1>5, <1>6 DEF Handler, f

LEMMA StepEndSession ==
  ASSUME IInv, EndSession
  PROVE  IInv'
<1>1. /\ answers = <<>> /\ phase' = "idle" /\ gdb' = FALSE /\ table' = {} /\ h' = Release(h)
      /\ UNCHANGED <<last, answers, stale, edits, sessions>>
  BY DEF EndSession
<1>2. h \in Handler
  BY DEF IInv, Sound
<1>3. PICK e : e = Release(h)
  OBVIOUS
<1>4. e \in Handler /\ e.wire = <<>> /\ \A b \in Bps : Freed(h.item[b], e.item[b], <<>>, b)
  BY <1>2, <1>3, Releasing
<1> QED BY <1>1, <1>3, <1>4, FreedIsSound

LEMMA StepCommandTimeout ==
  ASSUME IInv, CommandTimeout
  PROVE  IInv'
<1>1. PICK g : g = Release(h)
  OBVIOUS
<1> DEFINE late(b) == \E i \in DOMAIN answers : answers[i].b = b
           it == [b \in Bps |-> [g.item[b] EXCEPT !.raced = @ \/ late(b)]]
<1>2. /\ phase' = "idle" /\ gdb' = FALSE /\ table' = {} /\ h' = [g EXCEPT !.item = it]
      /\ UNCHANGED <<last, answers, stale, edits, sessions>>
  BY <1>1 DEF CommandTimeout
<1>3. h \in Handler
  BY DEF IInv, Sound
<1>4. g \in Handler /\ g.wire = <<>> /\ \A b \in Bps : Freed(h.item[b], g.item[b], <<>>, b)
  BY <1>1, <1>3, Releasing
<1>5. g.item \in [Bps -> Item] /\ g = [item |-> g.item, wire |-> g.wire, timer |-> g.timer]
  BY <1>4 DEF Handler
<1>6. PICK e : e = h'
  OBVIOUS
<1>7. ASSUME NEW b \in Bps PROVE it[b] \in Item /\ Freed(h.item[b], it[b], answers, b)
  <2> DEFINE x == g.item[b]
             y == [x EXCEPT !.raced = @ \/ late(b)]
  <2>1. it[b] = y
    OBVIOUS
  <2>2. x \in Item /\ Freed(h.item[b], x, <<>>, b)
    BY <1>4, <1>5
  <2>3. late(b) <=> ~NoneOf(answers, b)
    BY DEF NoneOf
  <2>4. late(b) \in BOOLEAN
    OBVIOUS
  <2> HIDE DEF x, it, late
  <2>5. /\ y \in Item /\ y.state = x.state /\ y.params = x.params /\ y.engine = x.engine /\ y.id = x.id
        /\ y.resp = x.resp /\ y.deleting = x.deleting /\ y.removed = x.removed /\ y.hurried = x.hurried
        /\ y.refused = x.refused /\ y.odd = x.odd /\ (y.raced <=> x.raced \/ late(b)) /\ y.astray = x.astray
    BY <2>2, <2>4 DEF Item
  <2> HIDE DEF y
  <2>6. Freed(h.item[b], y, answers, b)
    BY <2>2, <2>3, <2>5 DEF Freed
  <2> QED BY <2>1, <2>5, <2>6
<1>8. it \in [Bps -> Item]
  BY <1>7
<1> HIDE DEF it
<1>9. e.item = it /\ e.wire = <<>> /\ e = [item |-> e.item, wire |-> e.wire, timer |-> e.timer] /\ e.timer = g.timer
  BY <1>2, <1>4, <1>5, <1>6
<1>10. e \in Handler
  BY <1>4, <1>8, <1>9 DEF Handler
<1>11. \A b \in Bps : Freed(h.item[b], e.item[b], answers, b)
  BY <1>7, <1>9
<1> QED BY <1>2, <1>6, <1>9, <1>10, <1>11, FreedIsSound

-----------------------------------------------------------------------------
(* gdb's steps. *)

(* gdb has its breakpoints still, with other parameters, or new ones.        *)
Grows ==
  /\ last' \in Nat /\ last <= last' /\ table' \subseteq Numbers
  /\ \A t \in table' : (\E u \in table : u.id = t.id /\ u.b = t.b) \/ t.id > last

(* What becomes of the breakpoints of k when gdb reads a command for another. *)
Spared(k) ==
  /\ \A t \in InGdb(k)' : \E u \in InGdb(k) : u.id = t.id
  /\ ~stale => InGdb(k)' = InGdb(k)

LEMMA OwnsStays ==
  ASSUME last \in Nat, Grows, NEW b, NEW n \in Nat, Owns(b, n)
  PROVE  Owns(b, n)'
<1>1. n <= last'
  BY DEF Grows, Owns
<1>2. ASSUME NEW t \in table', t.id = n PROVE t.b = b
  <2>1. ~(t.id > last)
    BY <1>2 DEF Owns
  <2> QED BY <1>2, <2>1 DEF Grows, Owns
<1> QED BY <1>1, <1>2 DEF Owns

LEMMA BystanderKeeps ==
  ASSUME UNCHANGED <<phase, gdb, stale>>, last \in Nat, Grows, NEW k, Spared(k),
         NEW x \in Item, NEW w, NEW s
  PROVE  /\ Owned(x, k) => Owned(x, k)'
         /\ Expected(x, w, s, k) => Expected(x, w, s, k)'
         /\ Tracked(x, w, s, k) => Tracked(x, w, s, k)'
         /\ \A t : Due(x, w, s, t, k) => Due(x, w, s, t, k)'
<1>1. Owned(x, k) => Owned(x, k)'
  <2>1. x.id \in Nat
    BY DEF Item
  <2>2. Owns(k, x.id) => Owns(k, x.id)'
    BY <2>1, OwnsStays
  <2> QED BY <2>2 DEF Owned
<1>2. /\ InGdb(k) = {} => InGdb(k)' = {}
      /\ \A n : Numbered(k, n) => Numbered(k, n)'
      /\ Sure(x)' <=> Sure(x)
      /\ NotAsked(x)' <=> NotAsked(x)
      /\ Sure(x) => \A n, p, v : Exactly(k, n, p, v) => Exactly(k, n, p, v)'
  BY DEF Spared, Numbered, Sure, NotAsked, Exactly
<1>3. ItemOK(x) => ItemOK(x)'
  BY DEF ItemOK
<1>4. Resting(x, k) => Resting(x, k)'
  BY <1>2 DEF Resting
<1>5. \A c : Sent(x, k, c) => Sent(x, k, c)'
  <2>1. Before(x, k) => Before(x, k)'
    BY <1>2 DEF Before
  <2> QED BY <1>2, <2>1 DEF Sent, Inserting, Changing
<1>6. \A a : Unread(x, k, a) => Unread(x, k, a)'
  BY <1>2 DEF Unread, Inserting, Changing
<1>7. Tracked(x, w, s, k) => Tracked(x, w, s, k)'
  BY <1>3, <1>4, <1>5, <1>6 DEF Tracked
<1> QED BY <1>1, <1>7 DEF Expected, Due, Settled

Read(w, wr, c) ==
  /\ wr \in Seq(Command) /\ c \in Command
  /\ \A k : c.b # k => SameFor(w, wr, k)
  /\ \A k : c.b = k => ~NoneOf(w, k)
  /\ \A k, d : c.b = k /\ Sole(w, k, d) => d = c /\ NoneOf(wr, k)
  /\ \A i \in DOMAIN wr : \E j \in DOMAIN w : wr[i] = w[j]

LEMMA CommandRead ==
  ASSUME NEW w \in Seq(Command), w # <<>>
  PROVE  Read(w, Tail(w), Head(w))
<1>1. ASSUME NEW k
      PROVE  /\ Tail(w) \in Seq(Command) /\ Head(w) \in Command
             /\ Head(w).b # k => SameFor(w, Tail(w), k)
             /\ Head(w).b = k => ~NoneOf(w, k)
             /\ \A d : Head(w).b = k /\ Sole(w, k, d) => d = Head(w) /\ NoneOf(Tail(w), k)
             /\ \A i \in DOMAIN Tail(w) : \E j \in DOMAIN w : Tail(w)[i] = w[j]
  BY OneLess
<1> QED BY <1>1 DEF Read

LEMMA AnswerGiven ==
  ASSUME NEW s \in Seq(Answer), NEW a \in Answer, NEW r, r = Append(s, a)
  PROVE  /\ r \in Seq(Answer) /\ \A k : a.b # k => SameFor(s, r, k)
         /\ \A k : a.b = k /\ NoneOf(s, k) => Sole(r, k, a)
         /\ \A i \in DOMAIN r : (\E j \in DOMAIN s : r[i] = s[j]) \/ r[i] = a
<1>1. ASSUME NEW k
      PROVE  /\ Append(s, a) \in Seq(Answer)
             /\ a.b # k => SameFor(s, Append(s, a), k)
             /\ a.b = k /\ NoneOf(s, k) => Sole(Append(s, a), k, a)
             /\ \A i \in DOMAIN Append(s, a) :
                  (\E j \in DOMAIN s : Append(s, a)[i] = s[j]) \/ Append(s, a)[i] = a
  BY OneMore
<1> QED BY <1>1

(* gdb has read c and answers a, and e is the handler then; x becomes y.      *)
Answers(c, a, e, x, y) ==
  /\ c = Head(h.wire) /\ a \in Answer /\ a.b = c.b /\ answers' = Append(answers, a)
  /\ a.op \in Insertions /\ a.ok => a.id # 0 /\ Owns(a.b, a.id)'
  /\ e \in Handler /\ h' = e /\ e.wire = Tail(h.wire) /\ e.timer = h.timer
  /\ \A k \in Bps : k # c.b => e.item[k] = h.item[k] /\ Spared(k)
  /\ x = h.item[c.b] /\ y = e.item[c.b]
  /\ y.state = x.state /\ y.engine = x.engine /\ y.id = x.id /\ y.deleting = x.deleting
  /\ y.removed = x.removed /\ y.raced = x.raced

LEMMA AnsweringIsSound ==
  ASSUME IInv, h.wire # <<>>, UNCHANGED <<phase, gdb, stale, edits, sessions>>, World', Grows, gdb,
         NEW c, NEW a, NEW e, NEW x, NEW y, Answers(c, a, e, x, y),
         ItemOK(x) /\ Sent(x, c.b, c) => ItemOK(y)' /\ Unread(y, c.b, a)'
  PROVE  IInv'
<1>0. /\ c = Head(h.wire) /\ a \in Answer /\ a.b = c.b /\ answers' = Append(answers, a)
      /\ a.op \in Insertions /\ a.ok => a.id # 0 /\ Owns(a.b, a.id)'
      /\ e \in Handler /\ h' = e /\ e.wire = Tail(h.wire) /\ e.timer = h.timer
      /\ \A k \in Bps : k # c.b => e.item[k] = h.item[k] /\ Spared(k)
      /\ x = h.item[c.b] /\ y = e.item[c.b]
      /\ y.state = x.state /\ y.engine = x.engine /\ y.id = x.id /\ y.deleting = x.deleting
      /\ y.removed = x.removed /\ y.raced = x.raced
  BY DEF Answers
<1>1. World /\ Sound(h, answers) /\ last \in Nat
  BY DEF IInv, World
<1>2. PICK s, r, w, wr : s = answers /\ r = Append(answers, a) /\ w = h.wire /\ wr = Tail(h.wire)
  OBVIOUS
<1>3. /\ h \in Handler /\ s \in Seq(Answer) /\ w \in Seq(Command) /\ w # <<>> /\ c = Head(w) /\ wr = Tail(w)
      /\ \A b \in Bps : Good(h, s, b)
      /\ WireOK(w) /\ AnswersOK(s) /\ r = Append(s, a) /\ e.wire = wr
  BY <1>0, <1>1, <1>2 DEF Sound, Handler
<1>4. /\ wr \in Seq(Command) /\ c \in Command /\ \A k : c.b # k => SameFor(w, wr, k)
      /\ \A k : c.b = k => ~NoneOf(w, k)
      /\ \A k, d : c.b = k /\ Sole(w, k, d) => d = c /\ NoneOf(wr, k)
      /\ \A i \in DOMAIN wr : \E j \in DOMAIN w : wr[i] = w[j]
  <2>1. w \in Seq(Command) /\ w # <<>> /\ c = Head(w) /\ wr = Tail(w)
    BY <1>3
  <2>2. Read(w, Tail(w), Head(w))
    BY <2>1, CommandRead
  <2>3. Read(w, wr, c)
    BY <2>1, <2>2
  <2> QED BY <2>3 DEF Read
<1>5. /\ r \in Seq(Answer) /\ \A k : a.b # k => SameFor(s, r, k)
      /\ \A k : a.b = k /\ NoneOf(s, k) => Sole(r, k, a)
      /\ \A i \in DOMAIN r : (\E j \in DOMAIN s : r[i] = s[j]) \/ r[i] = a
  BY <1>0, <1>3, AnswerGiven
<1>6. c.b \in Bps
  BY <1>4 DEF Command
<1>7. WireOK(wr)'
  <2>1. ASSUME ~stale, NEW i \in DOMAIN wr PROVE Owns(wr[i].b, wr[i].id)'
    <3>1. PICK j \in DOMAIN w : wr[i] = w[j]
      BY <1>4
    <3>2. w[j].id \in Nat
      <4>1. w[j] \in Command
        BY <1>3
      <4> QED BY <4>1 DEF Command
    <3>3. Owns(w[j].b, w[j].id)
      BY <1>3, <2>1 DEF WireOK
    <3>4. Owns(w[j].b, w[j].id)'
      BY <1>1, <3>2, <3>3, OwnsStays
    <3> QED BY <3>1, <3>4
  <2> QED BY <2>1 DEF WireOK
<1>8. AnswersOK(r)'
  <2>1. ASSUME NEW i \in DOMAIN r, r[i].op \in Insertions, r[i].ok PROVE r[i].id # 0 /\ Owns(r[i].b, r[i].id)'
    <3>1. CASE r[i] = a
      BY <1>0, <2>1, <3>1
    <3>2. ASSUME NEW j \in DOMAIN s, r[i] = s[j] PROVE r[i].id # 0 /\ Owns(r[i].b, r[i].id)'
      <4>1. s[j].id \in Nat
        <5>1. s[j] \in Answer
          BY <1>3
        <5> QED BY <5>1 DEF Answer
      <4>2. s[j].id # 0 /\ Owns(s[j].b, s[j].id)
        BY <1>3, <2>1, <3>2 DEF AnswersOK
      <4>3. Owns(s[j].b, s[j].id)'
        BY <1>1, <4>1, <4>2, OwnsStays
      <4> QED BY <3>2, <4>2, <4>3
    <3> QED BY <1>5, <3>1, <3>2
  <2> QED BY <2>1 DEF AnswersOK
<1>9. ASSUME NEW k \in Bps, k # c.b PROVE Good(e, r, k)'
  <2>1. /\ Good(h, s, k) /\ e.item[k] = h.item[k] /\ SameFor(h.wire, e.wire, k) /\ SameFor(s, r, k)
        /\ h.timer => e.timer
    BY <1>0, <1>2, <1>3, <1>4, <1>5, <1>9
  <2>2. Good(e, r, k)
    <3>1. PICK f : f = h
      OBVIOUS
    <3>2. Good(f, s, k) /\ e.item[k] = f.item[k] /\ SameFor(f.wire, e.wire, k) /\ SameFor(s, r, k)
          /\ (f.timer => e.timer)
      BY <2>1, <3>1
    <3> QED BY <3>2, Unconcerned
  <2>3. Spared(k)
    BY <1>0, <1>9
  <2> DEFINE z == e.item[k]
             t == e.timer
  <2>4. z \in Item
    BY <1>0 DEF Handler
  <2>5. Owned(z, k) /\ Expected(z, wr, r, k) /\ (z.raced \/ (Tracked(z, wr, r, k) /\ Due(z, wr, r, t, k)))
    BY <1>3, <2>2 DEF Good, Held
  <2> HIDE DEF z, t
  <2>6. /\ Owned(z, k) => Owned(z, k)'
        /\ Expected(z, wr, r, k) => Expected(z, wr, r, k)'
        /\ Tracked(z, wr, r, k) => Tracked(z, wr, r, k)'
        /\ \A u : Due(z, wr, r, u, k) => Due(z, wr, r, u, k)'
    BY <1>1, <2>3, <2>4, BystanderKeeps
  <2>7. Owned(z, k)' /\ Expected(z, wr, r, k)' /\ (z.raced \/ (Tracked(z, wr, r, k)' /\ Due(z, wr, r, t, k)'))
    BY <2>5, <2>6
  <2> QED BY <1>3, <2>7 DEF Good, Held, z, t
<1>10. Good(e, r, c.b)'
  <2> DEFINE b == c.b
  <2>1. x \in Item /\ y \in Item
    BY <1>0, <1>3, <1>6 DEF Handler
  <2>2. Owned(x, b) /\ Expected(x, w, s, b) /\ (x.raced \/ Tracked(x, w, s, b))
    BY <1>0, <1>2, <1>3, <1>6 DEF Good, Held
  <2> HIDE DEF b
  <2>3. Owned(y, b)'
    <3>1. x.id \in Nat
      BY <2>1 DEF Item
    <3>2. Owns(b, x.id) => Owns(b, x.id)'
      BY <1>1, <3>1, OwnsStays
    <3> QED BY <1>0, <2>2, <3>2 DEF Owned, There
  <2>4. ~NoneOf(w, b)
    BY <1>4 DEF b
  <2>5. Expected(y, wr, r, b)'
    BY <1>0, <2>2, <2>4 DEF Expected, There
  <2>6. ASSUME ~y.raced PROVE Tracked(y, wr, r, b)' /\ Due(y, wr, r, e.timer, b)'
    <3>1. Tracked(x, w, s, b) /\ ItemOK(x)
      BY <1>0, <2>2, <2>6 DEF Tracked
    <3>2. PICK d \in ToSet(w) : Sole(w, b, d) /\ NoneOf(s, b) /\ Sent(x, b, d)
      BY <2>4, <3>1 DEF Tracked
    <3>3. d = c /\ NoneOf(wr, b) /\ Sole(r, b, a)
      BY <1>0, <1>4, <1>5, <3>2 DEF b
    <3>4. ItemOK(y)' /\ Unread(y, b, a)'
      BY <3>1, <3>2, <3>3 DEF b
    <3>5. a \in ToSet(r) /\ ~NoneOf(r, b)
      BY <3>3, SoleIsIn
    <3> QED BY <3>3, <3>4, <3>5 DEF Tracked, Due, Settled
  <2>7. e.item[b] = y
    BY <1>0 DEF b
  <2>8. Good(e, r, b)'
    BY <1>3, <2>3, <2>5, <2>6, <2>7 DEF Good, Held
  <2> QED BY <2>8 DEF b
<1>11. \A k \in Bps : Good(e, r, k)'
  BY <1>9, <1>10
<1>12. Sound(e, r)'
  BY <1>0, <1>3, <1>5, <1>7, <1>8, <1>11 DEF Sound
<1> QED BY <1>0, <1>2, <1>12, NextIsSound

LEMMA InsertedIsSound ==
  ASSUME IInv, gdb, h.wire # <<>>, UNCHANGED <<phase, gdb, stale, edits, sessions>>,
         NEW c, c = Head(h.wire), c.op \in Insertions, NEW p \in Params,
         c.op = "insert" => p.count = c.params.count,
         NEW v \in BOOLEAN,
         last' = last + 1, table' = table \cup {[id |-> last', b |-> c.b, params |-> p, pending |-> v]},
         answers' = Append(answers, [op |-> c.op, b |-> c.b, id |-> last', params |-> p, pending |-> v, ok |-> TRUE]),
         h' = [h EXCEPT !.wire = Tail(@)]
  PROVE  IInv'
<1> DEFINE new == [id |-> last', b |-> c.b, params |-> p, pending |-> v]
           a == [op |-> c.op, b |-> c.b, id |-> last', params |-> p, pending |-> v, ok |-> TRUE]
<1>1. World /\ h \in Handler /\ last \in Nat /\ table \subseteq Numbers /\ TableOK
  BY DEF IInv, World, Sound
<1>2. c \in Command
  <2>1. h.wire \in Seq(Command)
    BY <1>1 DEF Handler
  <2> QED BY <2>1, CommandRead DEF Read
<1>3. c.b \in Bps /\ c.op \in Op
  BY <1>2 DEF Command
<1>4. PICK n, u, d : n = last' /\ u = new /\ d = a
  OBVIOUS
<1>5. n = last + 1 /\ n \in Nat /\ u = [id |-> n, b |-> c.b, params |-> p, pending |-> v] /\ table' = table \cup {u}
  BY <1>1, <1>4
<1>6. d = [op |-> c.op, b |-> c.b, id |-> n, params |-> p, pending |-> v, ok |-> TRUE] /\ answers' = Append(answers, d)
  BY <1>4
<1>7. d \in Answer /\ d.b = c.b /\ d.op = c.op /\ d.id = n /\ d.params = p /\ d.pending = v /\ d.ok
  BY <1>3, <1>5, <1>6 DEF Answer
<1>8. u \in Numbers /\ u.id = n /\ u.b = c.b
  BY <1>3, <1>5 DEF Numbers
<1> HIDE DEF new, a
<1>9. \A t \in table : t.id \in 1..last
  BY <1>1 DEF TableOK
<1>10. Grows
  BY <1>1, <1>5, <1>8, <1>9 DEF Grows
<1>11. TableOK'
  <2>1. \A t \in table' : t.id \in 1..last'
    BY <1>1, <1>4, <1>5, <1>8, <1>9
  <2>2. \A t, o \in table' : t.id = o.id => t = o
    <3>1. \A t \in table : t.id # n
      BY <1>1, <1>5, <1>9
    <3> QED BY <1>1, <1>5, <1>8, <3>1 DEF TableOK
  <2> QED BY <2>1, <2>2 DEF TableOK
<1>12. World'
  BY <1>1, <1>4, <1>5, <1>8, <1>11 DEF World
<1>13. Owns(c.b, n)'
  BY <1>1, <1>4, <1>5, <1>8, <1>9 DEF Owns
<1>14. PICK e : e = h'
  OBVIOUS
<1>15. e \in Handler /\ e.wire = Tail(h.wire) /\ e.timer = h.timer /\ e.item = h.item
  <2>1. Tail(h.wire) \in Seq(Command)
    BY <1>1 DEF Handler
  <2> QED BY <1>1, <1>14, <2>1 DEF Handler
<1>16. ASSUME NEW k \in Bps, k # c.b PROVE Spared(k)
  BY <1>5, <1>8, <1>16 DEF Spared, InGdb
<1>17. PICK x : x = h.item[c.b]
  OBVIOUS
<1>18. ASSUME ItemOK(x), Sent(x, c.b, c) PROVE ItemOK(x)' /\ Unread(x, c.b, d)'
  <2>1. ItemOK(x)'
    BY <1>18 DEF ItemOK
  <2>2. /\ Inserting(x) /\ InGdb(c.b) = {} /\ (c.op = "break" => x.refused)
        /\ ~x.refused => c.params.count = x.params.count
    BY <1>18 DEF Sent, Insertions, Changes
  <2>3. InGdb(c.b)' = {u}
    BY <1>5, <1>8, <2>2 DEF InGdb
  <2>4. Numbered(c.b, n)' /\ Exactly(c.b, n, p, v)'
    BY <1>5, <1>8, <2>3 DEF Numbered, Exactly
  <2>5. ~x.refused => p.count = x.params.count
    BY <2>2 DEF Insertions
  <2>6. Inserting(x)'
    BY <2>2 DEF Inserting
  <2> QED BY <1>7, <2>1, <2>2, <2>4, <2>5, <2>6 DEF Unread
<1>19. n # 0
  BY <1>1, <1>5
<1>20. d.op \in Insertions /\ d.ok => d.id # 0 /\ Owns(d.b, d.id)'
  BY <1>7, <1>13, <1>19
<1>21. Answers(c, d, e, x, x)
  BY <1>6, <1>7, <1>14, <1>15, <1>16, <1>17, <1>20 DEF Answers
<1> QED BY <1>10, <1>12, <1>18, <1>21, AnsweringIsSound

LEMMA RefusedIsSound ==
  ASSUME IInv, gdb, h.wire # <<>>, UNCHANGED <<phase, gdb, table, last, stale, edits, sessions>>,
         NEW c, c = Head(h.wire), c.op \in Insertions, NEW p \in Params,
         answers' = Append(answers, [op |-> c.op, b |-> c.b, id |-> 0, params |-> p, pending |-> FALSE, ok |-> FALSE]),
         h' = [h EXCEPT !.wire = Tail(@), !.item[c.b].refused = TRUE]
  PROVE  IInv'
<1>1. World /\ h \in Handler /\ last \in Nat /\ table \subseteq Numbers
  BY DEF IInv, World, Sound
<1>2. c \in Command
  <2>1. h.wire \in Seq(Command)
    BY <1>1 DEF Handler
  <2> QED BY <2>1, CommandRead DEF Read
<1>3. c.b \in Bps /\ c.op \in Op
  BY <1>2 DEF Command
<1>4. PICK d : d = [op |-> c.op, b |-> c.b, id |-> 0, params |-> p, pending |-> FALSE, ok |-> FALSE]
  OBVIOUS
<1>5. d \in Answer /\ d.b = c.b /\ d.op = c.op /\ ~d.ok /\ answers' = Append(answers, d)
  BY <1>3, <1>4 DEF Answer
<1>6. Grows
  BY <1>1 DEF Grows
<1>7. World'
  BY <1>1 DEF World, TableOK
<1>8. PICK e : e = h'
  OBVIOUS
<1>9. h.item \in [Bps -> Item] /\ h.item[c.b] \in Item /\ Tail(h.wire) \in Seq(Command) /\ h.timer \in BOOLEAN
  BY <1>1, <1>3 DEF Handler
<1>10. PICK x, y : x = h.item[c.b] /\ y = [x EXCEPT !.refused = TRUE]
  OBVIOUS
<1>11. e = [h EXCEPT !.wire = Tail(h.wire), !.item = [h.item EXCEPT ![c.b] = y]]
  BY <1>1, <1>3, <1>8, <1>9, <1>10 DEF Handler
<1>12. /\ y \in Item /\ y.state = x.state /\ y.engine = x.engine /\ y.id = x.id /\ y.deleting = x.deleting
       /\ y.removed = x.removed /\ y.raced = x.raced /\ y.hurried = x.hurried /\ y.odd = x.odd
       /\ y.resp = x.resp /\ y.refused /\ y.astray = x.astray
  BY <1>9, <1>10 DEF Item
<1>13. /\ e \in Handler /\ e.wire = Tail(h.wire) /\ e.timer = h.timer
       /\ e.item = [h.item EXCEPT ![c.b] = y]
  BY <1>1, <1>9, <1>11, <1>12 DEF Handler
<1>14. y = e.item[c.b] /\ \A k \in Bps : k # c.b => e.item[k] = h.item[k] /\ Spared(k)
  BY <1>3, <1>9, <1>13 DEF Spared, InGdb
<1>15. ASSUME ItemOK(x), Sent(x, c.b, c) PROVE ItemOK(y)' /\ Unread(y, c.b, d)'
  <2>1. Inserting(x) /\ InGdb(c.b) = {}
    BY <1>15 DEF Sent, Insertions, Changes
  <2>2. ItemOK(y)'
    BY <1>12, <1>15, <2>1 DEF ItemOK, Inserting
  <2>3. InGdb(c.b)' = {}
    BY <2>1 DEF InGdb
  <2>4. Inserting(y)'
    BY <1>12, <2>1 DEF Inserting
  <2> QED BY <1>5, <1>12, <2>2, <2>3, <2>4 DEF Unread, Insertions
<1>16. Answers(c, d, e, x, y)
  BY <1>5, <1>8, <1>10, <1>12, <1>13, <1>14 DEF Answers
<1> QED BY <1>6, <1>7, <1>15, <1>16, AnsweringIsSound

(* What a command that names a breakpoint makes of the table.                *)
LEMMA Naming ==
  ASSUME NEW c \in Command, NEW t \in Numbers, c.op \in {"count", "enable", "disable"}
  PROVE  LET u == Changed(c, t) IN
         /\ u \in Numbers /\ u.id = t.id /\ u.b = t.b /\ u.pending = t.pending
         /\ c.op = "count" => u.params = [t.params EXCEPT !.count = c.params.count]
         /\ c.op # "count" => u.params = [t.params EXCEPT !.enabled = (c.op = "enable")]
<1>1. t.params \in Params /\ c.params \in Params
  BY DEF Numbers, Command
<1>2. CASE c.op = "count"
  <2>1. Changed(c, t) = [t EXCEPT !.params.count = c.params.count]
    BY <1>2 DEF Changed
  <2> QED BY <1>1, <1>2, <2>1 DEF Numbers, Params
<1>3. CASE c.op # "count"
  <2>1. Changed(c, t) = [t EXCEPT !.params.enabled = (c.op = "enable")]
    BY <1>3 DEF Changed
  <2>2. PICK on \in BOOLEAN : on = (c.op = "enable")
    OBVIOUS
  <2>3. Changed(c, t) = [t EXCEPT !.params.enabled = on]
    BY <2>1, <2>2
  <2>4. Changed(c, t).params = [t.params EXCEPT !.enabled = on]
    BY <1>1, <2>3 DEF Numbers
  <2>5. Changed(c, t) \in Numbers /\ Changed(c, t).id = t.id /\ Changed(c, t).b = t.b
        /\ Changed(c, t).pending = t.pending
    BY <1>1, <2>3 DEF Numbers, Params
  <2> QED BY <1>3, <2>2, <2>4, <2>5
<1> QED BY <1>2, <1>3

(* gdb has read c, which names the breakpoints named and leaves kept of them.*)
Names(c, named, kept) ==
  /\ c = Head(h.wire) /\ c.op \notin Insertions
  /\ named = {t \in table : t.id = c.id}
  /\ kept = IF c.op \in {"count", "enable", "disable"} THEN {Changed(c, t) : t \in named} ELSE {}
  /\ table' = (table \ named) \cup kept
  /\ answers' = Append(answers, [op |-> c.op, b |-> c.b, id |-> c.id, params |-> c.params,
                                pending |-> FALSE, ok |-> c.op \notin {"nowhere", "other"}])
  /\ h' = [h EXCEPT !.wire = Tail(@)]

LEMMA NamedIsSound ==
  ASSUME IInv, gdb, h.wire # <<>>, UNCHANGED <<phase, gdb, last, stale, edits, sessions>>,
         NEW c, NEW named, NEW kept, Names(c, named, kept)
  PROVE  IInv'
<1>0. /\ c = Head(h.wire) /\ c.op \notin Insertions
      /\ named = {t \in table : t.id = c.id}
      /\ kept = IF c.op \in {"count", "enable", "disable"} THEN {Changed(c, t) : t \in named} ELSE {}
      /\ table' = (table \ named) \cup kept
      /\ answers' = Append(answers, [op |-> c.op, b |-> c.b, id |-> c.id, params |-> c.params,
                                      pending |-> FALSE, ok |-> c.op \notin {"nowhere", "other"}])
      /\ h' = [h EXCEPT !.wire = Tail(@)]
  BY DEF Names
<1> USE <1>0
<1>1. World /\ h \in Handler /\ last \in Nat /\ table \subseteq Numbers /\ TableOK /\ WireOK(h.wire)
  BY DEF IInv, World, Sound
<1>2. c \in Command
  <2>1. h.wire \in Seq(Command)
    BY <1>1 DEF Handler
  <2> QED BY <2>1, CommandRead DEF Read
<1>3. c.b \in Bps /\ c.op \in Op /\ c.id \in Nat /\ c.params \in Params
  BY <1>2 DEF Command
<1>4. PICK d : d = [op |-> c.op, b |-> c.b, id |-> c.id, params |-> c.params,
                                pending |-> FALSE, ok |-> c.op \notin {"nowhere", "other"}]
  OBVIOUS
<1>5. d \in Answer /\ d.b = c.b /\ d.op = c.op /\ answers' = Append(answers, d)
  BY <1>3, <1>4 DEF Answer
<1>6. ASSUME NEW t \in kept
      PROVE  \E u \in named : t = Changed(c, u) /\ t.id = u.id /\ t.b = u.b /\ t \in Numbers
  <2>1. PICK u \in named : t = Changed(c, u) /\ c.op \in {"count", "enable", "disable"}
    BY <1>6
  <2>2. u \in Numbers
    BY <1>1
  <2> QED BY <1>2, <2>1, <2>2, Naming
<1>7. /\ \A t \in table' : \E u \in table : u.id = t.id /\ u.b = t.b /\ (u \in named \/ t = u)
      /\ table' \subseteq Numbers
  BY <1>1, <1>6
<1>8. Grows
  BY <1>1, <1>7 DEF Grows
<1>9. TableOK'
  <2>1. \A t \in table' : t.id \in 1..last'
    BY <1>1, <1>7 DEF TableOK
  <2>2. ASSUME NEW t \in table', NEW v \in table', t.id = v.id PROVE t = v
    <3>1. \A w \in table \ named : w.id # c.id
      OBVIOUS
    <3>2. \A w \in kept : w.id = c.id
      BY <1>6
    <3>3. CASE t \in table \ named
      BY <1>1, <2>2, <3>1, <3>2, <3>3 DEF TableOK
    <3>4. CASE t \in kept
      <4>1. v \in kept
        BY <2>2, <3>1, <3>2, <3>4
      <4>2. PICK u \in named, w \in named : t = Changed(c, u) /\ v = Changed(c, w)
        BY <1>6, <3>4, <4>1
      <4>3. u = w
        BY <1>1 DEF TableOK
      <4> QED BY <4>2, <4>3
    <3> QED BY <2>2, <3>3, <3>4
  <2> QED BY <2>1, <2>2 DEF TableOK
<1>10. World'
  BY <1>1, <1>7, <1>9 DEF World
<1>11. PICK e : e = h'
  OBVIOUS
<1>12. e \in Handler /\ e.wire = Tail(h.wire) /\ e.timer = h.timer /\ e.item = h.item
  <2>1. Tail(h.wire) \in Seq(Command)
    BY <1>1 DEF Handler
  <2> QED BY <1>1, <1>11, <2>1 DEF Handler
<1>13. ~stale => \A t \in named : t.b = c.b
  <2>1. ~stale => Owns(c.b, c.id)
    <3>1. h.wire \in Seq(Command)
      BY <1>1 DEF Handler
    <3>2. 1 \in DOMAIN h.wire /\ h.wire[1] = c
      BY <3>1
    <3> QED BY <1>1, <3>2 DEF WireOK
  <2> QED BY <2>1 DEF Owns
<1>14. ASSUME NEW k \in Bps, k # c.b PROVE Spared(k)
  <2>1. \A t \in InGdb(k)' : \E u \in InGdb(k) : u.id = t.id
    BY <1>7 DEF InGdb
  <2>2. ASSUME ~stale PROVE InGdb(k)' = InGdb(k)
    <3>1. \A t \in table : t.b = k => t \in table'
      BY <1>13, <1>14, <2>2
    <3>2. \A t \in table' : t.b = k => t \in table
      BY <1>7, <1>13, <1>14, <2>2
    <3> QED BY <3>1, <3>2 DEF InGdb
  <2> QED BY <2>1, <2>2 DEF Spared
<1>15. PICK x, b : x = h.item[c.b] /\ b = c.b
  OBVIOUS
<1>16. x \in Item /\ x.params \in Params /\ x.resp \in Response
  BY <1>1, <1>3, <1>15 DEF Handler, Item
<1>17. ASSUME ItemOK(x), Sent(x, b, c) PROVE ItemOK(x)' /\ Unread(x, b, d)'
  <2>1. ItemOK(x)'
    BY <1>17 DEF ItemOK
  <2>2. \/ c.op = "delete" /\ x.state \in {"Dead", "None"} /\ x.removed /\ Numbered(b, c.id)
        \/ /\ c.op \in Changes /\ Changing(x, c.op) /\ c.id = x.id /\ c.params = x.params
           /\ Numbered(b, x.id) /\ Before(x, b)
    BY <1>17 DEF Sent
  <2>3. InGdb(b) \subseteq named
    BY <2>2 DEF Numbered, InGdb
  <2>4. CASE c.op \in {"delete", "move"}
    <3>1. kept = {}
      BY <2>4
    <3>2. InGdb(b)' = {}
      BY <2>3, <3>1 DEF InGdb
    <3>3. c.op = "move" => Changing(x, "move")'
      BY <2>2 DEF Changing
    <3>4. CASE c.op = "delete"
      <4>1. x.state \in {"Dead", "None"} /\ x.removed
        BY <2>2, <3>4 DEF Changes
      <4> QED BY <1>5, <2>1, <3>2, <3>4, <4>1 DEF Unread
    <3>5. CASE c.op = "move"
      BY <1>5, <2>1, <2>2, <3>2, <3>3, <3>5 DEF Unread, Changing
    <3> QED BY <2>4, <3>4, <3>5
  <2>5. CASE c.op \in {"count", "enable", "disable"}
    <3>1. /\ Changing(x, c.op) /\ c.id = x.id /\ c.params = x.params /\ Numbered(b, x.id) /\ Before(x, b)
      BY <2>2, <2>5
    <3>2. Changing(x, c.op)'
      BY <3>1 DEF Changing
    <3>3. Numbered(b, x.id)'
      BY <1>7, <3>1 DEF Numbered, InGdb
    <3>4. ASSUME Sure(x)
          PROVE  \E t \in Numbers : /\ t.id = x.id /\ t.b = b
                                    /\ t.pending = x.resp.pending
                                    /\ t.params \in {[Seen(x) EXCEPT !.count = n] : n \in {x.resp.count, x.params.count}}
                                    /\ InGdb(b) = {t} /\ InGdb(b)' = {Changed(c, t)}
      <4>1. PICK n \in {x.resp.count, x.params.count} : Exactly(b, x.id, [Seen(x) EXCEPT !.count = n], x.resp.pending)
        BY <3>1, <3>4 DEF Before
      <4>2. PICK t : t = [id |-> x.id, b |-> b, params |-> [Seen(x) EXCEPT !.count = n], pending |-> x.resp.pending]
        OBVIOUS
      <4>3. InGdb(b) = {t} /\ t.b = b /\ t.id = x.id /\ t.params = [Seen(x) EXCEPT !.count = n]
            /\ t.pending = x.resp.pending
        BY <4>1, <4>2 DEF Exactly
      <4>4. t \in table /\ t \in named /\ t \in Numbers
        BY <1>1, <2>3, <4>3 DEF InGdb
      <4>5. named = {t}
        BY <1>1, <4>4 DEF TableOK
      <4>6. kept = {Changed(c, t)}
        BY <2>5, <4>5
      <4>7. Changed(c, t).b = b
        BY <1>2, <2>5, <4>3, <4>4, Naming
      <4>8. InGdb(b)' = {Changed(c, t)}
        BY <2>3, <4>6, <4>7 DEF InGdb
      <4> QED BY <4>3, <4>4, <4>8
    <3>5. ASSUME Sure(x), NEW p, p = IF c.op = "count" THEN [Seen(x) EXCEPT !.count = x.params.count] ELSE x.params
          PROVE  Exactly(b, x.id, p, x.resp.pending)'
      <4>1. PICK t \in Numbers, n \in {x.resp.count, x.params.count} :
                 /\ t.id = x.id /\ t.b = b /\ t.pending = x.resp.pending
                 /\ t.params = [Seen(x) EXCEPT !.count = n]
                 /\ InGdb(b)' = {Changed(c, t)}
        BY <3>4, <3>5
      <4>2. PICK u : u = Changed(c, t)
        OBVIOUS
      <4>3. /\ u \in Numbers /\ u.id = x.id /\ u.b = b /\ u.pending = x.resp.pending
            /\ c.op = "count" => u.params = [t.params EXCEPT !.count = c.params.count]
            /\ c.op # "count" => u.params = [t.params EXCEPT !.enabled = (c.op = "enable")]
        BY <1>2, <2>5, <4>1, <4>2, Naming
      <4>4. u.params = p
        <5>1. CASE c.op = "count"
          <6>1. PICK v \in View : v = Seen(x)
            BY <1>16, Seeing
          <6>2. u.params = [[v EXCEPT !.count = n] EXCEPT !.count = x.params.count]
            BY <3>1, <4>1, <4>3, <5>1, <6>1
          <6>3. p = [v EXCEPT !.count = x.params.count]
            BY <3>5, <5>1, <6>1
          <6> QED BY <6>2, <6>3 DEF View
        <5>2. CASE c.op \in {"enable", "disable"}
          <6>1. x.params.line = Seen(x).line /\ x.params.count = x.resp.count /\ (c.op = "enable" <=> x.params.enabled)
            BY <1>16, <3>1, <3>5, <5>2, Seeing DEF Changing, Sure
          <6>2. n = x.params.count
            BY <4>1, <6>1
          <6>3. (c.op = "enable") = x.params.enabled
            BY <1>16, <6>1 DEF Params
          <6>4. u.params = [[Seen(x) EXCEPT !.count = n] EXCEPT !.enabled = x.params.enabled]
            BY <4>1, <4>3, <5>2, <6>3
          <6>5. p = x.params /\ n = x.params.count
            BY <3>5, <5>2, <6>2
          <6>6. [[Seen(x) EXCEPT !.count = n] EXCEPT !.enabled = x.params.enabled] = x.params
            BY <1>16, <6>1, <6>5, Seeing DEF View, Params
          <6> QED BY <6>4, <6>5, <6>6
        <5> QED BY <2>5, <5>1, <5>2
      <4>5. u = [id |-> x.id, b |-> b, params |-> p, pending |-> x.resp.pending]
        BY <4>3, <4>4 DEF Numbers
      <4> QED BY <4>1, <4>2, <4>5 DEF Exactly
    <3>6. Sure(x)' <=> Sure(x)
      BY DEF Sure
    <3>7. CASE c.op = "count"
      BY <1>5, <2>1, <3>2, <3>3, <3>5, <3>6, <3>7 DEF Unread, Insertions
    <3>8. CASE c.op \in {"enable", "disable"}
      BY <1>5, <2>1, <3>2, <3>3, <3>5, <3>6, <3>8 DEF Unread, Insertions
    <3> QED BY <2>5, <3>7, <3>8
  <2> QED BY <2>2, <2>4, <2>5 DEF Changes
<1>18. Answers(c, d, e, x, x)
  BY <1>5, <1>11, <1>12, <1>14, <1>15 DEF Answers
<1>19. ItemOK(x) /\ Sent(x, c.b, c) => ItemOK(x)' /\ Unread(x, c.b, d)'
  BY <1>15, <1>17
<1> QED BY <1>8, <1>10, <1>18, <1>19, AnsweringIsSound

LEMMA StepGdbReads ==
  ASSUME IInv, GdbReads
  PROVE  IInv'
<1>1. PICK c : c = Head(h.wire)
  OBVIOUS
<1> DEFINE named == {t \in table : t.id = c.id}
           kept == IF c.op \in {"count", "enable", "disable"} THEN {Changed(c, t) : t \in named} ELSE {}
<1>2. /\ gdb /\ h.wire # <<>>
      /\ \/ c.op = "insert" /\ Inserts(c, c.params)
         \/ c.op = "break" /\ Inserts(c, [c.params EXCEPT !.count = 0, !.enabled = TRUE])
         \/ /\ c.op \notin {"insert", "break"} /\ table' = (table \ named) \cup kept
            /\ answers' = Append(answers, [op |-> c.op, b |-> c.b, id |-> c.id,
                                           params |-> c.params, pending |-> FALSE,
                                           ok |-> c.op \notin {"nowhere", "other"}])
            /\ h' = [h EXCEPT !.wire = Tail(@)]
            /\ UNCHANGED last
      /\ UNCHANGED <<phase, gdb, stale, edits, sessions>>
  BY <1>1 DEF GdbReads
<1>3. c \in Command
  <2>1. h.wire \in Seq(Command)
    BY DEF IInv, Sound, Handler
  <2> QED BY <1>1, <1>2, <2>1, CommandRead DEF Read
<1>4. ASSUME NEW p \in Params, c.op \in Insertions, c.op = "insert" => p.count = c.params.count, Inserts(c, p)
      PROVE  IInv'
  <2>1. ASSUME NEW q \in Placed(p),
               last' = last + 1,
               table' = table \cup {[id |-> last', b |-> c.b, params |-> q.params, pending |-> q.pending]},
               answers' = Append(answers, [op |-> c.op, b |-> c.b, id |-> last', params |-> q.params,
                                           pending |-> q.pending, ok |-> TRUE]),
               h' = [h EXCEPT !.wire = Tail(@)]
        PROVE  IInv'
    <3>1. q.params \in Params /\ q.params.count = p.count /\ q.pending \in BOOLEAN
      <4>1. \/ q = [params |-> p, pending |-> FALSE]
            \/ q = [params |-> p, pending |-> TRUE]
            \/ \E line \in Lines : q = [params |-> [p EXCEPT !.line = line], pending |-> FALSE]
        BY <2>1 DEF Placed
      <4>2. \A line \in Lines : [p EXCEPT !.line = line] \in Params /\ [p EXCEPT !.line = line].count = p.count
        BY DEF Params
      <4>3. CASE q = [params |-> p, pending |-> FALSE]
        BY <4>3
      <4>4. CASE q = [params |-> p, pending |-> TRUE]
        BY <4>4
      <4>5. ASSUME NEW line \in Lines, q = [params |-> [p EXCEPT !.line = line], pending |-> FALSE]
            PROVE  q.params \in Params /\ q.params.count = p.count /\ q.pending \in BOOLEAN
        <5>1. PICK r : r = [p EXCEPT !.line = line]
          OBVIOUS
        <5>2. r \in Params /\ r.count = p.count
          BY <4>2, <5>1
        <5>3. q.params = r /\ q.pending = FALSE
          BY <4>5, <5>1
        <5> QED BY <5>2, <5>3
      <4> QED BY <4>1, <4>3, <4>4, <4>5
    <3> QED BY <1>1, <1>2, <1>4, <2>1, <3>1, InsertedIsSound
  <2>2. CASE /\ answers' = Append(answers, [op |-> c.op, b |-> c.b, id |-> 0, params |-> p, pending |-> FALSE, ok |-> FALSE])
             /\ h' = [h EXCEPT !.wire = Tail(@), !.item[c.b].refused = TRUE]
             /\ UNCHANGED <<table, last>>
    BY <1>1, <1>2, <1>4, <2>2, RefusedIsSound
  <2> QED BY <1>4, <2>1, <2>2 DEF Inserts
<1>5. CASE c.op = "insert" /\ Inserts(c, c.params)
  <2>1. c.params \in Params
    BY <1>3 DEF Command
  <2> QED BY <1>4, <1>5, <2>1 DEF Insertions
<1>6. CASE c.op = "break" /\ Inserts(c, [c.params EXCEPT !.count = 0, !.enabled = TRUE])
  <2>1. [c.params EXCEPT !.count = 0, !.enabled = TRUE] \in Params
    BY <1>3, ParametersAssumption DEF Command, Params
  <2> QED BY <1>4, <1>6, <2>1 DEF Insertions
<1>7. CASE /\ c.op \notin {"insert", "break"} /\ table' = (table \ named) \cup kept
           /\ answers' = Append(answers, [op |-> c.op, b |-> c.b, id |-> c.id,
                                          params |-> c.params, pending |-> FALSE,
                                          ok |-> c.op \notin {"nowhere", "other"}])
           /\ h' = [h EXCEPT !.wire = Tail(@)]
           /\ UNCHANGED last
  <2>1. PICK m, k : m = named /\ k = kept
    OBVIOUS
  <2>2. Names(c, m, k)
    BY <1>1, <1>7, <2>1 DEF Names, Insertions
  <2>3. UNCHANGED <<phase, gdb, last, stale, edits, sessions>>
    BY <1>2, <1>7
  <2> QED BY <1>2, <2>2, <2>3, NamedIsSound
<1> QED BY <1>2, <1>5, <1>6, <1>7

(* gdb finds where a pending breakpoint is.  If that is not the line asked    *)
(* for, the breakpoint is astray; otherwise the code learns what it has      *)
(* taken for granted.                                                        *)
LEMMA StepGdbResolves ==
  ASSUME IInv, NEW t \in table, NEW line \in Lines, GdbResolves(t, line)
  PROVE  IInv'
<1> DEFINE b == t.b
<1>x. PICK x : x = h.item[b]
  OBVIOUS
<1>u. PICK u : u = [t EXCEPT !.params.line = line, !.pending = FALSE]
  OBVIOUS
<1>z. PICK z : z = [x EXCEPT !.resp = UpdateResponse(@, u), !.astray = @ \/ line # x.params.line]
  OBVIOUS
<1>1. /\ gdb /\ t.pending /\ \A a \in ToSet(answers) : a.b = b => a.op \notin Insertions
      /\ table' = (table \ {t}) \cup {u}
      /\ h' = IF There(x) /\ x.id = t.id THEN [h EXCEPT !.item[b] = z] ELSE h
      /\ UNCHANGED <<phase, gdb, last, answers, stale, edits, sessions>>
  BY <1>x, <1>u, <1>z DEF GdbResolves, Insertions
<1>2. World /\ Sound(h, answers) /\ TableOK /\ last \in Nat /\ table \subseteq Numbers
  BY DEF IInv, World
<1>3. t \in Numbers /\ t.params \in Params /\ t.id \in Nat /\ b \in Bps /\ t.id # 0 /\ t.id \in 1..last
  BY <1>2 DEF Numbers, TableOK
<1>4. /\ u \in Numbers /\ u.id = t.id /\ u.b = b /\ u.pending = FALSE
      /\ u.params \in Params /\ u.params = [t.params EXCEPT !.line = line]
      /\ u.params.line = line /\ u.params.count = t.params.count /\ u.params.enabled = t.params.enabled
  BY <1>3, <1>u DEF Numbers, Params
<1>5. x \in Item /\ h \in Handler /\ h.item \in [Bps -> Item]
      /\ h = [item |-> h.item, wire |-> h.wire, timer |-> h.timer]
  BY <1>2, <1>3, <1>x DEF Sound, Handler
<1>6. UpdateResponse(x.resp, u) \in Response
      /\ UpdateResponse(x.resp, u) = [x.resp EXCEPT !.line = line, !.enabled = t.params.enabled, !.pending = FALSE]
  <2>1. x.resp \in Response
    BY <1>5 DEF Item
  <2>2. t.params.enabled \in BOOLEAN
    BY <1>3 DEF Params
  <2>3. UpdateResponse(x.resp, u) = [x.resp EXCEPT !.line = line, !.enabled = t.params.enabled, !.pending = FALSE]
    BY <1>4 DEF UpdateResponse
  <2> QED BY <2>1, <2>2, <2>3 DEF Response
<1>7. /\ z \in Item /\ z.state = x.state /\ z.params = x.params /\ z.engine = x.engine /\ z.id = x.id
      /\ z.deleting = x.deleting /\ z.removed = x.removed /\ z.hurried = x.hurried /\ z.raced = x.raced
      /\ z.refused = x.refused /\ z.odd = x.odd
      /\ z.astray <=> x.astray \/ line # x.params.line
      /\ z.resp.line = line /\ z.resp.count = x.resp.count /\ z.resp.enabled = t.params.enabled
      /\ z.resp.pending = FALSE
  <2> DEFINE resp == UpdateResponse(x.resp, u)
             lost == x.astray \/ line # x.params.line
  <2>1. x.resp \in Response
    BY <1>5 DEF Item
  <2>2. /\ resp \in Response /\ resp.line = line /\ resp.count = x.resp.count
        /\ resp.enabled = t.params.enabled /\ resp.pending = FALSE
    BY <1>6, <2>1 DEF Response
  <2>3. lost \in BOOLEAN /\ (lost <=> x.astray \/ line # x.params.line)
    BY <1>5 DEF Item
  <2>4. z = [x EXCEPT !.resp = resp, !.astray = lost]
    BY <1>z
  <2> HIDE DEF resp, lost
  <2> QED BY <1>5, <2>2, <2>3, <2>4 DEF Item
<1> DEFINE known == There(x) /\ x.id = t.id
<1>y. PICK y : y = IF known THEN z ELSE x
  OBVIOUS
<1>8. PICK e, s : e = h' /\ s = answers
  OBVIOUS
<1>9. /\ e.wire = h.wire /\ e.timer = h.timer /\ e.item = [h.item EXCEPT ![b] = y]
      /\ e = [item |-> e.item, wire |-> e.wire, timer |-> e.timer]
  <2>1. CASE known
    BY <1>1, <1>5, <1>8, <1>y, <2>1
  <2>2. CASE ~known
    BY <1>1, <1>3, <1>5, <1>8, <1>x, <1>y, <2>2
  <2> QED BY <2>1, <2>2
<1>10. y \in Item
  BY <1>5, <1>7, <1>y
<1>11. e \in Handler /\ e.item[b] = y /\ \A k \in Bps : k # b => e.item[k] = h.item[k]
  BY <1>3, <1>5, <1>9, <1>10 DEF Handler
<1>12. Grows
  BY <1>1, <1>2, <1>3, <1>4 DEF Grows
<1>13. TableOK' /\ World'
  <2>1. TableOK'
    BY <1>1, <1>2, <1>3, <1>4 DEF TableOK
  <2> QED BY <1>1, <1>2, <1>4, <2>1 DEF World
<1>14. /\ s \in Seq(Answer) /\ WireOK(e.wire) /\ AnswersOK(s) /\ (~gdb => e.wire = <<>>)
       /\ \A k \in Bps : Good(h, s, k)
       /\ h.wire \in Seq(Command)
  BY <1>2, <1>8, <1>9 DEF Sound, Handler
<1>15. WireOK(e.wire)'
  <2>1. ASSUME ~stale, NEW i \in DOMAIN e.wire PROVE Owns(e.wire[i].b, e.wire[i].id)'
    <3>1. e.wire[i] \in Command
      BY <1>9, <1>14
    <3>2. e.wire[i].id \in Nat /\ Owns(e.wire[i].b, e.wire[i].id)
      BY <1>14, <2>1, <3>1 DEF WireOK, Command
    <3> QED BY <1>2, <1>12, <3>2, OwnsStays
  <2> QED BY <1>1, <2>1 DEF WireOK
<1>16. AnswersOK(s)'
  <2>1. ASSUME NEW i \in DOMAIN s, s[i].op \in Insertions, s[i].ok PROVE s[i].id # 0 /\ Owns(s[i].b, s[i].id)'
    <3>1. s[i] \in Answer
      BY <1>14
    <3>2. s[i].id \in Nat /\ s[i].id # 0 /\ Owns(s[i].b, s[i].id)
      BY <1>14, <2>1, <3>1 DEF AnswersOK, Answer
    <3> QED BY <1>2, <1>12, <3>2, OwnsStays
  <2> QED BY <2>1 DEF AnswersOK
<1>17. ASSUME NEW k \in Bps, k # b PROVE Good(e, s, k)'
  <2>v. PICK v, w, due : v = h.item[k] /\ w = h.wire /\ due = h.timer
    OBVIOUS
  <2>1. Spared(k)
    BY <1>1, <1>4, <1>17 DEF Spared, InGdb
  <2>2. v \in Item /\ Owned(v, k) /\ Expected(v, w, s, k)
        /\ (v.raced \/ (Tracked(v, w, s, k) /\ Due(v, w, s, due, k)))
    BY <1>5, <1>14, <2>v DEF Good, Held
  <2>3. UNCHANGED <<phase, gdb, stale>>
    BY <1>1
  <2>4. e.item[k] = v /\ e.wire = w /\ e.timer = due
    BY <1>9, <1>11, <1>17, <2>v
  <2>5. /\ Owned(v, k)' /\ Expected(v, w, s, k)'
        /\ v.raced \/ (Tracked(v, w, s, k)' /\ Due(v, w, s, due, k)')
    BY <1>2, <1>12, <2>1, <2>2, <2>3, BystanderKeeps
  <2> QED BY <2>4, <2>5 DEF Good, Held
<1>18. InGdb(b)' = (InGdb(b) \ {t}) \cup {u} /\ t \in InGdb(b)
  BY <1>1, <1>4 DEF InGdb
<1>19. \A n : Numbered(b, n) => n = t.id /\ Numbered(b, n)' /\ InGdb(b) = {t} /\ InGdb(b)' = {u}
  BY <1>2, <1>4, <1>18 DEF Numbered, InGdb, TableOK
<1>20. ASSUME NEW w, Tracked(x, w, s, b) PROVE Tracked(y, w, s, b)'
  <2>1. ItemOK(x)
    BY <1>20 DEF Tracked
  <2>2. known => x.state \notin {"None", "New"}
    BY <1>3, <2>1 DEF ItemOK
  <2>3. ItemOK(y)'
    <3>1. known => ItemOK(z)'
      BY <1>1, <1>7, <2>1, <2>2 DEF ItemOK
    <3>2. ItemOK(x)'
      BY <1>1, <2>1 DEF ItemOK
    <3> QED BY <1>y, <3>1, <3>2
  <2>4. Seen(z) = [line |-> line, count |-> x.resp.count, enabled |-> t.params.enabled]
    BY <1>7 DEF Seen
  <2>5. ASSUME Sure(z)', NEW p, Exactly(b, x.id, p, x.resp.pending), p.line \in {Seen(x).line, x.params.line}
        PROVE  /\ Sure(x) /\ p = t.params /\ p.line = line
               /\ Exactly(b, x.id, p, z.resp.pending)'
    <3>1. Sure(x) /\ line = x.params.line
      BY <1>1, <1>7, <2>5 DEF Sure
    <3>2. t = [id |-> x.id, b |-> b, params |-> p, pending |-> x.resp.pending]
      BY <1>18, <2>5 DEF Exactly
    <3>3. x.resp.pending /\ p = t.params /\ t.id = x.id
      <4>1. t.pending = x.resp.pending /\ t.params = p /\ t.id = x.id
        BY <3>2
      <4> QED BY <1>1, <4>1
    <3>4. p.line = line
      BY <2>5, <3>1, <3>3 DEF Seen
    <3>5. u.params = p
      BY <1>3, <1>4, <3>3, <3>4 DEF Params
    <3>6. InGdb(b)' = {u}
      BY <1>18, <2>5, <3>2 DEF Exactly
    <3>7. u = [id |-> x.id, b |-> b, params |-> p, pending |-> FALSE]
      BY <1>4, <3>3, <3>5 DEF Numbers
    <3> QED BY <1>7, <3>1, <3>3, <3>4, <3>6, <3>7 DEF Exactly
  <2>6. ASSUME NEW n, Sure(z)', Exactly(b, x.id, [Seen(x) EXCEPT !.count = n], x.resp.pending)
        PROVE  Seen(z) = Seen(x) /\ Exactly(b, x.id, [Seen(x) EXCEPT !.count = n], z.resp.pending)'
    <3> DEFINE p == [Seen(x) EXCEPT !.count = n]
    <3>1. Seen(x) \in View
      BY <1>5, Seeing
    <3>2. p.line = Seen(x).line /\ p.enabled = Seen(x).enabled
      BY <3>1 DEF View
    <3> HIDE DEF p
    <3>3. p = t.params /\ p.line = line /\ Exactly(b, x.id, p, z.resp.pending)'
      BY <2>5, <2>6, <3>2 DEF p
    <3>4. Seen(x).line = line /\ Seen(x).enabled = t.params.enabled /\ Seen(x).count = x.resp.count
      BY <3>2, <3>3 DEF Seen
    <3>5. Seen(z) = Seen(x)
      BY <2>4, <3>1, <3>4 DEF View
    <3> QED BY <3>3, <3>5 DEF p
  <2>7. ASSUME Sure(z)', Exactly(b, x.id, Seen(x), x.resp.pending)
        PROVE  Seen(z) = Seen(x) /\ Exactly(b, x.id, Seen(z), z.resp.pending)'
    <3>1. [Seen(x) EXCEPT !.count = x.resp.count] = Seen(x)
      BY <1>5, Seeing
    <3>2. Seen(z) = Seen(x) /\ Exactly(b, x.id, Seen(x), z.resp.pending)'
      BY <2>6, <2>7, <3>1
    <3> QED BY <3>2 DEF Exactly
  <2>8. Sure(z)' => Sure(x)
    BY <1>1, <1>7 DEF Sure
  <2>9. \A op : Changing(x, op) => Changing(z, op)'
    BY <1>7 DEF Changing, Moves
  <2>10. CASE NoneOf(w, b) /\ NoneOf(s, b)
    <3>1. Resting(x, b)
      BY <1>20, <2>10, SoleIsIn DEF Tracked
    <3>2. /\ x.state \in {"Inserted", "ChangeRequested", "RemoveRequested"} /\ x.id # 0
          /\ Numbered(b, x.id) /\ (Sure(x) => Exactly(b, x.id, Seen(x), x.resp.pending))
          /\ Sure(x) /\ x.state = "Inserted" => x.params = Seen(x)
      <4>1. x.state \notin {"InsertRequested", "RemoveProceeding"} /\ x.state \in BreakpointState
        BY <1>5, <2>1 DEF ItemOK, Item
      <4> QED BY <1>1, <1>18, <3>1, <4>1 DEF Resting, BreakpointState
    <3>3. known /\ y = z /\ Numbered(b, z.id)'
      BY <1>7, <1>19, <1>y, <3>2 DEF There
    <3>4. Sure(z)' => Exactly(b, z.id, Seen(z), z.resp.pending)' /\ (x.state = "Inserted" => z.params = Seen(z))
      BY <1>7, <2>7, <2>8, <3>2
    <3>5. Resting(z, b)'
      BY <1>7, <3>2, <3>3, <3>4 DEF Resting
    <3> QED BY <2>3, <2>10, <3>3, <3>5 DEF Tracked
  <2>11. ASSUME NEW c \in ToSet(w), Sole(w, b, c), NoneOf(s, b), Sent(x, b, c) PROVE Tracked(y, w, s, b)'
    <3>1. CASE c.op = "delete" /\ x.state \in {"Dead", "None"} /\ x.removed /\ Numbered(b, c.id)
      <4>1. Sent(y, b, c)'
        BY <1>7, <1>19, <1>y, <3>1 DEF Sent
      <4> QED BY <2>3, <2>11, <4>1 DEF Tracked
    <3>2. CASE /\ c.op \in Changes /\ Changing(x, c.op) /\ c.id = x.id /\ c.params = x.params
               /\ Numbered(b, x.id) /\ Before(x, b)
      <4>1. known /\ y = z /\ Numbered(b, z.id)'
        BY <1>7, <1>19, <1>y, <3>2 DEF There, Changing
      <4>2. Before(z, b)'
        BY <1>7, <2>6, <2>8, <3>2 DEF Before
      <4>3. Sent(z, b, c)'
        BY <1>7, <2>9, <3>2, <4>1, <4>2 DEF Sent
      <4> QED BY <2>3, <2>11, <4>1, <4>3 DEF Tracked
    <3> QED BY <1>18, <2>11, <3>1, <3>2 DEF Sent
  <2>12. ASSUME NEW a \in ToSet(s), NoneOf(w, b), Sole(s, b, a), Unread(x, b, a) PROVE Tracked(y, w, s, b)'
    <3>1. a.op \notin Insertions
      BY <1>1, <1>8, <2>12 DEF Sole
    <3>2. /\ a.op \in {"count", "enable", "disable"} /\ Changing(x, a.op) /\ Numbered(b, x.id)
          /\ a.op = "count" =>
               (Sure(x) => Exactly(b, x.id, [Seen(x) EXCEPT !.count = x.params.count], x.resp.pending))
          /\ a.op # "count" => (Sure(x) => Exactly(b, x.id, x.params, x.resp.pending))
      BY <1>18, <2>12, <3>1 DEF Unread
    <3>3. known /\ y = z /\ Numbered(b, z.id)' /\ Changing(z, a.op)'
      BY <1>7, <1>19, <1>y, <2>9, <3>2 DEF There, Changing
    <3>4. CASE a.op = "count"
      <4>1. Sure(z)' => Exactly(b, z.id, [Seen(z) EXCEPT !.count = z.params.count], z.resp.pending)'
        <5>1. Sure(z)' => Seen(z) = Seen(x) /\ Exactly(b, x.id, [Seen(x) EXCEPT !.count = x.params.count], z.resp.pending)'
          BY <2>6, <2>8, <3>2, <3>4
        <5> QED BY <1>7, <5>1 DEF Exactly
      <4>2. Unread(z, b, a)'
        BY <3>3, <3>4, <4>1 DEF Unread
      <4> QED BY <2>3, <2>12, <3>3, <4>2 DEF Tracked
    <3>5. CASE a.op \in {"enable", "disable"}
      <4>1. Sure(z)' => Exactly(b, z.id, z.params, z.resp.pending)'
        <5>1. Sure(z)' => Exactly(b, x.id, x.params, z.resp.pending)'
          BY <2>5, <2>8, <3>2, <3>5
        <5> QED BY <1>7, <5>1 DEF Exactly
      <4>2. Unread(z, b, a)'
        BY <3>3, <3>5, <4>1 DEF Unread
      <4> QED BY <2>3, <2>12, <3>3, <4>2 DEF Tracked
    <3> QED BY <3>2, <3>4, <3>5
  <2> QED BY <1>20, <2>10, <2>11, <2>12 DEF Tracked
<1>21. Good(e, s, b)'
  <2>t. PICK w, due : w = h.wire /\ due = h.timer
    OBVIOUS
  <2>1. Owned(x, b) /\ Expected(x, w, s, b) /\ (x.raced \/ (Tracked(x, w, s, b) /\ Due(x, w, s, due, b)))
    BY <1>3, <1>14, <1>x, <2>t DEF Good, Held
  <2>2. /\ y.state = x.state /\ y.engine = x.engine /\ y.id = x.id /\ y.deleting = x.deleting
        /\ y.removed = x.removed /\ y.raced = x.raced /\ y.refused = x.refused
    BY <1>7, <1>y
  <2>3. e.item[b] = y /\ e.wire = w /\ e.timer = due
    BY <1>9, <1>11, <2>t
  <2>4. y.raced \/ Tracked(y, w, s, b)'
    BY <1>20, <2>1, <2>2
  <2>5. x.id \in Nat
    BY <1>5 DEF Item
  <2>6. Owned(y, b)'
    <3>1. Owns(b, x.id) => Owns(b, x.id)'
      BY <1>2, <1>12, <2>5, OwnsStays
    <3> QED BY <1>1, <2>1, <2>2, <3>1 DEF Owned, There
  <2>7. Expected(y, w, s, b)'
    BY <1>1, <2>1, <2>2 DEF Expected, There
  <2>8. Due(x, w, s, due, b) => Due(y, w, s, due, b)'
    BY <1>1, <2>2 DEF Due, Settled
  <2> QED BY <2>1, <2>2, <2>3, <2>4, <2>6, <2>7, <2>8 DEF Good, Held
<1>22. Sound(e, s)'
  BY <1>1, <1>11, <1>14, <1>15, <1>16, <1>17, <1>21 DEF Sound
<1> QED BY <1>1, <1>8, <1>13, <1>22, NextIsSound

-----------------------------------------------------------------------------
LEMMA Start ==
  ASSUME Init
  PROVE  IInv
<1>1. /\ h = [ item |-> [b \in Bps |-> Absent], wire |-> <<>>, timer |-> FALSE ]
      /\ phase = "idle" /\ gdb = FALSE /\ table = {} /\ last = 0 /\ answers = <<>>
      /\ stale = FALSE /\ edits = 0 /\ sessions = 0
  BY DEF Init
<1>2. World
  <2>1. edits \in 0..MaxEdits /\ sessions \in 0..MaxSessions
    BY <1>1, ParametersAssumption
  <2>2. TableOK
    BY <1>1 DEF TableOK
  <2> QED BY <1>1, <2>1, <2>2 DEF World, Phase
<1>3. <<>> \in Seq(Command) /\ <<>> \in Seq(Answer)
  OBVIOUS
<1>4. Absent \in Item
  BY Parameters
<1>5. /\ Absent.state = "None" /\ ~Absent.engine /\ Absent.id = 0 /\ Absent.resp = NoResponse
      /\ ~Absent.deleting /\ ~Absent.removed /\ ~Absent.odd /\ ~Absent.astray
  BY DEF Absent
<1>6. PICK e, s, x : e = h /\ s = answers /\ x = Absent
  OBVIOUS
<1>7. /\ e.item = [b \in Bps |-> x] /\ e.wire = <<>> /\ e.timer = FALSE
      /\ e = [item |-> e.item, wire |-> e.wire, timer |-> e.timer]
  BY <1>1, <1>6
<1>8. e \in Handler
  BY <1>3, <1>4, <1>6, <1>7 DEF Handler
<1>9. WireOK(e.wire) /\ AnswersOK(s)
  BY <1>1, <1>6, <1>7 DEF WireOK, AnswersOK
<1>10. ASSUME NEW b \in Bps PROVE Good(e, s, b)
  <2>1. NoneOf(e.wire, b) /\ NoneOf(s, b)
    BY <1>1, <1>6, <1>7, NothingInEmpty
  <2>2. e.item[b] = x
    BY <1>7
  <2>3. Owned(x, b) /\ Expected(x, e.wire, s, b)
    BY <1>5, <1>6, <2>1 DEF Owned, Expected, There
  <2>4. InGdb(b) = {}
    BY <1>1 DEF InGdb
  <2>5. ItemOK(x) /\ Resting(x, b)
    BY <1>5, <1>6, <2>4 DEF ItemOK, Resting
  <2>6. Due(x, e.wire, s, e.timer, b)
    BY <1>1 DEF Due
  <2> QED BY <2>1, <2>2, <2>3, <2>5, <2>6 DEF Good, Held, Tracked
<1>11. Sound(e, s)
  BY <1>1, <1>3, <1>6, <1>7, <1>8, <1>9, <1>10 DEF Sound
<1> QED BY <1>2, <1>6, <1>11 DEF IInv

LEMMA Preserved ==
  ASSUME IInv, [Next]_vars
  PROVE  IInv'
<1>1. CASE UserEdits
  BY <1>1, StepSetEnabled, StepRemoveItem, StepAppendBreakpoint, StepChangeBreakpointData DEF UserEdits
<1>2. CASE UNCHANGED vars
  <2>1. /\ UNCHANGED <<phase, gdb, table, last, stale, sessions>> /\ edits' \in 0..MaxEdits
        /\ h' = h /\ answers' = answers
    BY <1>2 DEF vars, IInv, World
  <2>2. Sound(h', answers')
    BY <2>1 DEF IInv
  <2> QED BY <2>1, <2>2, StepInSameWorld
<1> QED BY <1>1, <1>2, StepTimerEvent, StepReadAnswer, StepDeletionHelper, StepStartSession, StepPrepare,
           StepPhase, StepEndSession, StepCommandTimeout, StepGdbReads, StepGdbDies,
           StepGdbResolves DEF Next

LEMMA Invariance == Spec => []IInv
BY Start, Preserved, PTL DEF Spec

(* What is true in a state where the invariant holds. *)
LEMMA InvariantGivesTypes == IInv => TypeOK
BY DEF IInv, World, Sound, Handler, TypeOK, Answer, Numbers

LEMMA InvariantGivesTransitions == IInv => NoUnexpectedTransition
BY DEF IInv, Sound, Good, Held, Tracked, ItemOK, NoUnexpectedTransition

LEMMA InvariantGivesInsertions == IInv => InsertedOnce
<1> SUFFICES ASSUME IInv, NEW b \in Bps, ~h.item[b].raced
             PROVE  Cardinality(InGdb(b)) + Cardinality({i \in DOMAIN h.wire :
                      h.wire[i].op \in {"insert", "break"} /\ h.wire[i].b = b}) <= 1
  BY DEF InsertedOnce
<1> DEFINE asked == {i \in DOMAIN h.wire : h.wire[i].op \in {"insert", "break"} /\ h.wire[i].b = b}
<1>1. PICK x, w : x = h.item[b] /\ w = h.wire
  OBVIOUS
<1>2. Tracked(x, w, answers, b) /\ ItemOK(x) /\ TableOK /\ (~gdb => table = {})
      /\ x.state \in BreakpointState
  BY <1>1 DEF IInv, World, Sound, Good, Held, Tracked, Handler, Item
<1>3. ASSUME NEW n, Numbered(b, n) PROVE InGdb(b) = {} \/ \E t : InGdb(b) = {t}
  BY <1>2, <1>3 DEF Numbered, InGdb, TableOK
<1>4. ~gdb => InGdb(b) = {}
  BY <1>2 DEF InGdb
<1>5. InGdb(b) = {} \/ \E t : InGdb(b) = {t}
  <2>1. Resting(x, b) => InGdb(b) = {} \/ \E n : Numbered(b, n)
    BY <1>2, <1>4 DEF Resting, ItemOK, BreakpointState
  <2>2. \A c : Sent(x, b, c) => InGdb(b) = {} \/ \E n : Numbered(b, n)
    BY DEF Sent
  <2>3. \A a : Unread(x, b, a) => InGdb(b) = {} \/ \E n : Numbered(b, n)
    BY DEF Unread
  <2> QED BY <1>2, <1>3, <2>1, <2>2, <2>3 DEF Tracked
<1>6. CASE NoneOf(w, b)
  <2>1. asked = {}
    BY <1>1, <1>6 DEF NoneOf
  <2>2. Cardinality(InGdb(b)) \in {0, 1}
    BY <1>5, FS_EmptySet, FS_Singleton
  <2>3. Cardinality(asked) = 0
    BY <2>1, FS_EmptySet
  <2> QED BY <2>2, <2>3
<1>7. ASSUME NEW c, Sole(w, b, c), Sent(x, b, c) PROVE Cardinality(InGdb(b)) + Cardinality(asked) <= 1
  <2>1. PICK k \in DOMAIN w : w[k] = c /\ \A j \in DOMAIN w : w[j].b = b => j = k
    BY <1>7 DEF Sole
  <2>2. CASE c.op \in Insertions
    <3>1. InGdb(b) = {}
      BY <1>7, <2>2 DEF Sent, Insertions, Changes
    <3>2. asked = {} \/ asked = {k}
      BY <1>1, <2>1
    <3>3. Cardinality(asked) \in {0, 1} /\ Cardinality(InGdb(b)) = 0
      BY <3>1, <3>2, FS_EmptySet, FS_Singleton
    <3> QED BY <3>3
  <2>3. CASE c.op \notin Insertions
    <3>1. asked = {}
      BY <1>1, <2>1, <2>3 DEF Insertions
    <3>2. Cardinality(InGdb(b)) \in {0, 1}
      BY <1>5, FS_EmptySet, FS_Singleton
    <3>3. Cardinality(asked) = 0
      BY <3>1, FS_EmptySet
    <3> QED BY <3>2, <3>3
  <2> QED BY <2>2, <2>3
<1> QED BY <1>2, <1>6, <1>7 DEF Tracked

LEMMA InvariantGivesAgreement == IInv => SettledAgrees
<1> SUFFICES ASSUME IInv, phase = "live", gdb, Quiet, ~stale, NEW b \in Bps, ~Excused(b)
             PROVE  Agreed(b)
  BY DEF SettledAgrees
<1>1. PICK x : x = h.item[b]
  OBVIOUS
<1>2. ~x.raced /\ ~x.refused /\ ~x.astray /\ h.wire = <<>> /\ answers = <<>> /\ ~h.timer /\ ~x.deleting
  BY <1>1 DEF Excused, Quiet
<1>3. /\ Tracked(x, h.wire, answers, b) /\ Due(x, h.wire, answers, h.timer, b)
      /\ x \in Item
  BY <1>1, <1>2 DEF IInv, Sound, Good, Held, Handler
<1>4. NoneOf(h.wire, b) /\ NoneOf(answers, b)
  BY <1>2, NothingInEmpty
<1>5. Resting(x, b) /\ ItemOK(x)
  BY <1>3, <1>4, SoleIsIn DEF Tracked
<1>6. x.state \notin {"New", "ChangeRequested", "RemoveRequested"}
  BY <1>2, <1>3, <1>4 DEF Due, Settled
<1>7. x.state \notin {"Dead", "InsertProceeding", "ChangeProceeding", "InsertRequested", "RemoveProceeding"}
  BY <1>2, <1>5 DEF ItemOK, Resting, NotAsked
<1>8. x.state \in {"None", "Inserted"}
  BY <1>3, <1>6, <1>7 DEF Item, BreakpointState
<1>9. CASE x.state = "None"
  BY <1>1, <1>5, <1>9 DEF Resting, Agreed, There
<1>10. CASE x.state = "Inserted"
  <2>1. Exactly(b, x.id, Seen(x), x.resp.pending) /\ x.params = Seen(x)
    BY <1>2, <1>5, <1>10 DEF Resting, Sure, ItemOK
  <2>2. ~x.removed
    BY <1>2, <1>5, <1>10 DEF ItemOK
  <2> QED BY <1>1, <1>10, <2>1, <2>2 DEF Exactly, Agreed, There
<1> QED BY <1>8, <1>9, <1>10

(* What each variable holds, after any calls of the handler, the engine and  *)
(* gdb (Breakpoints.TypeOK).                                                 *)
THEOREM BreakpointTypes == Spec => []TypeOK
BY Invariance, InvariantGivesTypes, PTL

(* gdb never has a breakpoint twice, whatever the user does and in whatever   *)
(* order answers and synchronizations come: attemptBreakpointSynchronization *)
(* and the callbacks never ask for an insertion while one is on its way, but *)
(* for items on which the user has acted where the code loses track.         *)
THEOREM BreakpointsAreInsertedOnce == Spec => []InsertedOnce
BY Invariance, InvariantGivesInsertions, PTL

(* setState and the assertions of the notify functions never see a transition *)
(* they call unexpected, unless the user was faster than gdb.                *)
THEOREM TransitionsAreExpected == Spec => []NoUnexpectedTransition
BY Invariance, InvariantGivesTransitions, PTL

(* When nothing is on its way and nothing is due, gdb has exactly what the    *)
(* user sees: each edit has been brought to it, with the number by which the *)
(* handler will name the breakpoint, and nothing that was removed is left.   *)
THEOREM SettledSessionsAgree == Spec => []SettledAgrees
BY Invariance, InvariantGivesAgreement, PTL

=============================================================================
