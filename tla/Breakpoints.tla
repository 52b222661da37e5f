------------------------------ MODULE Breakpoints ------------------------------
(***************************************************************************)
(* Breakpoints: the items of BreakHandler (breakhandler.cpp), the           *)
(* synchronization of DebuggerEngine (debuggerengine.cpp) and the           *)
(* breakpoint commands of GdbEngine (gdbengine.cpp), with the table that    *)
(* gdb keeps.                                                               *)
(*                                                                          *)
(* The handler is the record h, with an item for each breakpoint.  An item   *)
(* has three parameters, one of each kind the code treats differently:      *)
(* line, for which it is inserted again; count, whose answer is taken for   *)
(* the value asked for (ignore count, condition and commands); and enabled, *)
(* whose answer is compared.                                                *)
(* The engine is reduced to the phases its breakpoint code distinguishes,   *)
(* and gdb to reading one command after the other.  gdb may keep an inserted *)
(* breakpoint pending until its code is loaded, and choose another line.     *)
(***************************************************************************)
EXTENDS Naturals, Sequences, FiniteSets, SequencesExt

CONSTANTS
  Bps,            (* the breakpoints the user may add                        *)
  Lines, Counts,  (* values of the parameters                                *)
  Inputs,         (* what the user may enter                                 *)
  MaxEdits,       (* how often the user changes or removes a breakpoint      *)
  MaxPlaced,      (* the last insertion of a session whose place is gdb's    *)
  MaxSessions     (* how often a debugger is started                         *)

Params == [line : Lines, count : Counts, enabled : BOOLEAN]

ASSUME ParametersAssumption ==
  /\ IsFiniteSet(Bps) /\ Inputs # {} /\ Inputs \subseteq Params /\ Lines \subseteq Nat \ {0} /\ Counts \subseteq Nat /\ 0 \in Counts
  /\ MaxEdits \in Nat /\ MaxPlaced \in Nat /\ MaxSessions \in Nat

VARIABLES
  h,              (* the handler, and the engine's commands                  *)
  phase,          (* what the engine's state allows                          *)
  gdb,            (* external: gdb runs                                      *)
  table,          (* external: gdb's breakpoints                             *)
  last,           (* external: the number gdb has given last                 *)
  answers,        (* external: what gdb has answered and nobody has read     *)
  stale,          (* history: an item of an earlier session was there     *)
  edits, sessions

vars == <<h, phase, gdb, table, last, answers, stale, edits, sessions>>

(* BreakpointState; None: not in the tree.                                   *)
BreakpointState ==
  { "None", "New", "InsertRequested", "InsertProceeding", "ChangeRequested",
    "ChangeProceeding", "Inserted", "RemoveRequested", "RemoveProceeding", "Dead" }

(* idle: DebuggerFinished; setup, prepared: InferiorSetupRequested, until     *)
(* gdb knows the program and after that; starting: EngineRunRequested; live: *)
(* the program runs, is stopped or in between; shutdown: the inferior or the *)
(* engine is being shut down.                                                *)
Phase == {"idle", "setup", "prepared", "starting", "live", "shutdown"}
AcceptsCommands == phase # "idle"
AcceptsBreakpoints == phase \in {"setup", "prepared", "live"}

(* BreakpointResponse() *)
NoResponse == [line |-> 0, count |-> 0, enabled |-> TRUE, pending |-> TRUE]

Absent ==
  [ state |-> "None", params |-> CHOOSE p \in Inputs : TRUE, engine |-> FALSE, id |-> 0, resp |-> NoResponse,
    deleting |-> FALSE,     (* deletionHelper waits in the event loop          *)
    removed  |-> FALSE,     (* history: the user has removed it                *)
    hurried  |-> FALSE,     (* history: acted on before it was settled         *)
    raced    |-> FALSE,     (* history: acted on where the code loses track    *)
    refused  |-> FALSE,     (* history: gdb has refused to insert it           *)
    astray   |-> FALSE,     (* history: gdb has another line, known to nobody  *)
    odd      |-> FALSE ]    (* history: a transition the code calls unexpected *)

Op == {"insert", "break", "delete", "move", "count", "disable", "enable", "nowhere", "other"}

Cmd(op, b, id, p) == [op |-> op, b |-> b, id |-> id, params |-> p]

Init ==
  /\ h = [ item |-> [b \in Bps |-> Absent], wire |-> <<>>, timer |-> FALSE ]
  /\ phase = "idle" /\ gdb = FALSE /\ table = {} /\ last = 0 /\ answers = <<>>
  /\ stale = FALSE /\ edits = 0 /\ sessions = 0

-----------------------------------------------------------------------------
(* One item x. *)
There(x) == x.state # "None"

IsAllowedTransition(from, to) ==
  <<from, to>> \in
    {"New"} \X {"InsertRequested", "Dead"}
      \cup {<<"InsertRequested", "InsertProceeding">>}
      \cup {"InsertProceeding"} \X {"Inserted", "Dead", "ChangeRequested", "RemoveRequested"}
      \cup {<<"ChangeRequested", "ChangeProceeding">>}
      \cup {"ChangeProceeding"} \X {"Inserted", "Dead"}
      \cup {"Inserted"} \X {"ChangeRequested", "RemoveRequested"}
      \cup {<<"RemoveRequested", "RemoveProceeding">>, <<"RemoveProceeding", "Dead">>}

SetState(x, to) ==
  [x EXCEPT !.state = to, !.odd = @ \/ ~IsAllowedTransition(x.state, to)]

(* The assertion on the current state only logs. *)
GotoState(x, to, assumed) == [SetState(x, to) EXCEPT !.odd = @ \/ x.state # assumed]

DeleteThis(x) == [SetState(x, "Dead") EXCEPT !.deleting = TRUE]

IgnoresEnabled(x) == x.params.line # x.resp.line \/ x.params.count # x.resp.count
NeedsChange(x) == IgnoresEnabled(x) \/ x.params.enabled # x.resp.enabled

Forgotten(e) == e
ScheduleSynchronization(e) == [e EXCEPT !.timer = TRUE]

KeepsState(x) == [x EXCEPT !.engine = FALSE, !.id = 0, !.resp = NoResponse]
NotifyBreakpointReleased(x) ==
  [x EXCEPT !.state = "New", !.engine = FALSE, !.id = 0, !.resp = NoResponse]

-----------------------------------------------------------------------------
(* The commands of GdbEngine.  A member function that concerns the item x of  *)
(* breakpoint b yields the item afterwards and what it sends to gdb.         *)
Quietly(x) == [item |-> x, sent |-> <<>>]
RunCommand(x, c) == [item |-> x, sent |-> IF AcceptsCommands /\ gdb THEN <<c>> ELSE <<>>]

InsertBreakpoint(x, b) ==
  RunCommand(GotoState(x, "InsertProceeding", "InsertRequested"), Cmd("insert", b, 0, x.params))

(* A pending breakpoint keeps its line, whatever the user wants. *)
Moves(x) == ~x.resp.pending /\ x.params.line # x.resp.line

(* The first difference, in the order in which the code looks for them. *)
ChangeOp(x) ==
  CASE Moves(x) -> "move"
    [] ~Moves(x) /\ x.params.count # x.resp.count -> "count"
    [] OTHER -> IF x.params.enabled THEN "enable" ELSE "disable"

Differs(x) == Moves(x) \/ x.params.count # x.resp.count \/ x.params.enabled # x.resp.enabled

ChangeBreakpoint(x, b) ==
  LET y == IF x.state = "ChangeRequested"
           THEN GotoState(x, "ChangeProceeding", "ChangeRequested")
           ELSE [x EXCEPT !.odd = @ \/ x.state # "ChangeProceeding"]
  IN CASE x.id = 0 -> Quietly(x)
       [] x.id # 0 /\ Differs(x) -> RunCommand(y, Cmd(ChangeOp(x), b, x.id, x.params))
       [] x.id # 0 /\ ~Differs(x) -> Quietly(GotoState(y, "Inserted", "ChangeProceeding"))

(* The deletion is not waited for. *)
DeleteInGdb(x, b, id) ==
  RunCommand(DeleteThis(GotoState(x, "RemoveProceeding", "RemoveRequested")),
             Cmd("delete", b, id, x.params))

RemoveBreakpoint(x, b) == IF x.id # 0 THEN DeleteInGdb(x, b, x.id) ELSE Quietly(x)

-----------------------------------------------------------------------------
(* attemptBreakpointSynchronization: own what nobody owns, then ask gdb for  *)
(* what is requested.                                                        *)
SetEngine(x) ==
  [x EXCEPT !.engine = TRUE, !.state = "InsertRequested", !.id = 0, !.resp = NoResponse,
            !.odd = @ \/ x.state # "New", !.raced = @ \/ x.deleting]

Claim(x) == IF There(x) /\ ~x.engine THEN SetEngine(x) ELSE x

AsksAgain(x, b) ==
  IF x.state \in {"InsertRequested", "InsertProceeding"} THEN InsertBreakpoint(x, b) ELSE Quietly(x)
SynchronizeOne(x, b) ==
  CASE x.state = "InsertRequested" -> InsertBreakpoint(x, b)
    [] x.state = "ChangeRequested" -> ChangeBreakpoint(x, b)
    [] x.state = "RemoveRequested" -> RemoveBreakpoint(x, b)
    [] OTHER -> Quietly(x)

(* The breakpoints are visited in the order of the tree, which is left open:  *)
(* each visit concerns its own item and asks for one command at most.         *)
AttemptBreakpointSynchronization(e) ==
  LET visit == [b \in Bps |-> SynchronizeOne(Claim(e.item[b]), b)]
      asked == UNION {ToSet(visit[b].sent) : b \in Bps}
  IN IF ~AcceptsBreakpoints THEN {e}
     ELSE {[e EXCEPT !.item = [b \in Bps |-> visit[b].item], !.wire = @ \o order] :
             order \in SetToSeqs(asked)}

-----------------------------------------------------------------------------
(* The answers, to the item x that the callback has kept a handle of. *)

(* updateResponse: gdb does not give the line of a pending breakpoint.       *)
UpdateResponse(resp, t) ==
  [resp EXCEPT !.line = IF t.pending THEN @ ELSE t.params.line,
               !.enabled = t.params.enabled, !.pending = t.pending]

HandleBreakInsert1(x, a) ==
  LET known == [x EXCEPT !.id = a.id, !.resp = UpdateResponse(@, a),
                         !.astray = a.pending /\ a.params.line # x.params.line]
  IN CASE ~There(x) /\ a.ok -> Quietly(x)
       [] ~There(x) /\ ~a.ok -> RunCommand(x, Cmd("other", a.b, 0, a.params))
       [] There(x) /\ ~a.ok -> RunCommand(x, Cmd("break", a.b, 0, x.params))
       [] There(x) /\ a.ok /\ x.state = "RemoveRequested" -> DeleteInGdb(x, a.b, a.id)
       [] There(x) /\ a.ok /\ x.state # "RemoveRequested" ->
            IF NeedsChange(known)
            THEN ChangeBreakpoint(GotoState(known, "ChangeRequested", "InsertProceeding"), a.b)
            ELSE Quietly(GotoState(known, "Inserted", "InsertProceeding"))

(* gdb announces a breakpoint of the plain command by itself, and            *)
(* handleAlienBreakpoint looks for the item at its line or adds one.  An      *)
(* item that is added beside that of b is not followed.                      *)
HandleAlienBreakpoint(x, a) ==
  LET resp == UpdateResponse(NoResponse, a) IN
  CASE There(x) /\ resp.line = x.params.line -> [x EXCEPT !.id = a.id, !.resp = resp]
    [] ~There(x) /\ ~a.pending ->
         [x EXCEPT !.id = a.id, !.resp = resp, !.params = a.params, !.state = "Inserted",
                   !.engine = TRUE]
    [] OTHER -> [x EXCEPT !.raced = TRUE]

HandleBreakInsert2(x, a) ==
  LET announced == HandleAlienBreakpoint(x, a) IN
  Quietly(CASE a.ok /\ There(x) -> GotoState(announced, "Inserted", "InsertProceeding")
            [] a.ok /\ ~There(x) -> announced
            [] ~a.ok -> x)

HandleBreakLineNumber(x, a) ==
  IF ~There(x) THEN RunCommand(x, Cmd("nowhere", a.b, 0, a.params))
  ELSE InsertBreakpoint([x EXCEPT !.resp.line = x.params.line, !.state = "InsertRequested",
                                  !.odd = @ \/ x.state # "ChangeProceeding", !.astray = FALSE], a.b)

HitCount(x, a) == ChangeBreakpoint([x EXCEPT !.resp.count = x.params.count + 1], a.b)
HandleBreakIgnore(x, a) == ChangeBreakpoint([x EXCEPT !.resp.count = x.params.count], a.b)

HandleBreakEnabled(x, a, on) ==
  ChangeBreakpoint([x EXCEPT !.resp.enabled = on, !.odd = @ \/ x.params.enabled # on], a.b)

Callback(x, a) ==
  CASE a.op = "insert" -> HandleBreakInsert1(x, a)
    [] a.op = "break" -> HandleBreakInsert2(x, a)
    [] a.op = "move" -> HandleBreakLineNumber(x, a)
    [] a.op = "count" /\ There(x) -> HandleBreakIgnore(x, a)
    [] a.op = "disable" /\ There(x) -> HandleBreakEnabled(x, a, FALSE)
    [] a.op = "enable" /\ There(x) -> HandleBreakEnabled(x, a, TRUE)
    [] a.op = "nowhere" -> RunCommand(x, Cmd("other", a.b, 0, a.params))
    [] OTHER -> Quietly(x)

Called(e, a) ==
  LET did == Callback(e.item[a.b], a) IN
  [e EXCEPT !.item[a.b] = did.item, !.wire = @ \o did.sent]

(* The synchronization waits for m_pendingBreakpointRequests, which          *)
(* doUpdateLocals resets at every stop and nothing resets when gdb dies:     *)
(* whether it is 0 is left open.                                             *)
HandleResultRecord(e, a) == {Called(e, a)} \cup AttemptBreakpointSynchronization(Called(e, a))

-----------------------------------------------------------------------------
(* The application. *)
Waiting == {"New", "InsertRequested", "ChangeRequested", "RemoveRequested"}

(* A synchronization that the engine refuses is not made up for.             *)
Missed(e) ==
  [e EXCEPT !.item = [b \in Bps |->
     [e.item[b] EXCEPT !.raced = @ \/ (phase \in {"starting", "shutdown"} /\ e.item[b].state \in Waiting)]]]

TimerEvent ==
  /\ h.timer
  /\ LET e == [h EXCEPT !.timer = FALSE] IN
     h' \in IF AcceptsBreakpoints THEN AttemptBreakpointSynchronization(e) ELSE {Missed(e)}
  /\ UNCHANGED <<phase, gdb, table, last, answers, stale, edits, sessions>>

DeletionHelper(b) ==
  /\ h.item[b].deleting
  /\ h' = [h EXCEPT !.item[b] =
             [@ EXCEPT !.state = "None", !.params = Absent.params, !.engine = FALSE,
                       !.id = 0, !.resp = NoResponse, !.deleting = FALSE, !.astray = FALSE]]
  /\ UNCHANGED <<phase, gdb, table, last, answers, stale, edits, sessions>>

ReadAnswer ==
  /\ answers # <<>>
  /\ h' \in HandleResultRecord(h, Head(answers))
  /\ answers' = Tail(answers)
  /\ UNCHANGED <<phase, gdb, table, last, stale, edits, sessions>>

-----------------------------------------------------------------------------
(* The user. *)
InFlight(b) == \E c \in ToSet(h.wire) \cup ToSet(answers) : c.b = b

(* Between the command and its answer the code keeps track of a change or a   *)
(* removal only while the breakpoint has no number yet, and then not of the   *)
(* count.                                                                     *)
Touch(b) ==
  LET x == h.item[b] IN
  [x EXCEPT !.raced = @ \/ (InFlight(b) /\ x.id # 0) \/ x.removed \/ phase \in {"starting", "shutdown"},
            !.hurried = @ \/ x.state \notin {"New", "Inserted"}]

Edit(b) == edits < MaxEdits /\ There(h.item[b]) /\ ~h.item[b].deleting /\ edits' = edits + 1

Put(b, x) == [h EXCEPT !.item[b] = x]

AppendBreakpoint(b, p) ==
  /\ ~There(h.item[b]) /\ ~h.item[b].removed
  /\ h' = ScheduleSynchronization(Put(b, [h.item[b] EXCEPT !.state = "New", !.params = p]))
  /\ UNCHANGED <<phase, gdb, table, last, answers, stale, edits, sessions>>

SetEnabled(b) ==
  /\ Edit(b)
  /\ LET x == [Touch(b) EXCEPT !.params.enabled = ~@] IN
     h' = IF x.engine
          THEN ScheduleSynchronization(Put(b, [x EXCEPT !.state = "ChangeRequested"])) ELSE Put(b, x)
  /\ UNCHANGED <<phase, gdb, table, last, answers, stale, sessions>>

ChangeBreakpointData(b, p) ==
  /\ Edit(b) /\ p # h.item[b].params
  /\ LET x == [Touch(b) EXCEPT !.params = p,
                  !.raced = @ \/ (InFlight(b) /\ p.count # h.item[b].params.count),
                  !.astray = @ \/ (h.item[b].id # 0 /\ h.item[b].resp.pending
                                     /\ p.line # h.item[b].params.line)] IN
     h' = IF NeedsChange(x) /\ x.engine /\ x.state # "New"
          THEN ScheduleSynchronization(Put(b, SetState(x, "ChangeRequested"))) ELSE Put(b, x)
  /\ UNCHANGED <<phase, gdb, table, last, answers, stale, sessions>>

RemoveItem(b) ==
  /\ Edit(b)
  /\ LET x == [Touch(b) EXCEPT !.removed = TRUE] IN
     h' = CASE x.state = "RemoveRequested" -> Put(b, x)
            [] x.state \in {"Inserted", "InsertProceeding"} ->
                 ScheduleSynchronization(Put(b, SetState(x, "RemoveRequested")))
            [] x.state = "New" -> Put(b, DeleteThis(x))
            [] OTHER -> Put(b, [x EXCEPT !.state = "RemoveRequested"])
  /\ UNCHANGED <<phase, gdb, table, last, answers, stale, sessions>>

-----------------------------------------------------------------------------
(* The debugger. *)
StartSession ==
  /\ phase = "idle" /\ sessions < MaxSessions /\ answers = <<>>
  /\ phase' = "setup" /\ gdb' = TRUE /\ last' = 0 /\ sessions' = sessions + 1
  /\ stale' = \E b \in Bps : h.item[b].engine
  /\ UNCHANGED <<h, table, answers, edits>>

(* handleInferiorPrepared, and its callback when every command is answered.  *)
Prepare ==
  /\ phase = "setup" /\ gdb
  /\ phase' = "prepared" /\ h' \in AttemptBreakpointSynchronization(h)
  /\ UNCHANGED <<gdb, table, last, answers, stale, edits, sessions>>

FinishSetup ==
  /\ phase = "prepared" /\ h.wire = <<>> /\ answers = <<>>
  /\ phase' = "starting"
  /\ UNCHANGED <<h, gdb, table, last, answers, stale, edits, sessions>>

Launch ==
  /\ phase = "starting" /\ gdb
  /\ phase' = "live"
  /\ UNCHANGED <<h, gdb, table, last, answers, stale, edits, sessions>>

Shutdown ==
  /\ phase \notin {"idle", "shutdown"}
  /\ phase' = "shutdown"
  /\ UNCHANGED <<h, gdb, table, last, answers, stale, edits, sessions>>

(* DebuggerFinished: the engine gives up the breakpoints it owns.  An answer *)
(* that is still to come finds an item that is new again.                    *)
Release(e) ==
  [e EXCEPT !.wire = <<>>, !.item = [b \in Bps |->
     IF There(e.item[b]) /\ e.item[b].engine
     THEN [NotifyBreakpointReleased(e.item[b]) EXCEPT
             !.raced = @ \/ e.item[b].removed, !.refused = FALSE, !.astray = FALSE]
     ELSE e.item[b]]]

EndSession ==
  /\ phase = "shutdown" /\ h.wire = <<>> /\ answers = <<>>
  /\ phase' = "idle" /\ gdb' = FALSE /\ table' = {}
  /\ h' = Release(h)
  /\ UNCHANGED <<last, answers, stale, edits, sessions>>

GdbDies ==
  /\ gdb /\ gdb' = FALSE /\ table' = {}
  /\ h' = [h EXCEPT !.wire = <<>>]
  /\ UNCHANGED <<phase, last, answers, stale, edits, sessions>>

(* The watchdog's message box: gdb is killed and the engine finished at once, *)
(* with answers unread.                                                       *)
CommandTimeout ==
  /\ phase # "idle" /\ (h.wire # <<>> \/ answers # <<>>)
  /\ phase' = "idle" /\ gdb' = FALSE /\ table' = {}
  /\ LET e == Release(h) IN
     h' = [e EXCEPT !.item = [b \in Bps |->
             [e.item[b] EXCEPT !.raced = @ \/ \E i \in DOMAIN answers : answers[i].b = b]]]
  /\ UNCHANGED <<last, answers, stale, edits, sessions>>

-----------------------------------------------------------------------------
(* External: gdb reads a command.  It may refuse to insert a breakpoint, keep *)
(* it pending or choose another line that has code, and the plain command    *)
(* knows nothing but the line.                                               *)
Placed(p) ==
  {[params |-> p, pending |-> FALSE]} \cup
    IF last < MaxPlaced
    THEN {[params |-> p, pending |-> TRUE]} \cup
           {[params |-> [p EXCEPT !.line = line], pending |-> FALSE] : line \in Lines}
    ELSE {}

Inserts(c, p) ==
  \/ \E q \in Placed(p) :
       /\ last' = last + 1
       /\ table' = table \cup {[id |-> last', b |-> c.b, params |-> q.params, pending |-> q.pending]}
       /\ answers' = Append(answers, [op |-> c.op, b |-> c.b, id |-> last', params |-> q.params,
                                      pending |-> q.pending, ok |-> TRUE])
       /\ h' = [h EXCEPT !.wire = Tail(@)]
  \/ /\ answers' = Append(answers, [op |-> c.op, b |-> c.b, id |-> 0, params |-> p,
                                    pending |-> FALSE, ok |-> FALSE])
     /\ h' = [h EXCEPT !.wire = Tail(@), !.item[c.b].refused = TRUE]
     /\ UNCHANGED <<table, last>>

(* What a command makes of the breakpoint with its number. *)
Changed(c, t) ==
  CASE c.op = "count" -> [t EXCEPT !.params.count = c.params.count]
    [] c.op \in {"enable", "disable"} -> [t EXCEPT !.params.enabled = (c.op = "enable")]

GdbReads ==
  /\ gdb /\ h.wire # <<>>
  /\ LET c == Head(h.wire)
         named == {t \in table : t.id = c.id} IN
     \/ c.op = "insert" /\ Inserts(c, c.params)
     \/ c.op = "break" /\ Inserts(c, [c.params EXCEPT !.count = 0, !.enabled = TRUE])
     \/ /\ c.op \notin {"insert", "break"}
        /\ table' = (table \ named) \cup
                      (IF c.op \in {"count", "enable", "disable"}
                       THEN {Changed(c, t) : t \in named} ELSE {})
        /\ answers' = Append(answers, [op |-> c.op, b |-> c.b, id |-> c.id, params |-> c.params,
                                       pending |-> FALSE, ok |-> c.op \notin {"nowhere", "other"}])
        /\ h' = [h EXCEPT !.wire = Tail(@)]
        /\ UNCHANGED last
  /\ UNCHANGED <<phase, gdb, stale, edits, sessions>>

(* The code at the line of a pending breakpoint is loaded, and gdb says where *)
(* the breakpoint is now.  That is read at once: it comes after the answer   *)
(* that gave the number, and no later answer depends on it.                  *)
GdbResolves(t, line) ==
  LET u == [t EXCEPT !.params.line = line, !.pending = FALSE]
      x == h.item[t.b] IN
  /\ gdb /\ t.pending
  /\ \A a \in ToSet(answers) : a.b = t.b => a.op \notin {"insert", "break"}
  /\ table' = (table \ {t}) \cup {u}
  /\ h' = IF There(x) /\ x.id = t.id
          THEN [h EXCEPT !.item[t.b] = [x EXCEPT !.resp = UpdateResponse(@, u),
                                                 !.astray = @ \/ line # x.params.line]]
          ELSE h
  /\ UNCHANGED <<phase, gdb, last, answers, stale, edits, sessions>>

UserEdits ==
  \E b \in Bps :
    \/ SetEnabled(b) \/ RemoveItem(b)
    \/ \E p \in Inputs : AppendBreakpoint(b, p) \/ ChangeBreakpointData(b, p)

Next ==
  \/ TimerEvent \/ ReadAnswer \/ \E b \in Bps : DeletionHelper(b)
  \/ UserEdits
  \/ StartSession \/ Prepare \/ FinishSetup \/ Launch \/ Shutdown \/ EndSession
  \/ CommandTimeout \/ GdbReads \/ GdbDies
  \/ \E t \in table, line \in Lines : GdbResolves(t, line)

Spec == Init /\ [][Next]_vars

(* The event loop runs what is due, and gdb reads and answers what it is sent.*)
FairSpec ==
  /\ Spec
  /\ WF_vars(TimerEvent) /\ WF_vars(ReadAnswer) /\ WF_vars(GdbReads)
  /\ \A b \in Bps : WF_vars(DeletionHelper(b))

-----------------------------------------------------------------------------
Response == [line : Lines \cup {0}, count : Counts, enabled : BOOLEAN, pending : BOOLEAN]
Item ==
  [ state : BreakpointState, params : Params, engine : BOOLEAN, id : Nat,
    resp : Response, deleting : BOOLEAN, removed : BOOLEAN, hurried : BOOLEAN,
    raced : BOOLEAN, refused : BOOLEAN, astray : BOOLEAN, odd : BOOLEAN ]
Command == [op : Op, b : Bps, id : Nat, params : Params]

(* What each variable holds. *)
TypeOK ==
  /\ h.item \in [Bps -> Item] /\ h.wire \in Seq(Command)
  /\ h.timer \in BOOLEAN
  /\ phase \in Phase /\ gdb \in BOOLEAN /\ last \in Nat
  /\ table \subseteq [id : Nat, b : Bps, params : Params, pending : BOOLEAN]
  /\ answers \in Seq([op : Op, b : Bps, id : Nat, params : Params, pending : BOOLEAN, ok : BOOLEAN])
  /\ stale \in BOOLEAN /\ edits \in 0..MaxEdits /\ sessions \in 0..MaxSessions

Excused(b) == h.item[b].raced \/ h.item[b].refused \/ h.item[b].astray
InGdb(b) == {t \in table : t.b = b}

(* gdb knows what the user sees.                                             *)
Agreed(b) ==
  IF There(h.item[b]) /\ ~h.item[b].removed
  THEN /\ h.item[b].state = "Inserted"
       /\ InGdb(b) = {[id |-> h.item[b].id, b |-> b, params |-> h.item[b].params,
                       pending |-> h.item[b].resp.pending]}
  ELSE ~There(h.item[b]) /\ InGdb(b) = {}

Quiet == h.wire = <<>> /\ answers = <<>> /\ ~h.timer /\ \A b \in Bps : ~h.item[b].deleting

(* When the program runs or is stopped, every command is answered and no      *)
(* synchronization is due, gdb has exactly the breakpoints the user sees, as  *)
(* the user sees them, and none that was removed: attemptBreakpoint-          *)
(* Synchronization and the callbacks have brought every edit to gdb.  Nothing *)
(* is promised in a session that began with a breakpoint of a gdb that is     *)
(* gone: its number is by now that of another one.                            *)
SettledAgrees ==
  phase = "live" /\ gdb /\ Quiet /\ ~stale
    => \A b \in Bps : Agreed(b) \/ Excused(b)

(* gdb never has, or is about to have, a breakpoint twice: a synchronization  *)
(* that runs while an insertion is under way does not ask for another one.    *)
InsertedOnce ==
  \A b \in Bps : ~h.item[b].raced =>
    Cardinality(InGdb(b)) + Cardinality({i \in DOMAIN h.wire :
                              h.wire[i].op \in {"insert", "break"} /\ h.wire[i].b = b}) <= 1

(* No transition that setState or an assertion of the notify functions would  *)
(* complain about, unless the user was faster than gdb.                       *)
NoUnexpectedTransition ==
  \A b \in Bps : h.item[b].odd => h.item[b].raced \/ h.item[b].hurried

(* What the user has asked for reaches gdb while the program is debugged: the *)
(* timer, the answers and the callbacks never leave an item half-way.         *)
EditsReachGdb ==
  \A b \in Bps : phase = "live" ~> Agreed(b) \/ Excused(b) \/ phase # "live" \/ ~gdb
=============================================================================
