------------------------- MODULE Marketplace_proofs -------------------------
(***************************************************************************)
(* For any number of personas, requests, rounds and results, any reward    *)
(* and any splits: a finished task brings growth and payment once, it is   *)
(* paid when it is completed, its outcome is undivided, the books of every *)
(* wallet agree, and none is overdrawn.                                    *)
(***************************************************************************)
EXTENDS Marketplace, Sums_proofs, SequenceTheorems

-----------------------------------------------------------------------------
(* Shares.                                                                  *)

\* A rounded share is not more than the reward.
LEMMA FloorBounds ==
  ASSUME NEW percent \in 0 .. 100
  PROVE  Floor(percent) \in 0 .. Reward
<1>1. Reward \in Nat /\ percent \in Nat /\ percent <= 100
  BY MarketplaceAssumption
<1>2. Reward * percent \in Nat
  BY <1>1
<1>3. Reward * percent <= Reward * 100
  BY <1>1
<1>4. (Reward * percent) \div 100 \in 0 .. Reward
  BY <1>1, <1>2, <1>3
<1> QED  BY <1>4 DEF Floor

\* Shares of a split are percentages.
LEMMA SplitTypes ==
  ASSUME NEW split \in Splits \cup {AcceptedSplit}
  PROVE  split.owner \in 0 .. 100 /\ split.persona \in 0 .. 100 /\ split.platform \in 0 .. 100
  BY MarketplaceAssumption DEF AcceptedSplit

\* The three journal entries of a settlement sum up to the owner's share.
LEMMA NetIsOwnerShare ==
  ASSUME NEW split \in Splits \cup {AcceptedSplit}
  PROVE  /\ OwnerShare(split) \in 0 .. Reward
         /\ Reward - PlatformShare(split) - PersonaShare(split) = OwnerShare(split)
<1>1. Floor(split.owner) \in 0 .. Reward /\ Floor(split.persona) \in 0 .. Reward
  BY SplitTypes, FloorBounds
<1>2. Reward \in Nat
  BY MarketplaceAssumption
<1> QED
  BY <1>1, <1>2 DEF OwnerShare, PersonaShare, PlatformShare

-----------------------------------------------------------------------------
(* Rows of task_assignments.                                                *)

\* What an update of one row leaves of the table.
OnlyRow(a, new) ==
    /\ new \in Seq(Assignment) /\ Len(new) = Latest
    /\ \A b \in 1 .. Latest : new[b].persona = assignments[b].persona
    /\ \A b \in 1 .. Latest \ {a} : new[b] = assignments[b]

\* An assignment and its results have their types.
LEMMA RowTypes ==
  ASSUME assignments \in Seq(Assignment), NEW a \in 1 .. Latest
  PROVE  /\ assignments[a] \in Assignment
         /\ assignments[a].results \in Seq(ResultStatus)
         /\ LatestResult(a) \in Nat /\ Latest \in Nat
<1>1. assignments[a] \in Assignment
  BY ElementOfSeq DEF Latest
<1>2. assignments[a].results \in Seq(ResultStatus)
  BY <1>1 DEF Assignment
<1>3. Len(assignments[a].results) \in Nat
  BY <1>2, LenProperties
<1>4. Len(assignments) \in Nat
  BY LenProperties
<1> QED  BY <1>1, <1>2, <1>3, <1>4 DEF Latest, LatestResult

\* Writing one assignment leaves the others alone.
LEMMA RowReplaced ==
  ASSUME assignments \in Seq(Assignment), NEW a \in 1 .. Latest,
         NEW e \in Assignment, e.persona = assignments[a].persona
  PROVE  OnlyRow(a, [assignments EXCEPT ![a] = e]) /\ [assignments EXCEPT ![a] = e][a] = e
<1>1. Len([assignments EXCEPT ![a] = e]) = Latest /\ [assignments EXCEPT ![a] = e] \in Seq(Assignment)
  BY ExceptSeq DEF Latest
<1> QED
  BY ExceptSeq DEF Latest, OnlyRow

Rewritten(a, s, results) == [assignments EXCEPT ![a].status = s, ![a].results = results]

\* ... also when status and results are rewritten together.
LEMMA StatusReplaced ==
  ASSUME assignments \in Seq(Assignment), NEW a \in 1 .. Latest,
         NEW s \in AssignmentStatus, NEW results \in Seq(ResultStatus)
  PROVE  /\ OnlyRow(a, Rewritten(a, s, results))
         /\ Rewritten(a, s, results)[a].status = s
         /\ Rewritten(a, s, results)[a].results = results
<1> DEFINE e == [assignments[a] EXCEPT !.status = s, !.results = results]
<1>1. assignments[a] \in Assignment
  BY RowTypes
<1>2. /\ e \in Assignment /\ e.persona = assignments[a].persona
      /\ e.status = s /\ e.results = results
  BY <1>1 DEF Assignment
<1>3. Rewritten(a, s, results) = [assignments EXCEPT ![a] = e]
  BY ElementOfSeq, LenProperties DEF Latest, Rewritten
<1> HIDE DEF e
<1>4. OnlyRow(a, [assignments EXCEPT ![a] = e]) /\ [assignments EXCEPT ![a] = e][a] = e
  BY <1>2, RowReplaced
<1> QED  BY <1>2, <1>3, <1>4

\* Acceptance and rejection of a result.
LEMMA AnswerRow ==
  ASSUME assignments \in Seq(Assignment), NEW r \in Requests, NEW verdict \in {"accepted", "rejected"},
         request[r].on \in 1 .. Latest, request[r].result \in 1 .. LatestResult(request[r].on)
  PROVE  LET a == request[r].on
             i == request[r].result
             new == Answer(r, verdict)
         IN /\ OnlyRow(a, new)
            /\ new[a].status = IF StatusOf(a) = "submitted" THEN verdict ELSE StatusOf(a)
            /\ new[a].results \in Seq(ResultStatus) /\ Len(new[a].results) = LatestResult(a)
            /\ \A j \in 1 .. LatestResult(a) :
                  new[a].results[j] = IF j = i THEN verdict ELSE assignments[a].results[j]
<1> DEFINE a == request[r].on
           i == request[r].result
           s == IF StatusOf(a) = "submitted" THEN verdict ELSE StatusOf(a)
           results == [assignments[a].results EXCEPT ![i] = verdict]
<1>1. assignments[a] \in Assignment /\ assignments[a].results \in Seq(ResultStatus)
  BY RowTypes
<1>2. verdict \in ResultStatus /\ s \in AssignmentStatus
  BY <1>1 DEF ResultStatus, AssignmentStatus, Assignment, StatusOf
<1>3. /\ results \in Seq(ResultStatus) /\ Len(results) = LatestResult(a)
      /\ \A j \in 1 .. LatestResult(a) : results[j] = IF j = i THEN verdict ELSE assignments[a].results[j]
  BY <1>1, <1>2, ExceptSeq DEF LatestResult
<1>4. Answer(r, verdict) = Rewritten(a, s, results)
  BY <1>1 DEF Answer, Rewritten, StatusOf, Assignment
<1> HIDE DEF a, i, s, results
<1>5. a \in 1 .. Latest
  BY DEF a
<1>6. OnlyRow(a, Answer(r, verdict)) /\ Answer(r, verdict)[a].status = s /\ Answer(r, verdict)[a].results = results
  BY <1>2, <1>3, <1>4, <1>5, StatusReplaced
<1> QED  BY <1>3, <1>6 DEF a, i, s

-----------------------------------------------------------------------------
(* Types.  A request that is on its way to write refers to rows that exist, *)
(* and to a reward if it is about one.                                      *)

PointsInto(q, rows) ==
    /\ q.step \in {"submit", "accept", "settle", "pay", "reject", "dispute", "route", "complete"} =>
          q.on \in 1 .. Len(rows)
    /\ q.step \in {"accept", "settle", "pay", "route"} => Reward > 0
    /\ q.step \in {"accept", "reject"} => q.result \in 1 .. Len(rows[q.on].results)
    /\ q.step = "dispute" => q.result \in 0 .. Len(rows[q.on].results)
    /\ q.step \in {"apply", "assign", "take", "payout", "anchor", "complete"} => q.who \in Personas

\* What a request has read refers to rows that exist.
Pointers == \A r \in Requests : PointsInto(request[r], assignments)

OpenIsUnassigned == task.status = "open" <=> task.assignee = NoOne

Types == TypeOK /\ Pointers /\ OpenIsUnassigned

\* The market starts with one open task and nothing read.
LEMMA TypesInit == Init => Types
<1> SUFFICES ASSUME Init PROVE Types
  OBVIOUS
<1>1. assignments \in Seq(Assignment) /\ Latest = 0
  BY EmptySeq DEF Init, Latest
<1>2. TypeOK
  BY <1>1, MarketplaceAssumption DEF Init, TypeOK, Idle, Steps, Slips
<1> QED
  BY <1>2, MarketplaceAssumption DEF Init, Types, Pointers, PointsInto, OpenIsUnassigned, Idle

\* Rows are added and results are added; nothing else is taken away.
Grows ==
    /\ assignments' \in Seq(Assignment)
    /\ Latest' \in Latest .. MaxAssignments
    /\ \A a \in 1 .. Latest :
          /\ assignments'[a].persona = assignments[a].persona
          /\ LatestResult(a) <= Len(assignments'[a].results)

\* Untouched assignments are as long as they were.
LEMMA UnchangedGrows == Types /\ assignments' = assignments => Grows
<1> SUFFICES ASSUME Types, assignments' = assignments PROVE Grows
  OBVIOUS
<1>1. \A a \in 1 .. Latest : LatestResult(a) \in Nat
  BY RowTypes DEF Types, TypeOK
<1>2. Len(assignments) \in Nat
  BY LenProperties DEF Types, TypeOK
<1> QED
  BY <1>1, <1>2, MarketplaceAssumption DEF Grows, Types, TypeOK, Latest, LatestResult

\* Results are appended and never deleted.
LEMMA OneRowGrows ==
  ASSUME Types, NEW a \in 1 .. Latest, OnlyRow(a, assignments'), LatestResult(a) <= Len(assignments'[a].results)
  PROVE  Grows
<1>1. \A b \in 1 .. Latest : LatestResult(b) \in Nat
  BY RowTypes DEF Types, TypeOK
<1>2. Latest \in Nat /\ Latest <= MaxAssignments /\ MaxAssignments \in Nat
  BY RowTypes, MarketplaceAssumption DEF Types, TypeOK
<1> QED
  BY <1>1, <1>2 DEF Grows, OnlyRow, Latest, LatestResult

\* A new assignment.
LEMMA TakeEffect ==
  ASSUME Types, NEW p \in Personas, NEW applied \in BOOLEAN, Take(p, applied)
  PROVE  /\ Grows
         /\ Latest' = Latest + 1
         /\ \A a \in 1 .. Latest : assignments'[a] = assignments[a]
         /\ assignments'[Latest + 1].persona = p
         /\ assignments'[Latest + 1].status = "assigned"
         /\ assignments'[Latest + 1].results = <<>>
<1> DEFINE e == [persona |-> p, applied |-> applied, status |-> "assigned", results |-> <<>>]
<1>1. e \in Assignment
  BY EmptySeq DEF Assignment, AssignmentStatus
<1>2. assignments' = Append(assignments, e)
  BY DEF Take
<1> HIDE DEF e
<1>3. /\ assignments' \in Seq(Assignment) /\ Latest' = Latest + 1
      /\ \A a \in 1 .. Latest : assignments'[a] = assignments[a]
      /\ assignments'[Latest + 1] = e
  BY <1>1, <1>2, AppendProperties DEF Types, TypeOK, Latest
<1>4. \A a \in 1 .. Latest : LatestResult(a) \in Nat
  BY RowTypes DEF Types, TypeOK
<1>5. Latest \in Nat /\ MaxAssignments \in Nat /\ Latest < MaxAssignments
  BY LenProperties, MarketplaceAssumption DEF Take, Types, TypeOK, Latest
<1>6. Grows
  BY <1>3, <1>4, <1>5 DEF Grows, LatestResult
<1> QED  BY <1>3, <1>6 DEF e

\* A new result.
LEMMA SubmitEffect ==
  ASSUME Types, NEW r \in Requests, SubmitTaskResult(r)
  PROVE  LET a == request[r].on IN
         /\ a \in 1 .. Latest /\ Grows /\ OnlyRow(a, assignments')
         /\ assignments'[a].status = "submitted"
         /\ assignments'[a].results = Append(assignments[a].results, "submitted")
<1> DEFINE a == request[r].on
           results == Append(assignments[a].results, "submitted")
<1>1. a \in 1 .. Latest
  BY DEF SubmitTaskResult, At, Types, Pointers, PointsInto, Latest, LatestResult
<1>2. assignments[a] \in Assignment /\ assignments[a].results \in Seq(ResultStatus) /\ LatestResult(a) \in Nat
  BY <1>1, RowTypes DEF Types, TypeOK
<1>3. "submitted" \in ResultStatus /\ "submitted" \in AssignmentStatus
  BY DEF ResultStatus, AssignmentStatus
<1>4. results \in Seq(ResultStatus) /\ Len(results) = LatestResult(a) + 1
  BY <1>2, <1>3, AppendProperties DEF LatestResult
<1>5. assignments' = Rewritten(a, "submitted", results)
  BY <1>2 DEF SubmitTaskResult, Rewritten, Assignment
<1> HIDE DEF a, results
<1>6. OnlyRow(a, assignments') /\ assignments'[a].status = "submitted" /\ assignments'[a].results = results
  BY <1>1, <1>3, <1>4, <1>5, StatusReplaced DEF Types, TypeOK
<1>7. Grows
  BY <1>1, <1>2, <1>4, <1>6, OneRowGrows
<1> QED  BY <1>1, <1>6, <1>7 DEF a, results

\* A verdict on a result.
LEMMA AnswerEffect ==
  ASSUME Types, NEW r \in Requests, NEW verdict \in {"accepted", "rejected"},
         request[r].step \in {"accept", "reject"}, assignments' = Answer(r, verdict)
  PROVE  LET a == request[r].on
             i == request[r].result
         IN /\ a \in 1 .. Latest /\ Grows /\ OnlyRow(a, assignments')
            /\ assignments'[a].status = IF StatusOf(a) = "submitted" THEN verdict ELSE StatusOf(a)
            /\ Len(assignments'[a].results) = LatestResult(a)
            /\ \A j \in 1 .. LatestResult(a) :
                  assignments'[a].results[j] = IF j = i THEN verdict ELSE assignments[a].results[j]
<1> DEFINE a == request[r].on
<1>1. a \in 1 .. Latest /\ request[r].result \in 1 .. LatestResult(a)
  BY DEF Types, Pointers, PointsInto, Latest, LatestResult
<1>2. assignments \in Seq(Assignment) /\ LatestResult(a) \in Nat
  BY <1>1, RowTypes DEF Types, TypeOK
<1>3. /\ OnlyRow(a, assignments')
      /\ assignments'[a].status = IF StatusOf(a) = "submitted" THEN verdict ELSE StatusOf(a)
      /\ Len(assignments'[a].results) = LatestResult(a)
      /\ \A j \in 1 .. LatestResult(a) :
            assignments'[a].results[j] = IF j = request[r].result THEN verdict ELSE assignments[a].results[j]
  BY <1>1, <1>2, AnswerRow
<1> HIDE DEF a
<1>4. Grows
  BY <1>1, <1>2, <1>3, OneRowGrows
<1> QED  BY <1>1, <1>3, <1>4 DEF a

\* A dispute.
LEMMA DisputeEffect ==
  ASSUME Types, NEW r \in Requests, DisputeTask(r)
  PROVE  LET a == request[r].on
             i == request[r].result
         IN /\ a \in 1 .. Latest /\ Grows /\ OnlyRow(a, assignments')
            /\ assignments'[a].status = "disputed"
            /\ Len(assignments'[a].results) = LatestResult(a)
            /\ \A j \in 1 .. LatestResult(a) :
                  assignments'[a].results[j] = IF j = i THEN "disputed" ELSE assignments[a].results[j]
<1> DEFINE a == request[r].on
           i == request[r].result
           results == IF i > 0 THEN [assignments[a].results EXCEPT ![i] = "disputed"] ELSE assignments[a].results
<1>1. a \in 1 .. Latest /\ i \in 0 .. LatestResult(a)
  BY DEF DisputeTask, At, Types, Pointers, PointsInto, Latest, LatestResult
<1>2. assignments[a] \in Assignment /\ assignments[a].results \in Seq(ResultStatus) /\ LatestResult(a) \in Nat
  BY <1>1, RowTypes DEF Types, TypeOK
<1>3. "disputed" \in ResultStatus /\ "disputed" \in AssignmentStatus
  BY DEF ResultStatus, AssignmentStatus
<1>4. /\ results \in Seq(ResultStatus) /\ Len(results) = LatestResult(a)
      /\ \A j \in 1 .. LatestResult(a) : results[j] = IF j = i THEN "disputed" ELSE assignments[a].results[j]
  <2>1. CASE i > 0
    <3>1. i \in 1 .. Len(assignments[a].results)
      BY <1>1, <1>2, <2>1 DEF LatestResult
    <3> HIDE DEF i
    <3> QED  BY <2>1, <3>1, <1>2, <1>3, ExceptSeq DEF LatestResult
  <2>2. CASE i = 0
    BY <1>2, <2>2 DEF LatestResult
  <2> QED  BY <1>1, <1>2, <2>1, <2>2
<1>5. assignments' = Rewritten(a, "disputed", results)
  BY <1>2 DEF DisputeTask, Rewritten, Assignment
<1> HIDE DEF a, results
<1>6. OnlyRow(a, assignments') /\ assignments'[a].status = "disputed" /\ assignments'[a].results = results
  BY <1>1, <1>3, <1>4, <1>5, StatusReplaced DEF Types, TypeOK
<1>7. Grows
  BY <1>1, <1>2, <1>4, <1>6, OneRowGrows
<1> QED  BY <1>1, <1>4, <1>6, <1>7 DEF a

-----------------------------------------------------------------------------
(* The steps keep the types.                                                *)

Request(latest) == [step: Steps, who: Personas \cup {NoOne}, on: 0 .. latest, result: Nat]

RequestsFit == request' \in [Requests -> Request(Latest')] /\ Pointers'

\* What grows does not invalidate what a request refers to.
LEMMA StillFits ==
  ASSUME Types, Grows, NEW p \in Requests
  PROVE  request[p] \in Request(Latest') /\ PointsInto(request[p], assignments')
<1>1. Latest \in Nat /\ Latest' \in Nat /\ Latest <= Latest'
  BY RowTypes, MarketplaceAssumption, LenProperties DEF Grows, Types, TypeOK, Latest
<1>2. request[p] \in Request(Latest) /\ PointsInto(request[p], assignments)
  BY DEF Types, TypeOK, Pointers, Request
<1>3. request[p] \in Request(Latest')
  BY <1>1, <1>2 DEF Request
<1>4. ASSUME request[p].on \in 1 .. Latest
      PROVE  /\ Len(assignments[request[p].on].results) \in Nat
             /\ Len(assignments'[request[p].on].results) \in Nat
             /\ Len(assignments[request[p].on].results) <= Len(assignments'[request[p].on].results)
  <2>1. request[p].on \in 1 .. Len(assignments')
    BY <1>4, <1>1 DEF Latest
  <2>2. assignments'[request[p].on] \in Assignment
    BY <2>1, ElementOfSeq DEF Grows
  <2>3. Len(assignments'[request[p].on].results) \in Nat
    BY <2>2, LenProperties DEF Assignment
  <2> QED  BY <1>4, <2>3, RowTypes DEF Grows, LatestResult, Types, TypeOK
<1>5. PointsInto(request[p], assignments')
  BY <1>1, <1>2, <1>3, <1>4 DEF PointsInto, Request, Latest
<1> QED  BY <1>3, <1>5

\* A request that reads gets pointers to rows that exist.
LEMMA OneRequestFits ==
  ASSUME Types, Grows, NEW r \in Requests, NEW q,
         request' = [request EXCEPT ![r] = q],
         q \in Request(Latest'), PointsInto(q, assignments')
  PROVE  RequestsFit
  BY StillFits DEF RequestsFit, Pointers, Types, TypeOK

\* Pointers stay valid because rows are never deleted.
LEMMA UnchangedFits ==
  ASSUME Types, Grows, UNCHANGED request
  PROVE  RequestsFit
  BY StillFits DEF RequestsFit, Pointers, Types, TypeOK

\* A request that is answered forgets what it read.
LEMMA ReturnFits ==
  ASSUME Types, Grows, NEW r \in Requests, Return(r)
  PROVE  RequestsFit
<1>1. Latest \in Nat /\ Latest' \in Nat
  BY RowTypes, MarketplaceAssumption, LenProperties DEF Grows, Types, TypeOK, Latest
<1>2. Idle \in Request(Latest') /\ PointsInto(Idle, assignments')
  BY <1>1 DEF Idle, Request, Steps, PointsInto
<1> QED  BY <1>2, OneRequestFits DEF Return

\* A request that begins has read rows which exist, and nothing else happens.
LEMMA BeginFits ==
  ASSUME Types, NEW r \in Requests, UNCHANGED assignments,
         NEW step \in Steps, NEW who \in Personas \cup {NoOne}, NEW on \in 0 .. Latest, NEW result \in Nat,
         Begin(r, step, who, on, result),
         PointsInto([step |-> step, who |-> who, on |-> on, result |-> result], assignments)
  PROVE  Grows /\ RequestsFit
<1>1. Grows /\ Latest' = Latest
  BY UnchangedGrows DEF Latest
<1>2. [step |-> step, who |-> who, on |-> on, result |-> result] \in Request(Latest')
  BY <1>1 DEF Request
<1> QED  BY <1>1, <1>2, OneRequestFits DEF Begin

-----------------------------------------------------------------------------
\* Reads change nothing but the request.
LEMMA ReadsFit ==
  ASSUME Types, NEW r \in Requests, Reads(r)
  PROVE  Grows /\ RequestsFit /\ UNCHANGED <<board, money, crashes, growth, slips>>
<1>1. Latest \in Nat
  BY RowTypes, LenProperties DEF Types, TypeOK, Latest
<1>2. ASSUME NEW p \in Personas, ReadToApply(r, p) \/ ReadToAssign(r, p) \/ ReadToTake(r, p) \/ ReadToPayOut(r, p)
      PROVE  Grows /\ RequestsFit /\ UNCHANGED <<board, money, crashes, growth, slips>>
  <2>1. /\ UNCHANGED <<board, money, crashes, growth, slips>>
        /\ \E step \in {"apply", "assign", "take", "payout"} : Begin(r, step, p, 0, 0)
    BY <1>2 DEF ReadToApply, ReadToAssign, ReadToTake, ReadToPayOut
  <2>2. PICK step \in {"apply", "assign", "take", "payout"} : Begin(r, step, p, 0, 0)
    BY <2>1
  <2>3. PointsInto([step |-> step, who |-> p, on |-> 0, result |-> 0], assignments) /\ step \in Steps
    BY <2>2 DEF PointsInto, Steps
  <2> QED  BY <1>1, <2>1, <2>2, <2>3, BeginFits DEF board
<1>3. ASSUME NEW a \in 1 .. Latest, ReadToSubmit(r, a) \/ ReadToSettle(r, a)
      PROVE  Grows /\ RequestsFit /\ UNCHANGED <<board, money, crashes, growth, slips>>
  <2>1. PICK step \in {"submit", "route"} : Begin(r, step, NoOne, a, 0) /\ (step = "route" => Reward > 0)
    BY <1>3 DEF ReadToSubmit, ReadToSettle, Settleable
  <2>2. PointsInto([step |-> step, who |-> NoOne, on |-> a, result |-> 0], assignments) /\ step \in Steps
    BY <2>1 DEF PointsInto, Steps, Latest
  <2>3. UNCHANGED <<board, money, crashes, growth, slips>> /\ a \in 0 .. Latest
    BY <1>1, <1>3 DEF ReadToSubmit, ReadToSettle
  <2> QED  BY <2>1, <2>2, <2>3, BeginFits DEF board
<1>4. ASSUME ReadToAccept(r) \/ ReadToReject(r)
      PROVE  Grows /\ RequestsFit /\ UNCHANGED <<board, money, crashes, growth, slips>>
  <2>1. PICK step \in {"accept", "reject"} :
          Begin(r, step, NoOne, Latest, LatestResult(Latest)) /\ (step = "accept" => Reward > 0)
    BY <1>4 DEF ReadToAccept, ReadToReject
  <2>2. Latest > 0 /\ LatestResult(Latest) > 0
    BY <1>4 DEF ReadToAccept, ReadToReject, AwaitsAnswer
  <2>3. LatestResult(Latest) \in Nat /\ Latest \in 1 .. Latest
    BY <1>1, <2>2, RowTypes DEF Types, TypeOK
  <2>4. PointsInto([step |-> step, who |-> NoOne, on |-> Latest, result |-> LatestResult(Latest)], assignments)
    BY <2>1, <2>2, <2>3 DEF PointsInto, Latest, LatestResult
  <2>5. UNCHANGED <<board, money, crashes, growth, slips>> /\ step \in Steps
    BY <1>4, <2>1 DEF ReadToAccept, ReadToReject, Steps
  <2> QED  BY <1>1, <2>1, <2>3, <2>4, <2>5, BeginFits DEF board
<1>5. ASSUME ReadToDispute(r)
      PROVE  Grows /\ RequestsFit /\ UNCHANGED <<board, money, crashes, growth, slips>>
  <2>1. Begin(r, "dispute", NoOne, Latest, LatestResult(Latest)) /\ Latest > 0
    BY <1>5 DEF ReadToDispute
  <2>2. LatestResult(Latest) \in Nat /\ Latest \in 1 .. Latest
    BY <1>1, <2>1, RowTypes DEF Types, TypeOK
  <2>3. PointsInto([step |-> "dispute", who |-> NoOne, on |-> Latest, result |-> LatestResult(Latest)], assignments)
    BY <2>1, <2>2 DEF PointsInto, Latest, LatestResult
  <2>4. UNCHANGED <<board, money, crashes, growth, slips>> /\ "dispute" \in Steps
    BY <1>5 DEF ReadToDispute, Steps
  <2> QED  BY <1>1, <2>1, <2>2, <2>3, <2>4, BeginFits DEF board
<1>6. ASSUME ReadToComplete(r)
      PROVE  Grows /\ RequestsFit /\ UNCHANGED <<board, money, crashes, growth, slips>>
  <2>1. task.assignee \in Personas
    BY <1>6 DEF ReadToComplete, Types, TypeOK, OpenIsUnassigned
  <2>2. Begin(r, "anchor", task.assignee, 0, 0) /\ UNCHANGED <<board, money, crashes, growth, slips>>
    BY <1>6 DEF ReadToComplete
  <2>3. /\ PointsInto([step |-> "anchor", who |-> task.assignee, on |-> 0, result |-> 0], assignments)
        /\ "anchor" \in Steps
    BY <2>1 DEF PointsInto, Steps
  <2> QED  BY <1>1, <2>1, <2>2, <2>3, BeginFits DEF board
<1>7. ASSUME ReadAnchor(r)
      PROVE  Grows /\ RequestsFit /\ UNCHANGED <<board, money, crashes, growth, slips>>
  <2>1. UNCHANGED <<board, money, crashes, growth, slips>> /\ Grows /\ Latest' = Latest
    BY <1>7, UnchangedGrows DEF ReadAnchor, board, Latest
  <2>2. CASE Return(r)
    BY <2>1, <2>2, ReturnFits
  <2>3. CASE ~(Latest = 0 \/ Settled(Latest)) /\ request' = [request EXCEPT ![r].step = "complete", ![r].on = Latest]
    <3> DEFINE q == [request[r] EXCEPT !.step = "complete", !.on = Latest]
    <3>1. request[r] \in Request(Latest) /\ request[r].who \in Personas
      BY <1>7 DEF ReadAnchor, At, Types, TypeOK, Pointers, PointsInto, Request
    <3>2. request' = [request EXCEPT ![r] = q]
      BY <2>3 DEF Types, TypeOK
    <3>3. q \in Request(Latest)
      <4>1. Latest \in 0 .. Latest /\ "complete" \in Steps
        BY <1>1 DEF Steps
      <4> HIDE DEF Steps
      <4> QED  BY <3>1, <4>1 DEF Request
    <3>4. PointsInto(q, assignments')
      BY <3>1, <2>1, <2>3, <1>1 DEF PointsInto, Request, board, Latest
    <3> HIDE DEF q
    <3> QED  BY <2>1, <3>2, <3>3, <3>4, OneRequestFits
  <2> QED  BY <1>7, <2>1, <2>2, <2>3 DEF ReadAnchor
<1>8. ASSUME ReadToPay(r)
      PROVE  Grows /\ RequestsFit /\ UNCHANGED <<board, money, crashes, growth, slips>>
  <2>1. UNCHANGED <<board, money, crashes, growth, slips>> /\ Grows /\ Latest' = Latest
    BY <1>8, UnchangedGrows DEF ReadToPay, board, Latest
  <2>2. CASE Return(r)
    BY <2>1, <2>2, ReturnFits
  <2>3. CASE Go(r, "pay")
    <3> DEFINE q == [request[r] EXCEPT !.step = "pay"]
    <3>1. request[r] \in Request(Latest) /\ request[r].on \in 1 .. Len(assignments) /\ Reward > 0
      BY <1>8 DEF ReadToPay, At, Types, TypeOK, Pointers, PointsInto, Request
    <3>2. request' = [request EXCEPT ![r] = q]
      BY <2>3 DEF Go, Types, TypeOK
    <3>3. q \in Request(Latest)
      <4>1. "pay" \in Steps
        BY DEF Steps
      <4> HIDE DEF Steps
      <4> QED  BY <3>1, <4>1 DEF Request
    <3>4. PointsInto(q, assignments')
      BY <3>1, <2>1 DEF PointsInto, Request, board
    <3> HIDE DEF q
    <3> QED  BY <2>1, <3>2, <3>3, <3>4, OneRequestFits
  <2> QED  BY <1>8, <2>1, <2>2, <2>3 DEF ReadToPay
<1> QED
  BY <1>2, <1>3, <1>4, <1>5, <1>6, <1>7, <1>8 DEF Reads

-----------------------------------------------------------------------------
Settlement(latest) == [assignment: 1 .. latest, wallet: Personas, owner: 0 .. Reward]

MoneyFits ==
    /\ settlements' \subseteq Settlement(Latest')
    /\ balance' \in [Personas -> Int] /\ journal' \in [Personas -> Int]
    /\ payouts' \in [PayoutKeys -> Personas \cup {NoOne}]
    /\ payments' \in Nat

TaskFits ==
    /\ task' \in [status: {"open", "accepted", "completed"}, assignee: Personas \cup {NoOne}]
    /\ OpenIsUnassigned'

HistoryFits ==
    /\ growth' \in Nat /\ slips' \subseteq Slips /\ crashes' \in 0 .. MaxCrashes

ApplicationFits == application' \in [Personas -> {"none", "submitted", "assigned", "rejected"}]

\* Types are shown for each group of variables.
LEMMA TogetherFit ==
  ASSUME Grows, RequestsFit, MoneyFits, TaskFits, HistoryFits, ApplicationFits
  PROVE  Types'
<1>1. Latest' <= MaxAssignments
  BY RowTypes, MarketplaceAssumption, LenProperties DEF Grows, Latest
<1> QED
  BY <1>1 DEF Grows, RequestsFit, MoneyFits, TaskFits, HistoryFits, ApplicationFits,
     Types, TypeOK, Settlement, Request

\* Steps without a payment keep the types of wallets and journal.
LEMMA MoneyKept ==
  ASSUME Types, Grows, UNCHANGED money
  PROVE  MoneyFits
<1>1. Latest \in Nat /\ Latest' \in Nat /\ Latest <= Latest'
  BY MarketplaceAssumption, LenProperties DEF Grows, Types, TypeOK, Latest
<1>2. Settlement(Latest) \subseteq Settlement(Latest')
  BY <1>1 DEF Settlement
<1> QED
  BY <1>2 DEF Types, TypeOK, MoneyFits, Settlement, money

\* A settlement keeps the types of wallets and journal.
LEMMA PayFits ==
  ASSUME Types, UNCHANGED assignments,
         NEW a \in 1 .. Latest, NEW p \in Personas, NEW owner \in 0 .. Reward, Pay(a, p, owner, owner)
  PROVE  MoneyFits
<1>1. [assignment |-> a, wallet |-> p, owner |-> owner] \in Settlement(Latest)
  BY DEF Settlement
<1>2. settlements' \subseteq Settlement(Latest') /\ payouts' = payouts
  BY <1>1 DEF Pay, Types, TypeOK, Settlement, Latest
<1>3. owner \in Int
  BY MarketplaceAssumption
<1>4. balance' \in [Personas -> Int] /\ journal' \in [Personas -> Int] /\ payments' \in Nat
  BY <1>3 DEF Pay, Types, TypeOK
<1> QED
  BY <1>2, <1>4 DEF MoneyFits, Types, TypeOK

\* What a settlement does is a Pay of the owner's share in the book and the journal.
LEMMA SettlePays ==
  ASSUME Types, NEW a \in 1 .. Latest, NEW split \in Splits \cup {AcceptedSplit}, SettleTaskPayment(a, split)
  PROVE  /\ OwnerShare(split) \in 0 .. Reward /\ assignments[a].persona \in Personas
         /\ \/ ~Settled(a) /\ Pay(a, assignments[a].persona, OwnerShare(split), OwnerShare(split))
            \/ Settled(a) /\ UNCHANGED money
  BY NetIsOwnerShare, RowTypes DEF SettleTaskPayment, Types, TypeOK, Assignment

\* completeTask pays an existing assignment at most the reward.
LEMMA CompletePays ==
  ASSUME Types, NEW r \in Requests, NEW amount \in QualityPay, CompleteTask(r, amount)
  PROVE  /\ request[r].on \in 1 .. Latest /\ request[r].who \in Personas /\ amount \in 0 .. Reward
         /\ \/ ~Settled(request[r].on) /\ Pay(request[r].on, request[r].who, amount, amount)
            \/ amount = 0 /\ "rounded" \in slips' /\ UNCHANGED money
<1>1. request[r].on \in 1 .. Latest /\ request[r].who \in Personas
  BY DEF CompleteTask, At, Types, Pointers, PointsInto, Latest
<1>2. amount \in 0 .. Reward /\ Reward \in Nat
  BY MarketplaceAssumption
<1>3. CASE amount > 0
  BY <1>1, <1>2, <1>3 DEF CompleteTask, PaysWithAnchor, Anchors
<1>4. CASE amount = 0
  BY <1>1, <1>2, <1>4 DEF CompleteTask, PaysWithAnchor, Window
<1> QED
  BY <1>2, <1>3, <1>4

\* A payout request touches one wallet and one key, and no settlement.
LEMMA PayOutEffect ==
  ASSUME Types, NEW r \in Requests, NEW k \in PayoutKeys, RequestWalletPayout(r, k)
  PROVE  /\ UNCHANGED <<settlements, payments>> /\ payouts' \in [PayoutKeys -> Personas \cup {NoOne}]
         /\ \/ UNCHANGED <<balance, journal>>
            \/ \E p \in Personas :
                  /\ balance[p] >= PayoutAmount
                  /\ balance' = [balance EXCEPT ![p] = @ - PayoutAmount]
                  /\ journal' = [journal EXCEPT ![p] = @ - PayoutAmount]
<1>1. request[r].who \in Personas
  BY DEF RequestWalletPayout, At, Types, Pointers, PointsInto
<1> QED
  BY <1>1 DEF RequestWalletPayout, Debits, Types, TypeOK

-----------------------------------------------------------------------------
\* Every handler keeps types and pointers.
LEMMA TypesStep == Types /\ [Next]_vars => Types'
<1> SUFFICES ASSUME Types, [Next]_vars PROVE Types'
  OBVIOUS
<1>1. ASSUME NEW r \in Requests, Reads(r) PROVE Types'
  <2>1. Grows /\ RequestsFit /\ UNCHANGED <<board, money, crashes, growth, slips>>
    BY <1>1, ReadsFit
  <2>2. MoneyFits /\ TaskFits /\ HistoryFits /\ ApplicationFits
    BY <2>1, MoneyKept DEF board, TaskFits, HistoryFits, ApplicationFits, Types, TypeOK, OpenIsUnassigned
  <2> QED  BY <2>1, <2>2, TogetherFit
<1>2. ASSUME NEW r \in Requests,
             Apply(r) \/ AnswerTooLate(r) \/ (\E amount \in QualityPay : CompleteTooLate(r, amount)) \/ Crash(r)
      PROVE  Types'
  <2>1. UNCHANGED <<task, assignments, money, growth>> /\ Return(r)
    BY <1>2 DEF Apply, AnswerTooLate, CompleteTooLate, Crash, board
  <2>2. Grows /\ RequestsFit
    BY <2>1, UnchangedGrows, ReturnFits
  <2>3. MoneyFits /\ TaskFits
    BY <2>1, <2>2, MoneyKept DEF TaskFits, Types, TypeOK, OpenIsUnassigned
  <2>4. ApplicationFits
    BY <1>2 DEF Apply, AnswerTooLate, CompleteTooLate, Crash, board, ApplicationFits, Types, TypeOK
  <2>5. slips' \subseteq Slips
    BY <1>2 DEF Apply, AnswerTooLate, CompleteTooLate, Crash, Slip, Window, Slips, Types, TypeOK
  <2>6. crashes' \in 0 .. MaxCrashes
    BY <1>2, MarketplaceAssumption DEF Apply, AnswerTooLate, CompleteTooLate, Crash, Types, TypeOK
  <2>7. HistoryFits
    BY <2>1, <2>5, <2>6 DEF HistoryFits, Types, TypeOK
  <2> QED  BY <2>2, <2>3, <2>4, <2>7, TogetherFit
<1>3. ASSUME NEW r \in Requests, AssignTask(r) \/ AcceptTask(r) PROVE Types'
  <2>1. PICK applied \in BOOLEAN : Take(request[r].who, applied)
    BY <1>3 DEF AssignTask, AcceptTask
  <2>2. request[r].who \in Personas
    BY <1>3 DEF AssignTask, AcceptTask, At, Types, Pointers, PointsInto
  <2>3. Return(r) /\ UNCHANGED <<money, crashes, growth>>
    BY <1>3 DEF AssignTask, AcceptTask
  <2>4. Grows /\ RequestsFit
    BY <2>1, <2>2, <2>3, TakeEffect, ReturnFits
  <2>5. MoneyFits
    BY <2>3, <2>4, MoneyKept
  <2>6. TaskFits
    BY <2>1, <2>2, MarketplaceAssumption DEF Take, TaskFits, Types, TypeOK, OpenIsUnassigned
  <2>7. HistoryFits
    BY <2>1, <2>3 DEF Take, Slip, Window, Slips, HistoryFits, Types, TypeOK
  <2>8. ApplicationFits
    BY <1>3, <2>2 DEF AssignTask, AcceptTask, ApplicationFits, Types, TypeOK
  <2> QED  BY <2>4, <2>5, <2>6, <2>7, <2>8, TogetherFit
<1>4. ASSUME NEW r \in Requests, SubmitTaskResult(r) \/ DisputeTask(r) PROVE Types'
  <2>1. Grows
    BY <1>4, SubmitEffect, DisputeEffect
  <2>2. UNCHANGED <<task, application, money, crashes, growth, slips>> /\ Return(r)
    BY <1>4 DEF SubmitTaskResult, DisputeTask
  <2>3. RequestsFit /\ MoneyFits
    BY <2>1, <2>2, ReturnFits, MoneyKept
  <2>4. TaskFits /\ HistoryFits /\ ApplicationFits
    BY <2>2 DEF TaskFits, HistoryFits, ApplicationFits, Types, TypeOK, OpenIsUnassigned
  <2> QED  BY <2>1, <2>3, <2>4, TogetherFit
<1>5. ASSUME NEW r \in Requests, AcceptSubmittedTask(r) PROVE Types'
  <2>1. Grows
    BY <1>5, AnswerEffect DEF AcceptSubmittedTask, At
  <2>2. RequestsFit
    <3> DEFINE q == [step |-> "settle", who |-> request[r].who, on |-> request[r].on, result |-> request[r].result]
    <3>1. request[r] \in Request(Latest') /\ request[r].on \in 1 .. Len(assignments')
      BY <1>5, <2>1, StillFits DEF AcceptSubmittedTask, At, PointsInto
    <3>2. request' = [request EXCEPT ![r] = q]
      <4>1. request[r] \in [step: Steps, who: Personas \cup {NoOne}, on: 0 .. Latest, result: Nat]
        BY DEF Types, TypeOK
      <4>2. request' = [request EXCEPT ![r].step = "settle"]
        BY <1>5 DEF AcceptSubmittedTask, Go
      <4>3. [request[r] EXCEPT !.step = "settle"] = q
        BY <4>1
      <4> QED  BY <4>2, <4>3 DEF Types, TypeOK
    <3>3. q \in Request(Latest')
      BY <3>1 DEF Request, Steps
    <3>4. PointsInto(q, assignments')
      <4>1. Reward > 0
        BY <1>5 DEF AcceptSubmittedTask, At, Types, Pointers, PointsInto
      <4> QED  BY <3>1, <4>1 DEF PointsInto
    <3> HIDE DEF q
    <3> QED  BY <2>1, <3>2, <3>3, <3>4, OneRequestFits
  <2>3. MoneyFits
    BY <1>5, <2>1, MoneyKept DEF AcceptSubmittedTask, Complete, money
  <2>4. TaskFits
    BY <1>5 DEF AcceptSubmittedTask, ClaimsCompletion, Complete, TaskFits, Types, TypeOK, OpenIsUnassigned
  <2>5. HistoryFits /\ ApplicationFits
    BY <1>5 DEF AcceptSubmittedTask, Complete, Slip, Window, Slips, HistoryFits, ApplicationFits, Types, TypeOK
  <2> QED  BY <2>1, <2>2, <2>3, <2>4, <2>5, TogetherFit
<1>6. ASSUME NEW r \in Requests, RejectSubmittedTask(r) PROVE Types'
  <2>1. Grows
    BY <1>6, AnswerEffect DEF RejectSubmittedTask, At
  <2>2. RequestsFit /\ MoneyFits
    BY <1>6, <2>1, ReturnFits, MoneyKept DEF RejectSubmittedTask
  <2>3. TaskFits
    BY <1>6 DEF RejectSubmittedTask, TaskFits, Types, TypeOK, OpenIsUnassigned
  <2>4. HistoryFits /\ ApplicationFits
    BY <1>6 DEF RejectSubmittedTask, Window, Slips, HistoryFits, ApplicationFits, Types, TypeOK
  <2> QED  BY <2>1, <2>2, <2>3, <2>4, TogetherFit
<1>7. ASSUME NEW r \in Requests, SettleAccepted(r) \/ \E split \in Splits : SettleByRoute(r, split) PROVE Types'
  <2>1. UNCHANGED <<board, crashes, growth>> /\ Return(r)
    BY <1>7 DEF SettleAccepted, SettleByRoute
  <2>2. Grows /\ RequestsFit
    BY <2>1, UnchangedGrows, ReturnFits DEF board
  <2>3. request[r].on \in 1 .. Latest
    BY <1>7 DEF SettleAccepted, SettleByRoute, At, Types, Pointers, PointsInto, Latest
  <2>4. PICK split \in Splits \cup {AcceptedSplit} : SettleTaskPayment(request[r].on, split)
    BY <1>7 DEF SettleAccepted, SettleByRoute
  <2>5. MoneyFits
    BY <2>1, <2>2, <2>3, <2>4, SettlePays, PayFits, MoneyKept DEF board
  <2>6. TaskFits /\ ApplicationFits
    BY <2>1 DEF board, TaskFits, ApplicationFits, Types, TypeOK, OpenIsUnassigned
  <2>7. HistoryFits
    BY <1>7, <2>1 DEF SettleAccepted, SettleByRoute, Window, Slips, HistoryFits, Types, TypeOK
  <2> QED  BY <2>2, <2>5, <2>6, <2>7, TogetherFit
<1>8. ASSUME NEW r \in Requests, NEW amount \in QualityPay, CompleteTask(r, amount) PROVE Types'
  <2>1. UNCHANGED <<application, assignments, crashes>> /\ Return(r)
    BY <1>8 DEF CompleteTask
  <2>2. Grows /\ RequestsFit
    BY <2>1, UnchangedGrows, ReturnFits
  <2>3. MoneyFits
    BY <1>8, <2>1, <2>2, CompletePays, PayFits, MoneyKept
  <2>4. TaskFits
    BY <1>8 DEF CompleteTask, ClaimsCompletion, Complete, TaskFits, Types, TypeOK, OpenIsUnassigned
  <2>5. HistoryFits /\ ApplicationFits
    BY <1>8 DEF CompleteTask, Complete, Window, Slips, HistoryFits, ApplicationFits, Types, TypeOK
  <2> QED  BY <2>2, <2>3, <2>4, <2>5, TogetherFit
<1>9. ASSUME NEW r \in Requests, NEW k \in PayoutKeys, RequestWalletPayout(r, k) PROVE Types'
  <2>1. UNCHANGED <<board, settlements, payments, crashes, growth, slips>> /\ Return(r)
    BY <1>9 DEF RequestWalletPayout
  <2>2. Grows /\ RequestsFit
    BY <2>1, UnchangedGrows, ReturnFits DEF board
  <2>3. balance' \in [Personas -> Int] /\ journal' \in [Personas -> Int]
    <3>1. balance \in [Personas -> Int] /\ journal \in [Personas -> Int] /\ PayoutAmount \in Int
      BY MarketplaceAssumption DEF Types, TypeOK
    <3> QED  BY <1>9, <3>1 DEF RequestWalletPayout
  <2>4. MoneyFits
    BY <1>9, <2>1, <2>3, PayOutEffect DEF MoneyFits, Types, TypeOK, Settlement, Latest, board
  <2> QED
    BY <2>1, <2>2, <2>4, TogetherFit
    DEF board, TaskFits, HistoryFits, ApplicationFits, Types, TypeOK, OpenIsUnassigned
<1>10. CASE UNCHANGED vars
  <2>1. Grows /\ RequestsFit /\ UNCHANGED <<board, money, crashes, growth, slips>>
    BY <1>10, UnchangedGrows, UnchangedFits DEF vars, board
  <2> QED
    BY <2>1, MoneyKept, TogetherFit
    DEF board, TaskFits, HistoryFits, ApplicationFits, Types, TypeOK, OpenIsUnassigned
<1> QED
  BY <1>1, <1>2, <1>3, <1>4, <1>5, <1>6, <1>7, <1>8, <1>9, <1>10 DEF Next, Writes

\* In every reachable state requests refer to rows that exist, and the task
\* is open exactly when it has no assignee.
THEOREM TypesHold == Spec => []Types
  BY TypesInit, TypesStep, PTL DEF Spec

\* Rows and requests have their types, whatever the number of rounds and results.
THEOREM TypeCorrect == Spec => []TypeOK
<1>1. Types => TypeOK
  BY DEF Types
<1> QED  BY <1>1, TypesHold, PTL

-----------------------------------------------------------------------------
(* The inductive invariant.                                                 *)

\* A task brings growth when it is completed, and nothing leads back from there.
GrowthCounts == growth = IF task.status = "completed" THEN 1 ELSE 0

\* The round of the task is that of the latest assignment, ...
RoundIsLatest ==
    slips \cap {"stray", "swapped"} = {} =>
        /\ task.status # "open" => Latest > 0 /\ task.assignee = assignments[Latest].persona
        /\ \A r \in Requests : Owes(r) => task.status = "completed" /\ request[r].on = Latest

\* ... a payment is recorded on it, and an open task has none.
PaymentIsRecorded ==
    slips \cap {"stray", "swapped", "reopened", "older", "late"} = {} =>
        /\ payments <= 1
        /\ payments > 0 => Settled(Latest)
        /\ task.status = "open" => payments = 0

RoundInv == GrowthCounts /\ RoundIsLatest /\ PaymentIsRecorded /\ CompletedIsPaid

\* What the rounds do not notice: reads, refusals, submissions, disputes, payouts,
\* and crashes of requests that do not owe a payment.
Quiet ==
    /\ UNCHANGED <<task, settlements, payments, growth>>
    /\ Latest' = Latest
    /\ \A a \in 1 .. Latest : assignments'[a].persona = assignments[a].persona
    /\ slips \subseteq slips'
    /\ \A r \in Requests : request'[r].step \in {"settle", "pay"} => request'[r] = request[r]
    /\ "cut" \notin slips' => \A r \in Requests : Owes(r) => request'[r] = request[r]

\* What the rounds do not notice keeps their invariant.
LEMMA QuietKeepsRounds ==
  ASSUME Types, RoundInv, Quiet
  PROVE  RoundInv'
<1>1. GrowthCounts'
  BY DEF Quiet, RoundInv, GrowthCounts
<1>2. RoundIsLatest'
  <2> SUFFICES ASSUME slips' \cap {"stray", "swapped"} = {}
               PROVE  /\ task'.status # "open" => Latest' > 0 /\ task'.assignee = assignments'[Latest'].persona
                      /\ \A r \in Requests : Owes(r)' => task'.status = "completed" /\ request'[r].on = Latest'
    BY DEF RoundIsLatest
  <2>1. slips \cap {"stray", "swapped"} = {}
    BY DEF Quiet
  <2>2. Latest \in Nat
    BY LenProperties DEF Types, TypeOK, Latest
  <2> QED  BY <2>1, <2>2 DEF Quiet, RoundInv, RoundIsLatest, Owes, At
<1>3. PaymentIsRecorded'
  BY DEF Quiet, RoundInv, PaymentIsRecorded, Settled
<1>4. CompletedIsPaid'
  BY DEF Quiet, RoundInv, CompletedIsPaid, Settled, Owes, At
<1> QED  BY <1>1, <1>2, <1>3, <1>4 DEF RoundInv

\* A request that is answered moves to idle, the others do not move.
LEMMA ReturnMoves ==
  ASSUME Types, NEW r \in Requests, Return(r)
  PROVE  request'[r].step = "idle" /\ \A q \in Requests \ {r} : request'[q] = request[q]
  BY DEF Return, Idle, Types, TypeOK

\* A read step neither begins nor ends an owed payment, but for the settlement's own.
LEMMA ReadMoves ==
  ASSUME Types, NEW r \in Requests, Reads(r), ~ReadToPay(r)
  PROVE  /\ ~Owes(r) /\ ~Owes(r)'
         /\ \A q \in Requests \ {r} : request'[q] = request[q]
<1>1. ASSUME NEW p \in Personas, ReadToApply(r, p) \/ ReadToAssign(r, p) \/ ReadToTake(r, p) \/ ReadToPayOut(r, p)
      PROVE  \E q : ~Owes(r) /\ q.step \notin {"settle", "pay"} /\ request' = [request EXCEPT ![r] = q]
  BY <1>1 DEF ReadToApply, ReadToAssign, ReadToTake, ReadToPayOut, Begin, At, Owes
<1>2. ASSUME NEW a \in 1 .. Latest, ReadToSubmit(r, a) \/ ReadToSettle(r, a)
      PROVE  \E q : ~Owes(r) /\ q.step \notin {"settle", "pay"} /\ request' = [request EXCEPT ![r] = q]
  BY <1>2 DEF ReadToSubmit, ReadToSettle, Begin, At, Owes
<1>3. ASSUME ReadToAccept(r) \/ ReadToReject(r) \/ ReadToDispute(r) \/ ReadToComplete(r)
      PROVE  \E q : ~Owes(r) /\ q.step \notin {"settle", "pay"} /\ request' = [request EXCEPT ![r] = q]
  BY <1>3 DEF ReadToAccept, ReadToReject, ReadToDispute, ReadToComplete, Begin, At, Owes
<1>4. ASSUME ReadAnchor(r)
      PROVE  ~Owes(r) /\ ~Owes(r)' /\ \A q \in Requests \ {r} : request'[q] = request[q]
  BY <1>4 DEF ReadAnchor, Return, Idle, At, Owes, Types, TypeOK
<1> QED
  BY <1>1, <1>2, <1>3, <1>4 DEF Reads, Owes, At, Types, TypeOK

\* Reads, refusals, submissions, disputes and payouts are quiet.
LEMMA QuietSteps ==
  ASSUME Types, NEW r \in Requests,
         \/ Reads(r) /\ ~ReadToPay(r)
         \/ Apply(r) \/ SubmitTaskResult(r) \/ AnswerTooLate(r) \/ DisputeTask(r)
         \/ (\E amount \in QualityPay : CompleteTooLate(r, amount)) \/ Crash(r)
         \/ \E k \in PayoutKeys : RequestWalletPayout(r, k)
  PROVE  Quiet
<1>1. CASE Reads(r) /\ ~ReadToPay(r)
  BY <1>1, ReadMoves, ReadsFit DEF Quiet, board, money, Latest, Owes, At
<1>2. CASE SubmitTaskResult(r) \/ DisputeTask(r)
  <2>1. Latest' = Latest /\ \A a \in 1 .. Latest : assignments'[a].persona = assignments[a].persona
    BY <1>2, SubmitEffect, DisputeEffect DEF OnlyRow, Latest
  <2>2. UNCHANGED <<task, application, money, crashes, growth, slips>> /\ Return(r) /\ ~Owes(r)
    BY <1>2 DEF SubmitTaskResult, DisputeTask, At, Owes
  <2> QED  BY <2>1, <2>2, ReturnMoves DEF Quiet, money, Owes, At
<1>3. CASE Apply(r) \/ AnswerTooLate(r) \/ \E amount \in QualityPay : CompleteTooLate(r, amount)
  <2>1. UNCHANGED <<task, assignments, money, crashes, growth, slips>> /\ Return(r) /\ ~Owes(r)
    BY <1>3 DEF Apply, AnswerTooLate, CompleteTooLate, board, At, Owes
  <2> QED  BY <2>1, ReturnMoves DEF Quiet, money, Latest, Owes, At
<1>4. CASE Crash(r)
  <2>1. /\ UNCHANGED <<task, assignments, money, growth>> /\ Return(r) /\ slips \subseteq slips'
        /\ Owes(r) => "cut" \in slips'
    BY <1>4 DEF Crash, board, Slip, Window
  <2> QED  BY <2>1, ReturnMoves DEF Quiet, money, Latest, Owes, At
<1>5. ASSUME NEW k \in PayoutKeys, RequestWalletPayout(r, k) PROVE Quiet
  <2>1. UNCHANGED <<task, assignments, settlements, payments, crashes, growth, slips>> /\ Return(r) /\ ~Owes(r)
    BY <1>5 DEF RequestWalletPayout, board, At, Owes
  <2> QED  BY <2>1, ReturnMoves DEF Quiet, Latest, Owes, At
<1> QED  BY <1>1, <1>2, <1>3, <1>4, <1>5

-----------------------------------------------------------------------------
(* The other steps, one lemma each.                                         *)

\* Assigning and accepting an open task begin a round without a payment.
LEMMA TakeKeepsRounds ==
  ASSUME Types, RoundInv, NEW r \in Requests, AssignTask(r) \/ AcceptTask(r)
  PROVE  RoundInv'
<1> DEFINE p == request[r].who
<1>1. PICK applied \in BOOLEAN : Take(p, applied)
  BY DEF AssignTask, AcceptTask
<1>2. p \in Personas
  BY DEF AssignTask, AcceptTask, At, Types, Pointers, PointsInto
<1>3. UNCHANGED <<settlements, payments, growth>> /\ Return(r) /\ ~Owes(r)
  BY DEF AssignTask, AcceptTask, money, At, Owes
<1>4. Latest' = Latest + 1 /\ assignments'[Latest + 1].persona = p /\ Latest \in Nat
  BY <1>1, <1>2, TakeEffect, LenProperties DEF Types, TypeOK, Latest
<1>5. /\ task.status = "open" => task' = [status |-> "accepted", assignee |-> p] /\ slips' = slips
      /\ task.status # "open" => task' = task /\ "stray" \in slips'
      /\ slips \subseteq slips'
  BY <1>1 DEF Take, Slip, Window
<1> HIDE DEF p
<1>6. \A q \in Requests : Owes(q)' => Owes(q) /\ request'[q] = request[q]
  BY <1>3, ReturnMoves DEF At, Owes
<1>7. GrowthCounts'
  BY <1>3, <1>5 DEF RoundInv, GrowthCounts
<1>8. RoundIsLatest'
  BY <1>4, <1>5, <1>6 DEF RoundInv, RoundIsLatest
<1>9. PaymentIsRecorded'
  BY <1>3, <1>5 DEF RoundInv, PaymentIsRecorded
<1>10. CompletedIsPaid'
  BY <1>5 DEF RoundInv, CompletedIsPaid
<1> QED  BY <1>7, <1>8, <1>9, <1>10 DEF RoundInv

\* An acceptance completes the task once and owes its payment.
LEMMA AcceptKeepsRounds ==
  ASSUME Types, RoundInv, NEW r \in Requests, AcceptSubmittedTask(r)
  PROVE  RoundInv'
<1> DEFINE a == request[r].on
<1>1. a \in 1 .. Latest /\ OnlyRow(a, assignments')
  BY AnswerEffect DEF AcceptSubmittedTask, At
<1>2. Latest' = Latest /\ \A b \in 1 .. Latest : assignments'[b].persona = assignments[b].persona
  BY <1>1 DEF OnlyRow, Latest
<1>3. /\ task.status = "accepted" /\ task'.status = "completed" /\ task'.assignee = task.assignee
      /\ growth' = growth + 1 /\ UNCHANGED <<settlements, payments>>
      /\ slips \subseteq slips' /\ (a # Latest => "swapped" \in slips')
  BY DEF AcceptSubmittedTask, ClaimsCompletion, Complete, Slip, Window, money, Types, TypeOK
<1>4. /\ request'[r].step = "settle" /\ request'[r].on = a
      /\ \A q \in Requests \ {r} : request'[q] = request[q]
  BY DEF AcceptSubmittedTask, Go, Types, TypeOK
<1> HIDE DEF a
<1>5. GrowthCounts'
  BY <1>3 DEF RoundInv, GrowthCounts
<1>6. RoundIsLatest'
  BY <1>1, <1>2, <1>3, <1>4 DEF RoundInv, RoundIsLatest, Owes, At
<1>7. PaymentIsRecorded'
  BY <1>2, <1>3 DEF RoundInv, PaymentIsRecorded, Settled
<1>8. CompletedIsPaid'
  BY <1>4 DEF CompletedIsPaid, Owes, At
<1> QED  BY <1>5, <1>6, <1>7, <1>8 DEF RoundInv

\* A rejection reopens a task that was not paid, or leaves a slip.
LEMMA RejectKeepsRounds ==
  ASSUME Types, RoundInv, NEW r \in Requests, RejectSubmittedTask(r)
  PROVE  RoundInv'
<1>1. /\ task.status = "accepted" /\ task'.status = "open"
      /\ UNCHANGED <<settlements, payments, growth>> /\ Return(r)
      /\ slips \subseteq slips' /\ (payments > 0 => "reopened" \in slips')
  BY DEF RejectSubmittedTask, ClaimsReopen, Window, money
<1>2. \A q \in Requests : Owes(q)' => Owes(q)
  BY <1>1, ReturnMoves DEF At, Owes
<1>3. GrowthCounts'
  BY <1>1 DEF RoundInv, GrowthCounts
<1>4. RoundIsLatest'
  BY <1>1, <1>2 DEF RoundInv, RoundIsLatest
<1>5. PaymentIsRecorded'
  BY <1>1 DEF RoundInv, PaymentIsRecorded, Types, TypeOK
<1>6. CompletedIsPaid'
  BY <1>1 DEF CompletedIsPaid
<1> QED  BY <1>3, <1>4, <1>5, <1>6 DEF RoundInv

\* The settlement row of the latest assignment is what marks the task as paid.
LEMMA PaySettles ==
  ASSUME NEW a \in 1 .. Latest, NEW p, NEW owner, Pay(a, p, owner, owner), UNCHANGED assignments
  PROVE  a = Latest => Settled(Latest)'
<1> DEFINE s == [assignment |-> a, wallet |-> p, owner |-> owner]
<1>1. s \in settlements' /\ s.assignment = a
  BY DEF Pay
<1> HIDE DEF s
<1> QED  BY <1>1 DEF Settled, Latest

\* A payment of the latest assignment, if nobody else has paid it.
LEMMA PayKeepsRecord ==
  ASSUME Types, RoundInv, NEW a \in 1 .. Latest, a = Latest, NEW p, NEW owner,
         Pay(a, p, owner, owner), ~Settled(a), UNCHANGED assignments, slips \subseteq slips', task'.status # "open"
  PROVE  PaymentIsRecorded' /\ Settled(Latest)'
<1>1. Settled(Latest)'
  BY PaySettles
<1>2. PaymentIsRecorded'
  BY <1>1 DEF Pay, RoundInv, PaymentIsRecorded, Types, TypeOK
<1> QED  BY <1>1, <1>2

\* The settlement that follows an acceptance finds that it has to pay, or that the
\* latest assignment is settled.
LEMMA PayReadKeepsRounds ==
  ASSUME Types, RoundInv, NEW r \in Requests, ReadToPay(r)
  PROVE  RoundInv'
<1> DEFINE a == request[r].on
<1>1. /\ UNCHANGED <<task, assignments, settlements, payments, growth, slips>> /\ Latest' = Latest /\ Owes(r)
      /\ Go(r, "pay") \/ (~Settleable(a) /\ Return(r))
  BY DEF ReadToPay, board, money, Latest, Owes
<1>2. ASSUME NEW q \in Requests, Owes(q)' PROVE Owes(q) /\ request'[q].on = request[q].on
  <2>1. CASE Go(r, "pay")
    BY <1>1, <1>2, <2>1 DEF Go, Owes, At, Types, TypeOK
  <2>2. CASE Return(r)
    BY <1>2, <2>2, ReturnMoves DEF Owes, At
  <2> QED  BY <1>1, <2>1, <2>2
<1>3. Reward > 0
  BY DEF ReadToPay, At, Types, Pointers, PointsInto
<1> HIDE DEF a
<1>4. GrowthCounts'
  BY <1>1 DEF RoundInv, GrowthCounts
<1>5. RoundIsLatest'
  BY <1>1, <1>2 DEF RoundInv, RoundIsLatest
<1>6. PaymentIsRecorded'
  BY <1>1 DEF RoundInv, PaymentIsRecorded, Settled
<1>7. CompletedIsPaid'
  <2> SUFFICES ASSUME slips \cap {"stray", "swapped", "cut", "rounded"} = {}, task.status = "completed"
               PROVE  Settled(Latest)' \/ \E q \in Requests : Owes(q)'
    BY <1>1 DEF CompletedIsPaid
  <2>1. CASE Go(r, "pay")
    <3>1. Owes(r)'
      BY <2>1 DEF Go, Owes, At, Types, TypeOK
    <3> QED  BY <3>1
  <2>2. CASE ~Settleable(a)
    <3>1. a = Latest /\ task.assignee = assignments[Latest].persona
      BY <1>1 DEF RoundInv, RoundIsLatest, a
    <3>2. Settled(Latest)
      BY <1>3, <2>2, <3>1 DEF Settleable
    <3> QED  BY <1>1, <3>2 DEF Settled
  <2> QED  BY <1>1, <2>1, <2>2
<1> QED  BY <1>4, <1>5, <1>6, <1>7 DEF RoundInv

\* The payment owed by an acceptance is made once.
LEMMA SettleKeepsRounds ==
  ASSUME Types, RoundInv, NEW r \in Requests, SettleAccepted(r)
  PROVE  RoundInv'
<1> DEFINE a == request[r].on
<1>1. UNCHANGED <<task, assignments, growth, slips>> /\ Return(r) /\ Owes(r) /\ Latest' = Latest
  BY DEF SettleAccepted, board, Latest, Owes
<1>2. \A q \in Requests : Owes(q)' => Owes(q) /\ request'[q] = request[q]
  BY <1>1, ReturnMoves DEF At, Owes
<1>3. a \in 1 .. Latest
  BY <1>1 DEF At, Owes, Types, Pointers, PointsInto, Latest
<1>4. \/ Pay(a, assignments[a].persona, OwnerShare(AcceptedSplit), OwnerShare(AcceptedSplit)) /\ ~Settled(a)
      \/ Settled(a) /\ UNCHANGED <<settlements, payments>>
  BY <1>3, SettlePays DEF SettleAccepted, money
<1> HIDE DEF a
<1>5. GrowthCounts'
  BY <1>1 DEF RoundInv, GrowthCounts
<1>6. RoundIsLatest'
  BY <1>1, <1>2 DEF RoundInv, RoundIsLatest
<1>7. PaymentIsRecorded'
  <2>1. CASE slips \cap {"stray", "swapped", "reopened", "older", "late"} # {}
    BY <1>1, <2>1 DEF PaymentIsRecorded
  <2>2. CASE slips \cap {"stray", "swapped", "reopened", "older", "late"} = {}
    <3>1. a = Latest /\ task.status = "completed"
      BY <1>1, <2>2 DEF RoundInv, RoundIsLatest, a
    <3>2. CASE Settled(a) /\ UNCHANGED <<settlements, payments>>
      BY <1>1, <3>2 DEF RoundInv, PaymentIsRecorded, Settled
    <3>3. CASE Pay(a, assignments[a].persona, OwnerShare(AcceptedSplit), OwnerShare(AcceptedSplit)) /\ ~Settled(a)
      BY <1>1, <1>3, <3>1, <3>3, PayKeepsRecord
    <3> QED  BY <1>4, <3>2, <3>3
  <2> QED  BY <2>1, <2>2
<1>8. CompletedIsPaid'
  <2> SUFFICES ASSUME slips \cap {"stray", "swapped", "cut", "rounded"} = {}, task.status = "completed"
               PROVE  Settled(Latest)'
    BY <1>1 DEF CompletedIsPaid
  <2>1. a = Latest
    BY <1>1 DEF RoundInv, RoundIsLatest, a
  <2>2. CASE Settled(a) /\ UNCHANGED <<settlements, payments>>
    BY <1>1, <2>1, <2>2 DEF Settled
  <2>3. CASE Pay(a, assignments[a].persona, OwnerShare(AcceptedSplit), OwnerShare(AcceptedSplit)) /\ ~Settled(a)
    BY <1>1, <1>3, <2>1, <2>3, PaySettles
  <2> QED  BY <1>4, <2>2, <2>3
<1> QED  BY <1>5, <1>6, <1>7, <1>8 DEF RoundInv

\* completeTask completes and pays in one transaction, once.
LEMMA CompleteKeepsRounds ==
  ASSUME Types, RoundInv, NEW r \in Requests, NEW amount \in QualityPay, CompleteTask(r, amount)
  PROVE  RoundInv'
<1> DEFINE a == request[r].on
           p == request[r].who
<1>1. UNCHANGED assignments /\ Return(r) /\ Latest' = Latest
  BY DEF CompleteTask, Latest
<1>2. \A q \in Requests : Owes(q)' => Owes(q)
  BY <1>1, ReturnMoves DEF At, Owes
<1>3. /\ a \in 1 .. Latest
      /\ \/ ~Settled(a) /\ Pay(a, p, amount, amount)
         \/ "rounded" \in slips' /\ UNCHANGED <<settlements, payments>>
  BY CompletePays DEF money
<1>4. /\ task.status = "accepted" /\ task'.status = "completed" /\ task'.assignee = task.assignee
      /\ growth' = growth + 1
      /\ slips \subseteq slips' /\ (a # Latest => "swapped" \in slips')
  BY DEF CompleteTask, ClaimsCompletion, Complete, Window, Types, TypeOK
<1> HIDE DEF a, p
<1>5. GrowthCounts'
  BY <1>4 DEF RoundInv, GrowthCounts
<1>6. RoundIsLatest'
  BY <1>1, <1>2, <1>4 DEF RoundInv, RoundIsLatest
<1>7. a = Latest /\ ~Settled(a) /\ Pay(a, p, amount, amount) => PaymentIsRecorded' /\ CompletedIsPaid'
  BY <1>1, <1>3, <1>4, PayKeepsRecord DEF CompletedIsPaid
<1>8. a # Latest => PaymentIsRecorded' /\ CompletedIsPaid'
  BY <1>4 DEF PaymentIsRecorded, CompletedIsPaid
<1>9. "rounded" \in slips' /\ UNCHANGED <<settlements, payments>> => PaymentIsRecorded' /\ CompletedIsPaid'
  BY <1>1, <1>4 DEF RoundInv, PaymentIsRecorded, CompletedIsPaid, Settled
<1> QED  BY <1>3, <1>5, <1>6, <1>7, <1>8, <1>9 DEF RoundInv

\* A settlement by route pays what is not settled yet: a task that is its persona's
\* still, or a window is named.
LEMMA RouteKeepsRounds ==
  ASSUME Types, RoundInv, NEW r \in Requests, NEW split \in Splits, SettleByRoute(r, split)
  PROVE  RoundInv'
<1> DEFINE a == request[r].on
<1>1. UNCHANGED <<task, assignments, growth>> /\ Return(r) /\ ~Owes(r) /\ Latest' = Latest
  BY DEF SettleByRoute, board, Latest, At, Owes
<1>2. a \in 1 .. Latest
  BY DEF SettleByRoute, At, Types, Pointers, PointsInto, Latest
<1>3. /\ slips \subseteq slips'
      /\ ~Settled(a) /\ a # Latest => "older" \in slips'
      /\ ~Settled(a) /\ task.assignee # assignments[a].persona => "late" \in slips'
  BY DEF SettleByRoute, Window
<1>4. /\ assignments[a].persona \in Personas
      /\ \/ ~Settled(a) /\ Pay(a, assignments[a].persona, OwnerShare(split), OwnerShare(split))
         \/ UNCHANGED <<settlements, payments>>
  BY <1>2, SettlePays DEF SettleByRoute, money
<1>5. /\ \A q \in Requests : Owes(q)' => Owes(q) /\ request'[q] = request[q]
      /\ \A q \in Requests : Owes(q) => Owes(q)'
  BY <1>1, ReturnMoves DEF At, Owes
<1> HIDE DEF a
<1>6. GrowthCounts'
  BY <1>1 DEF RoundInv, GrowthCounts
<1>7. RoundIsLatest'
  BY <1>1, <1>3, <1>5 DEF RoundInv, RoundIsLatest
<1>8. PaymentIsRecorded'
  <2> SUFFICES ASSUME slips' \cap {"stray", "swapped", "reopened", "older", "late"} = {}
               PROVE  PaymentIsRecorded'
    BY DEF PaymentIsRecorded
  <2>1. CASE UNCHANGED <<settlements, payments>>
    BY <1>1, <1>3, <2>1 DEF RoundInv, PaymentIsRecorded, Settled
  <2>2. CASE ~Settled(a) /\ Pay(a, assignments[a].persona, OwnerShare(split), OwnerShare(split))
    <3>1. a = Latest /\ task.assignee \in Personas
      BY <1>3, <1>4, <2>2
    <3>2. task'.status # "open"
      BY <1>1, <3>1, MarketplaceAssumption DEF Types, OpenIsUnassigned
    <3> QED  BY <1>1, <1>2, <1>3, <2>2, <3>1, <3>2, PayKeepsRecord
  <2> QED  BY <1>4, <2>1, <2>2
<1>9. CompletedIsPaid'
  <2>1. Settled(Latest) => Settled(Latest)'
    BY <1>1, <1>4 DEF Pay, Settled
  <2> QED  BY <1>1, <1>3, <1>5, <2>1 DEF RoundInv, CompletedIsPaid
<1> QED  BY <1>6, <1>7, <1>8, <1>9 DEF RoundInv

\* Before the first round nothing is learnt or paid.
LEMMA RoundInit == Init => RoundInv
  BY DEF Init, RoundInv, GrowthCounts, RoundIsLatest, PaymentIsRecorded, CompletedIsPaid, Owes, At, Idle

\* Every handler keeps growth and payment of the rounds.
LEMMA RoundStep == Types /\ RoundInv /\ [Next]_vars => RoundInv'
<1> SUFFICES ASSUME Types, RoundInv, [Next]_vars PROVE RoundInv'
  OBVIOUS
<1>1. CASE UNCHANGED vars
  BY <1>1, QuietKeepsRounds DEF vars, board, money, Quiet, Latest, Owes, At
<1> QED
  BY <1>1, QuietSteps, QuietKeepsRounds, TakeKeepsRounds, AcceptKeepsRounds, RejectKeepsRounds,
     PayReadKeepsRounds, SettleKeepsRounds, CompleteKeepsRounds, RouteKeepsRounds DEF Next, Writes

\* The inductive invariant of the rounds: what the task row says of growth and payment is what was booked.
THEOREM RoundsHold == Spec => [](Types /\ RoundInv)
<1>1. Init => Types /\ RoundInv
  BY TypesInit, RoundInit
<1>2. Types /\ RoundInv /\ [Next]_vars => (Types /\ RoundInv)'
  BY TypesStep, RoundStep
<1> QED  BY <1>1, <1>2, PTL DEF Spec

\* Growth is granted once, however acceptance, completion and rejection race.
THEOREM GrowthHolds == Spec => []GrowthOnce
<1>1. RoundInv => GrowthOnce
  BY DEF RoundInv, GrowthCounts, GrowthOnce
<1> QED  BY <1>1, RoundsHold, PTL

\* Outside the named windows nobody is paid twice for the task.
THEOREM PaymentHolds == Spec => []PaidOnce
<1>1. RoundInv => PaidOnce
  BY DEF RoundInv, PaymentIsRecorded, PaidOnce
<1> QED  BY <1>1, RoundsHold, PTL

\* Growth and reward of a task are granted once, for any number of requests.
THEOREM RewardHolds == Spec => []RewardedOnce
BY GrowthHolds, PaymentHolds, PTL DEF RewardedOnce

\* A completed task has been paid, or its payment is under way.
THEOREM CompletionHolds == Spec => []CompletedIsPaid
<1>1. RoundInv => CompletedIsPaid
  BY DEF RoundInv
<1> QED  BY <1>1, RoundsHold, PTL

-----------------------------------------------------------------------------
(* Undivided outcomes.                                                      *)

\* A verdict on the latest assignment and the status of the task go together.
Says(a, verdict) ==
    \/ StatusOf(a) = verdict
    \/ \E j \in 1 .. LatestResult(a) : assignments[a].results[j] = verdict

\* A verdict on the latest round, in its status or in one of its results, has moved the task.
VerdictClosesRound ==
    "swapped" \notin slips /\ Latest > 0 =>
        /\ Says(Latest, "accepted") => task.status = "completed"
        /\ Says(Latest, "rejected") => task.status = "open"

VerdictInv == VerdictClosesRound /\ UndividedOutcome

\* A row that gets a new result or a dispute says no more than it did before.
LEMMA SilentRow ==
  ASSUME Types, VerdictInv, NEW a \in 1 .. Latest, Grows, OnlyRow(a, assignments'),
         UNCHANGED <<task, slips>>,
         assignments'[a].status \in {"submitted", "disputed"},
         \A j \in 1 .. Len(assignments'[a].results) :
            \/ assignments'[a].results[j] \in {"submitted", "disputed"}
            \/ j \in 1 .. LatestResult(a) /\ assignments'[a].results[j] = assignments[a].results[j]
  PROVE  VerdictInv'
<1>1. Latest' = Latest /\ \A b \in 1 .. Latest \ {a} : assignments'[b] = assignments[b]
  BY DEF OnlyRow, Latest
<1>2. VerdictClosesRound'
  <2> SUFFICES ASSUME "swapped" \notin slips, Latest > 0
               PROVE  /\ Says(Latest, "accepted")' => task.status = "completed"
                      /\ Says(Latest, "rejected")' => task.status = "open"
    BY <1>1 DEF VerdictClosesRound
  <2>1. Latest \in 1 .. Latest
    BY LenProperties DEF Types, TypeOK, Latest
  <2>2. ASSUME NEW verdict \in {"accepted", "rejected"}, Says(Latest, verdict)' PROVE Says(Latest, verdict)
    BY <1>1, <2>1, <2>2 DEF Says, StatusOf, LatestResult
  <2> QED  BY <2>2 DEF VerdictInv, VerdictClosesRound
<1>3. UndividedOutcome'
  BY <1>1 DEF VerdictInv, UndividedOutcome, StatusOf, LatestResult
<1> QED  BY <1>2, <1>3 DEF VerdictInv

\* Steps that touch neither task nor assignments keep the verdicts.
LEMMA SameVerdicts ==
  ASSUME VerdictInv, UNCHANGED <<task, assignments>>, slips \subseteq slips'
  PROVE  VerdictInv'
  BY DEF VerdictInv, VerdictClosesRound, UndividedOutcome, Says, StatusOf, LatestResult, Latest

\* A new round begins without a verdict.
LEMMA TakeVerdicts ==
  ASSUME Types, VerdictInv, NEW p \in Personas, NEW applied \in BOOLEAN, Take(p, applied)
  PROVE  VerdictInv'
<1>1. /\ Latest' = Latest + 1 /\ Latest \in Nat /\ slips \subseteq slips'
      /\ \A a \in 1 .. Latest : assignments'[a] = assignments[a]
      /\ assignments'[Latest + 1].status = "assigned" /\ assignments'[Latest + 1].results = <<>>
  BY TakeEffect, LenProperties DEF Types, TypeOK, Latest, Take, Slip, Window
<1>2. LatestResult(Latest)' = 0 /\ StatusOf(Latest)' = "assigned"
  BY <1>1 DEF LatestResult, StatusOf
<1>3. VerdictClosesRound'
  BY <1>2 DEF VerdictClosesRound, Says
<1>4. UndividedOutcome'
  <2> SUFFICES ASSUME "swapped" \notin slips', NEW a \in 1 .. Latest', LatestResult(a)' > 0
               PROVE  LET verdict == assignments'[a].results[LatestResult(a)'] IN
                      /\ ~(verdict = "accepted" /\ StatusOf(a)' = "rejected")
                      /\ ~(verdict = "rejected" /\ StatusOf(a)' = "accepted")
    BY DEF UndividedOutcome
  <2>1. a \in 1 .. Latest
    BY <1>1, <1>2
  <2> QED  BY <1>1, <2>1 DEF VerdictInv, UndividedOutcome, StatusOf, LatestResult
<1> QED  BY <1>3, <1>4 DEF VerdictInv

\* Acceptance and rejection write assignment, result and task in one transaction.
LEMMA AnswerVerdicts ==
  ASSUME Types, VerdictInv, NEW r \in Requests, NEW verdict \in {"accepted", "rejected"},
         request[r].step \in {"accept", "reject"}, assignments' = Answer(r, verdict),
         task.status = "accepted", slips \subseteq slips',
         task'.status = IF verdict = "accepted" THEN "completed" ELSE "open",
         request[r].on # Latest => "swapped" \in slips'
  PROVE  VerdictInv'
<1> DEFINE a == request[r].on
<1>1. /\ a \in 1 .. Latest /\ Latest' = Latest
      /\ \A b \in 1 .. Latest \ {a} : assignments'[b] = assignments[b]
      /\ assignments'[a].status \in {verdict, StatusOf(a)}
      /\ Len(assignments'[a].results) = LatestResult(a) /\ LatestResult(a) \in Nat
      /\ \A j \in 1 .. LatestResult(a) : assignments'[a].results[j] \in {verdict, assignments[a].results[j]}
  BY AnswerEffect, RowTypes DEF OnlyRow, Latest, Types, TypeOK
<1> HIDE DEF a
<1>2. CASE "swapped" \in slips'
  BY <1>2 DEF VerdictInv, VerdictClosesRound, UndividedOutcome
<1>3. CASE "swapped" \notin slips'
  <2>1. a = Latest /\ "swapped" \notin slips /\ Latest > 0
    BY <1>1, <1>3 DEF a
  <2>2. ~Says(Latest, "accepted") /\ ~Says(Latest, "rejected")
    BY <2>1 DEF VerdictInv, VerdictClosesRound
  <2>3. /\ StatusOf(a) \notin {"accepted", "rejected"}
        /\ \A j \in 1 .. LatestResult(a) : assignments[a].results[j] \notin {"accepted", "rejected"}
    BY <2>1, <2>2 DEF Says
  <2>4. ASSUME NEW other \in {"accepted", "rejected"} \ {verdict}
        PROVE  /\ assignments'[a].status # other
               /\ \A j \in 1 .. LatestResult(a) : assignments'[a].results[j] # other
    BY <1>1, <2>3
  <2>5. VerdictClosesRound'
    BY <1>1, <2>1, <2>4 DEF VerdictClosesRound, Says, StatusOf, LatestResult
  <2>6. UndividedOutcome'
    <3> SUFFICES ASSUME NEW b \in 1 .. Latest, LatestResult(b)' > 0
                 PROVE  LET last == assignments'[b].results[LatestResult(b)'] IN
                        /\ ~(last = "accepted" /\ StatusOf(b)' = "rejected")
                        /\ ~(last = "rejected" /\ StatusOf(b)' = "accepted")
      BY <1>1 DEF UndividedOutcome
    <3>1. CASE b = a
      <4>1. LatestResult(b)' \in 1 .. LatestResult(a)
        BY <1>1, <3>1 DEF LatestResult
      <4>2. CASE verdict = "accepted"
        BY <1>1, <2>4, <3>1, <4>1, <4>2 DEF StatusOf
      <4>3. CASE verdict = "rejected"
        BY <1>1, <2>4, <3>1, <4>1, <4>3 DEF StatusOf
      <4> QED  BY <4>2, <4>3
    <3>2. CASE b # a
      BY <1>1, <2>1, <3>2 DEF VerdictInv, UndividedOutcome, StatusOf, LatestResult
    <3> QED  BY <3>1, <3>2
  <2> QED  BY <2>5, <2>6 DEF VerdictInv
<1> QED  BY <1>2, <1>3

\* Every handler keeps outcomes undivided.
LEMMA VerdictStep == Types /\ VerdictInv /\ [Next]_vars => VerdictInv'
<1> SUFFICES ASSUME Types, VerdictInv, [Next]_vars PROVE VerdictInv'
  OBVIOUS
<1>1. ASSUME NEW r \in Requests, Reads(r) PROVE VerdictInv'
  BY <1>1, ReadsFit, SameVerdicts DEF board
<1>2. ASSUME NEW r \in Requests,
             \/ Apply(r) \/ AnswerTooLate(r) \/ SettleAccepted(r) \/ Crash(r)
             \/ \E split \in Splits : SettleByRoute(r, split)
             \/ \E amount \in QualityPay : CompleteTooLate(r, amount)
             \/ \E k \in PayoutKeys : RequestWalletPayout(r, k)
      PROVE  VerdictInv'
  <2>1. UNCHANGED <<task, assignments>> /\ slips \subseteq slips'
    BY <1>2 DEF Apply, AnswerTooLate, SettleAccepted, SettleByRoute, CompleteTooLate, Crash, RequestWalletPayout,
                Slip, Window, board
  <2> QED  BY <2>1, SameVerdicts
<1>3. ASSUME NEW r \in Requests, AssignTask(r) \/ AcceptTask(r) PROVE VerdictInv'
  <2>1. PICK applied \in BOOLEAN : Take(request[r].who, applied)
    BY <1>3 DEF AssignTask, AcceptTask
  <2>2. request[r].who \in Personas
    BY <1>3 DEF AssignTask, AcceptTask, At, Types, Pointers, PointsInto
  <2> QED  BY <2>1, <2>2, TakeVerdicts
<1>4. ASSUME NEW r \in Requests, SubmitTaskResult(r) PROVE VerdictInv'
  <2> DEFINE a == request[r].on
  <2>1. /\ a \in 1 .. Latest /\ Grows /\ OnlyRow(a, assignments')
        /\ assignments'[a].status = "submitted"
        /\ assignments'[a].results = Append(assignments[a].results, "submitted")
    BY <1>4, SubmitEffect
  <2>2. assignments[a].results \in Seq(ResultStatus) /\ LatestResult(a) \in Nat
    BY <2>1, RowTypes DEF Types, TypeOK
  <2>3. \A j \in 1 .. Len(assignments'[a].results) :
            \/ assignments'[a].results[j] \in {"submitted", "disputed"}
            \/ j \in 1 .. LatestResult(a) /\ assignments'[a].results[j] = assignments[a].results[j]
    BY <2>1, <2>2, AppendProperties DEF ResultStatus, LatestResult
  <2>4. UNCHANGED <<task, slips>>
    BY <1>4 DEF SubmitTaskResult
  <2> HIDE DEF a
  <2> QED  BY <2>1, <2>3, <2>4, SilentRow
<1>5. ASSUME NEW r \in Requests, DisputeTask(r) PROVE VerdictInv'
  <2> DEFINE a == request[r].on
  <2>1. /\ a \in 1 .. Latest /\ Grows /\ OnlyRow(a, assignments')
        /\ assignments'[a].status = "disputed"
        /\ \A j \in 1 .. Len(assignments'[a].results) :
            \/ assignments'[a].results[j] \in {"submitted", "disputed"}
            \/ j \in 1 .. LatestResult(a) /\ assignments'[a].results[j] = assignments[a].results[j]
    BY <1>5, DisputeEffect
  <2>2. UNCHANGED <<task, slips>>
    BY <1>5 DEF DisputeTask
  <2> HIDE DEF a
  <2> QED  BY <2>1, <2>2, SilentRow
<1>6. ASSUME NEW r \in Requests, AcceptSubmittedTask(r) PROVE VerdictInv'
  <2>1. /\ request[r].step = "accept" /\ assignments' = Answer(r, "accepted") /\ task.status = "accepted"
        /\ task'.status = "completed" /\ slips \subseteq slips'
        /\ (request[r].on # Latest => "swapped" \in slips')
    BY <1>6 DEF AcceptSubmittedTask, At, ClaimsCompletion, Complete, Slip, Window, Types, TypeOK
  <2> QED  BY <2>1, AnswerVerdicts
<1>7. ASSUME NEW r \in Requests, RejectSubmittedTask(r) PROVE VerdictInv'
  <2>1. /\ request[r].step = "reject" /\ assignments' = Answer(r, "rejected") /\ task.status = "accepted"
        /\ task'.status = "open" /\ slips \subseteq slips'
        /\ (request[r].on # Latest => "swapped" \in slips')
    BY <1>7 DEF RejectSubmittedTask, At, ClaimsReopen, Window
  <2> QED  BY <2>1, AnswerVerdicts
<1>8. ASSUME NEW r \in Requests, NEW amount \in QualityPay, CompleteTask(r, amount) PROVE VerdictInv'
  <2>1. UNCHANGED assignments /\ slips \subseteq slips' /\ task.status = "accepted"
    BY <1>8 DEF CompleteTask, ClaimsCompletion, Window
  <2>2. VerdictClosesRound'
    BY <2>1 DEF VerdictInv, VerdictClosesRound, Says, StatusOf, LatestResult, Latest
  <2>3. UndividedOutcome'
    BY <2>1 DEF VerdictInv, UndividedOutcome, StatusOf, LatestResult, Latest
  <2> QED  BY <2>2, <2>3 DEF VerdictInv
<1>9. CASE UNCHANGED vars
  BY <1>9, SameVerdicts DEF vars, board
<1> QED
  BY <1>1, <1>2, <1>3, <1>4, <1>5, <1>6, <1>7, <1>8, <1>9 DEF Next, Writes

\* No result ends accepted under a rejected assignment or the other way round.
THEOREM OutcomeHolds == Spec => []UndividedOutcome
<1>1. Init => VerdictInv
  BY EmptySeq DEF Init, VerdictInv, VerdictClosesRound, UndividedOutcome, Latest
<1>2. VerdictInv => UndividedOutcome
  BY DEF VerdictInv
<1> QED  BY <1>1, <1>2, VerdictStep, TypesHold, PTL DEF Spec

-----------------------------------------------------------------------------
(* The books of a wallet.                                                   *)

\* A wallet holds what its journal says, and never less than nothing.
BooksAgree == \A p \in Personas : balance[p] = journal[p] /\ balance[p] >= 0

\* The entries of a settlement sum up to the change of the balance.
LEMMA PayKeepsBooks ==
  ASSUME Types, BooksAgree, NEW a, NEW p \in Personas, NEW owner \in 0 .. Reward, Pay(a, p, owner, owner)
  PROVE  BooksAgree'
<1>1. owner \in Nat
  BY MarketplaceAssumption
<1> QED  BY <1>1 DEF Pay, BooksAgree, Types, TypeOK

\* Every handler keeps balance and journal equal and the balance from going below zero.
LEMMA BooksStep == Types /\ BooksAgree /\ [Next]_vars => BooksAgree'
<1> SUFFICES ASSUME Types, BooksAgree, [Next]_vars PROVE BooksAgree'
  OBVIOUS
<1>1. ASSUME NEW r \in Requests, Reads(r) PROVE BooksAgree'
  BY <1>1, ReadsFit DEF money, BooksAgree
<1>2. ASSUME NEW r \in Requests,
             \/ Apply(r) \/ AssignTask(r) \/ AcceptTask(r) \/ SubmitTaskResult(r) \/ AcceptSubmittedTask(r)
             \/ RejectSubmittedTask(r) \/ AnswerTooLate(r) \/ DisputeTask(r) \/ Crash(r)
             \/ \E amount \in QualityPay : CompleteTooLate(r, amount)
      PROVE  BooksAgree'
  <2>1. UNCHANGED money
    BY <1>2 DEF Apply, AssignTask, AcceptTask, SubmitTaskResult, AcceptSubmittedTask,
       RejectSubmittedTask, AnswerTooLate, DisputeTask, CompleteTooLate, Crash
  <2> QED  BY <2>1 DEF money, BooksAgree
<1>3. ASSUME NEW r \in Requests, SettleAccepted(r) \/ \E split \in Splits : SettleByRoute(r, split)
      PROVE  BooksAgree'
  <2>1. request[r].on \in 1 .. Latest
    BY <1>3 DEF SettleAccepted, SettleByRoute, At, Types, Pointers, PointsInto, Latest
  <2>2. PICK split \in Splits \cup {AcceptedSplit} : SettleTaskPayment(request[r].on, split)
    BY <1>3 DEF SettleAccepted, SettleByRoute
  <2>3. CASE UNCHANGED money
    BY <2>3 DEF money, BooksAgree
  <2> QED  BY <2>1, <2>2, <2>3, SettlePays, PayKeepsBooks
<1>4. ASSUME NEW r \in Requests, NEW amount \in QualityPay, CompleteTask(r, amount) PROVE BooksAgree'
  <2>1. CASE UNCHANGED money
    BY <2>1 DEF money, BooksAgree
  <2> QED  BY <1>4, <2>1, CompletePays, PayKeepsBooks
<1>5. ASSUME NEW r \in Requests, NEW k \in PayoutKeys, RequestWalletPayout(r, k) PROVE BooksAgree'
  <2>1. CASE UNCHANGED <<balance, journal>>
    BY <2>1 DEF BooksAgree
  <2>2. ASSUME NEW p \in Personas, balance[p] >= PayoutAmount,
               balance' = [balance EXCEPT ![p] = @ - PayoutAmount],
               journal' = [journal EXCEPT ![p] = @ - PayoutAmount]
        PROVE  BooksAgree'
    BY <2>2, MarketplaceAssumption DEF BooksAgree, Types, TypeOK
  <2> QED  BY <1>5, <2>1, <2>2, PayOutEffect
<1>6. CASE UNCHANGED vars
  BY <1>6 DEF vars, money, BooksAgree
<1> QED
  BY <1>1, <1>2, <1>3, <1>4, <1>5, <1>6 DEF Next, Writes

\* The balance of a wallet is the sum of its journal, for every reward and split.
THEOREM BooksHold == Spec => []BooksAgree
<1>1. Init => BooksAgree
  BY DEF Init, BooksAgree
<1> QED  BY <1>1, BooksStep, TypesHold, PTL DEF Spec

\* No interleaving of payouts takes more than a wallet holds.
THEOREM OverdraftHolds == Spec => []NoOverdraft
<1>1. BooksAgree => NoOverdraft
  BY DEF BooksAgree, NoOverdraft
<1> QED  BY <1>1, BooksHold, PTL
-----------------------------------------------------------------------------
(* The settlements and payouts of a wallet.                                 *)

\* The settlements of a wallet, and the keys of its payouts.
SettledFor(p) == {s \in settlements : s.wallet = p}
KeysOf(p) == {k \in PayoutKeys : payouts[k] = p}

\* A wallet holds its settlements less its payouts, of which there are finitely many.
LedgerInv ==
    /\ BooksAgree /\ IsFiniteSet(settlements)
    /\ \A p \in Personas :
          /\ IsFiniteSet(KeysOf(p))
          /\ balance[p] = OwnerShares(p) - PayoutAmount * Cardinality(KeysOf(p))

\* The shares of a wallet, as a sum over its settlements.
LEMMA SharesAreSums ==
  ASSUME NEW p
  PROVE  OwnerShares(p) = SumFunctionOnSet([s \in SettledFor(p) |-> s.owner], SettledFor(p))
  BY DEF OwnerShares, SettledFor, SumFunction

\* The shares of a wallet sum up to a number.
LEMMA SharesAreInts == ASSUME TypeOK, IsFiniteSet(settlements), NEW p PROVE OwnerShares(p) \in Int
<1> DEFINE f == [s \in SettledFor(p) |-> s.owner]
<1>1. \A s \in SettledFor(p) : f[s] \in Int
  BY MarketplaceAssumption DEF SettledFor, TypeOK
<1>2. IsFiniteSet(SettledFor(p))
  BY FS_Subset DEF SettledFor
<1> HIDE DEF f
<1>3. SumFunctionOnSet(f, SettledFor(p)) \in Int
  BY <1>1, <1>2, SumIsInteger
<1> QED
  BY <1>3, SharesAreSums DEF f

\* A settlement adds the owner's share to its wallet and to no other.
LEMMA SharesGrow ==
  ASSUME TypeOK, IsFiniteSet(settlements), NEW q \in Personas, NEW row, row \notin settlements,
         row.owner \in Int, settlements' = settlements \cup {row}
  PROVE  OwnerShares(q)' = OwnerShares(q) + (IF row.wallet = q THEN row.owner ELSE 0)
<1> DEFINE old == [s \in SettledFor(q) |-> s.owner]
           new == [s \in SettledFor(q)' |-> s.owner]
<1>1. OwnerShares(q) = SumFunctionOnSet(old, SettledFor(q))
  BY SharesAreSums
<1>2. OwnerShares(q)' = SumFunctionOnSet(new, SettledFor(q)')
  BY DEF OwnerShares, SettledFor, SumFunction
<1>3. IsFiniteSet(SettledFor(q)) /\ row \notin SettledFor(q)
  BY FS_Subset DEF SettledFor
<1>4. \A s \in SettledFor(q) : s.owner \in Int
  BY MarketplaceAssumption DEF SettledFor, TypeOK
<1>5. CASE row.wallet = q
  <2>1. SettledFor(q)' = SettledFor(q) \cup {row}
    BY <1>5 DEF SettledFor
  <2>2. (\A s \in SettledFor(q) : new[s] = old[s] /\ old[s] \in Int) /\ new[row] = row.owner
    BY <1>4, <2>1
  <2> HIDE DEF old, new
  <2>3. SumFunctionOnSet(new, SettledFor(q) \cup {row}) = SumFunctionOnSet(old, SettledFor(q)) + new[row]
    BY <1>3, <2>2, SumOneMore
  <2> QED
    BY <1>1, <1>2, <1>5, <2>1, <2>2, <2>3
<1>6. CASE row.wallet # q
  <2>1. SettledFor(q)' = SettledFor(q)
    BY <1>6 DEF SettledFor
  <2>2. new = old
    BY <2>1
  <2>3. SumFunctionOnSet(old, SettledFor(q)) \in Int
    <3>1. \A s \in SettledFor(q) : old[s] \in Int
      BY <1>4
    <3> HIDE DEF old
    <3> QED
      BY <1>3, <3>1, SumIsInteger
  <2> HIDE DEF old, new
  <2> QED
    BY <1>1, <1>2, <1>6, <2>1, <2>2, <2>3
<1> QED
  BY <1>5, <1>6

\* A step that touches neither settlements, payouts nor balances keeps the ledger.
LEMMA LedgerKept ==
  ASSUME LedgerInv, BooksAgree', UNCHANGED <<settlements, payouts, balance>>
  PROVE  LedgerInv'
  BY DEF LedgerInv, KeysOf, OwnerShares

\* A payment adds its settlement to the ledger.
LEMMA PayKeepsLedger ==
  ASSUME Types, LedgerInv, NEW a, NEW p \in Personas, NEW owner \in 0 .. Reward,
         Pay(a, p, owner, owner), ~Settled(a)
  PROVE  LedgerInv'
<1> DEFINE row == [assignment |-> a, wallet |-> p, owner |-> owner]
<1>1. /\ row \notin settlements /\ row.owner = owner /\ row.wallet = p /\ owner \in Int
      /\ settlements' = settlements \cup {row} /\ payouts' = payouts
  BY MarketplaceAssumption DEF Pay, Settled
<1> HIDE DEF row
<1>2. IsFiniteSet(settlements')
  BY <1>1, FS_AddElement DEF LedgerInv
<1>3. \A q \in Personas : OwnerShares(q)' = OwnerShares(q) + (IF p = q THEN owner ELSE 0)
  BY <1>1, SharesGrow DEF LedgerInv, Types
<1>4. \A q \in Personas : balance'[q] = balance[q] + (IF p = q THEN owner ELSE 0)
  BY <1>1 DEF Pay, Types, TypeOK
<1>5. \A q \in Personas : KeysOf(q)' = KeysOf(q) /\ Cardinality(KeysOf(q)) \in Nat
  BY <1>1, FS_CardinalityType DEF KeysOf, LedgerInv
<1>6. \A q \in Personas : balance[q] \in Int /\ PayoutAmount \in Nat
  BY MarketplaceAssumption DEF Types, TypeOK
<1>7. ASSUME NEW q \in Personas
      PROVE  /\ IsFiniteSet(KeysOf(q)')
             /\ balance'[q] = OwnerShares(q)' - PayoutAmount * Cardinality(KeysOf(q)')
  <2>1. PayoutAmount * Cardinality(KeysOf(q)) \in Int /\ OwnerShares(q) \in Int
    <3>1. PayoutAmount * Cardinality(KeysOf(q)) \in Int
      BY <1>5, <1>6
    <3>2. OwnerShares(q) \in Int
      BY SharesAreInts DEF LedgerInv, Types
    <3> QED
      BY <3>1, <3>2
  <2> QED
    BY <1>3, <1>4, <1>5, <1>6, <2>1 DEF LedgerInv
<1>8. BooksAgree'
  BY PayKeepsBooks DEF LedgerInv
<1> QED
  BY <1>2, <1>7, <1>8 DEF LedgerInv

\* A payout takes its amount from the wallet its key is used for.
LEMMA PayOutKeepsLedger ==
  ASSUME Types, LedgerInv, BooksAgree', NEW r \in Requests, NEW k \in PayoutKeys, RequestWalletPayout(r, k)
  PROVE  LedgerInv'
<1>1. PICK p \in Personas : p = request[r].who
  BY DEF RequestWalletPayout, At, Types, Pointers, PointsInto
<1>2. CASE payouts[k] = NoOne /\ Debits(p)
  <2>1. /\ payouts' = [payouts EXCEPT ![k] = p] /\ payouts \in [PayoutKeys -> Personas \cup {NoOne}]
        /\ balance' = [balance EXCEPT ![p] = @ - PayoutAmount] /\ balance \in [Personas -> Int]
        /\ settlements' = settlements
    BY <1>1, <1>2 DEF RequestWalletPayout, Types, TypeOK
  <2>2. PayoutAmount \in Nat /\ NoOne \notin Personas
    BY MarketplaceAssumption
  <2>3. \A q \in Personas : KeysOf(q)' = IF q = p THEN KeysOf(q) \cup {k} ELSE KeysOf(q)
    BY <1>2, <2>1, <2>2 DEF KeysOf
  <2>4. \A q \in Personas : k \notin KeysOf(q) /\ IsFiniteSet(KeysOf(q)) /\ Cardinality(KeysOf(q)) \in Nat
    BY <1>2, <2>2, FS_CardinalityType DEF KeysOf, LedgerInv
  <2>5. \A q \in Personas : IsFiniteSet(KeysOf(q)') /\
          Cardinality(KeysOf(q)') = Cardinality(KeysOf(q)) + (IF q = p THEN 1 ELSE 0)
    BY <2>3, <2>4, FS_AddElement
  <2>6. \A q \in Personas : OwnerShares(q)' = OwnerShares(q)
    BY <2>1 DEF OwnerShares
  <2>7. ASSUME NEW q \in Personas
        PROVE  balance'[q] = OwnerShares(q)' - PayoutAmount * Cardinality(KeysOf(q)')
    <3> DEFINE c == Cardinality(KeysOf(q))
    <3>1. c \in Nat /\ OwnerShares(q) \in Int /\ balance[q] \in Int
      BY <2>1, <2>4, SharesAreInts DEF LedgerInv, Types
    <3>2. balance[q] = OwnerShares(q) - PayoutAmount * c
      BY DEF LedgerInv
    <3>3. CASE q = p
      <4>1. Cardinality(KeysOf(q)') = c + 1 /\ balance'[q] = balance[q] - PayoutAmount
        BY <2>1, <2>5, <3>3
      <4> HIDE DEF c
      <4>2. PayoutAmount * (c + 1) = PayoutAmount * c + PayoutAmount /\ PayoutAmount * c \in Int
        BY <2>2, <3>1
      <4> QED
        BY <2>2, <2>6, <3>1, <3>2, <4>1, <4>2
    <3>4. CASE q # p
      <4>1. Cardinality(KeysOf(q)') = c /\ balance'[q] = balance[q]
        BY <2>1, <2>5, <3>1, <3>4
      <4> HIDE DEF c
      <4> QED
        BY <2>6, <3>2, <4>1
    <3> QED
      BY <3>3, <3>4
  <2> QED
    BY <2>1, <2>5, <2>7 DEF LedgerInv
<1>3. CASE ~(payouts[k] = NoOne /\ Debits(p))
  BY <1>1, <1>3, LedgerKept DEF RequestWalletPayout
<1> QED
  BY <1>2, <1>3

\* Every handler keeps the ledger of every wallet.
LEMMA LedgerStep == Types /\ LedgerInv /\ [Next]_vars => LedgerInv'
<1> SUFFICES ASSUME Types, LedgerInv, [Next]_vars PROVE LedgerInv'
  OBVIOUS
<1>1. BooksAgree'
  BY BooksStep DEF LedgerInv
<1>2. ASSUME UNCHANGED money PROVE LedgerInv'
  BY <1>1, <1>2, LedgerKept DEF money
<1>3. ASSUME NEW r \in Requests, Reads(r) PROVE LedgerInv'
  BY <1>2, <1>3, ReadsFit
<1>4. ASSUME NEW r \in Requests,
             \/ Apply(r) \/ AssignTask(r) \/ AcceptTask(r) \/ SubmitTaskResult(r) \/ AcceptSubmittedTask(r)
             \/ RejectSubmittedTask(r) \/ AnswerTooLate(r) \/ DisputeTask(r) \/ Crash(r)
             \/ \E amount \in QualityPay : CompleteTooLate(r, amount)
      PROVE  LedgerInv'
  <2>1. UNCHANGED money
    BY <1>4 DEF Apply, AssignTask, AcceptTask, SubmitTaskResult, AcceptSubmittedTask,
       RejectSubmittedTask, AnswerTooLate, DisputeTask, CompleteTooLate, Crash
  <2> QED
    BY <1>2, <2>1
<1>5. ASSUME NEW r \in Requests, SettleAccepted(r) \/ \E split \in Splits : SettleByRoute(r, split)
      PROVE  LedgerInv'
  <2>1. request[r].on \in 1 .. Latest
    BY <1>5 DEF SettleAccepted, SettleByRoute, At, Types, Pointers, PointsInto, Latest
  <2>2. PICK split \in Splits \cup {AcceptedSplit} : SettleTaskPayment(request[r].on, split)
    BY <1>5 DEF SettleAccepted, SettleByRoute
  <2> QED
    BY <1>2, <2>1, <2>2, SettlePays, PayKeepsLedger
<1>6. ASSUME NEW r \in Requests, NEW amount \in QualityPay, CompleteTask(r, amount) PROVE LedgerInv'
  BY <1>2, <1>6, CompletePays, PayKeepsLedger
<1>7. ASSUME NEW r \in Requests, NEW k \in PayoutKeys, RequestWalletPayout(r, k) PROVE LedgerInv'
  BY <1>1, <1>7, PayOutKeepsLedger
<1>8. CASE UNCHANGED vars
  BY <1>2, <1>8 DEF vars
<1> QED
  BY <1>3, <1>4, <1>5, <1>6, <1>7, <1>8 DEF Next, Writes

\* Wallets start empty.
LEMMA LedgerStart == Init => LedgerInv
<1> SUFFICES ASSUME Init PROVE LedgerInv
  OBVIOUS
<1>1. BooksAgree /\ IsFiniteSet(settlements)
  BY FS_EmptySet DEF Init, BooksAgree
<1>2. ASSUME NEW p \in Personas
      PROVE  /\ IsFiniteSet(KeysOf(p))
             /\ balance[p] = OwnerShares(p) - PayoutAmount * Cardinality(KeysOf(p))
  <2>1. KeysOf(p) = {} /\ SettledFor(p) = {} /\ PayoutAmount \in Nat
    BY MarketplaceAssumption DEF Init, KeysOf, SettledFor
  <2>2. IsFiniteSet(KeysOf(p)) /\ Cardinality(KeysOf(p)) = 0
    BY <2>1, FS_EmptySet
  <2>3. OwnerShares(p) = 0
    BY <2>1, SharesAreSums, SumOfNothing
  <2> QED
    BY <2>1, <2>2, <2>3 DEF Init
<1> QED
  BY <1>1, <1>2 DEF LedgerInv

\* The three books of every wallet agree and none is overdrawn, for any number of personas,
\* requests, rounds and payouts (settleTaskPayment, completeTask, requestWalletPayout).
THEOREM LedgerHolds == Spec => []LedgerSound
<1>1. LedgerInv => LedgerSound
  BY DEF LedgerInv, BooksAgree, KeysOf, LedgerSound, LedgerBalances, NoOverdraft
<1> QED
  BY <1>1, LedgerStart, LedgerStep, TypesHold, PTL DEF Spec
=============================================================================
