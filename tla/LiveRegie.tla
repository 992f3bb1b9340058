------------------------------ MODULE LiveRegie ------------------------------
(***************************************************************************)
(* The regie and the projection page at work on the projection state:      *)
(* navigation in the plan (components/layout/LiveBar.tsx, the arrow keys   *)
(* of pages/ProjectionPage.tsx), the start of the plan and of the free     *)
(* mode (Header.tsx, LiveContext.tsx), the blocks of a song                *)
(* (SongDetailPanel.tsx) and the projection of an item or of a block on    *)
(* the target screen (lib/projection.ts, lib/liveProjection.ts,            *)
(* projection/target.ts).                                                  *)
(*                                                                         *)
(* A window sends its requests to the main process in order, the main      *)
(* process answers in order and sends its live updates on the same way; a  *)
(* job (an operation under way) has one request out.  Two requests are     *)
(* slow: they wait for the disk, and their answers come when they come.    *)
(***************************************************************************)
EXTENDS ScreenState, Sequences

CONSTANTS
    NoJob,
    PlanItems,     \* the items of the plan, which is selected in the regie
    ThePlan,       \* its identifier
    Blocks,        \* the blocks of the song whose panel is open
    MaxPresses     \* bound on the operations and on what others do meanwhile

VARIABLES
    cache,        \* the live state as each window last heard of it
    up, down,     \* the requests to the main process, and what it sent
    job,
    blockCursor,  \* the cursor of the song panel, 0 for none
    presses, others,
    shows         \* history: what the last undisturbed operation shows

regieVars == <<cache, up, down, job, blockCursor, presses, others, shows>>

Clients == {"regie", "page"}

NoReply == [mirror |-> FREE, open |-> FALSE]

\* The sessions that a behaviour begins with: the one at the start of the
\* program, and those that one or two commands lead to.
Sessions ==
    {createDefaultLiveState} \cup
    {[createDefaultLiveState EXCEPT !.enabled = TRUE, !.planId = p, !.target = k, !.black = black] :
        p \in {ThePlan, Null}, k \in Screens, black \in BOOLEAN}

RegieInit ==
    /\ liveState \in Sessions
    /\ mirrors \in {m \in [Screens -> Screens \cup {FREE}] :
                     m[MainScreen] = FREE /\ \A k \in Screens \ {MainScreen} : m[k] \in MirrorChoices[k]}
    /\ screenStates = [k \in Screens |->
                         [createDefaultProjectionState EXCEPT
                            !.mode = IF liveState.target \in {k, mirrors[k]} /\ mirrors[liveState.target] = FREE
                                     THEN LiveMode(liveState) ELSE "NORMAL"]]
    /\ projWins = [k \in Screens |-> "closed"]
    /\ view = [k \in Screens |-> createDefaultProjectionState]
    /\ cache = [w \in Clients |-> liveState]
    /\ up = [w \in Clients |-> <<>>] /\ down = [w \in Clients |-> <<>>]
    /\ job = [t \in 1..MaxPresses |-> NoJob]
    /\ blockCursor = 0
    /\ presses = 0 /\ others = 0
    /\ shows = "nothing"

Running == {t \in 1..MaxPresses : job[t] # NoJob}

Clamp(i, n) == IF i > n THEN n ELSE IF i < 1 THEN 1 ELSE i

-----------------------------------------------------------------------------
(***************************************************************************)
(* The operations.  A job keeps the live state of the render in which it   *)
(* began.  shows becomes "item" or "block" with an operation that begins   *)
(* when nothing is under way and the windows have heard of the last live   *)
(* state.  Blocks may follow each other without waiting while the window   *)
(* of the target is open: one that has to open it would be overtaken by    *)
(* the next.  After "lone", a window or a mirror changed during a block,   *)
(* none may follow before that block is shown.                             *)
(***************************************************************************)
newJob(w, op, pc, arg) ==
    [w |-> w, op |-> op, pc |-> pc, arg |-> arg, live |-> cache[w], content |-> EMPTY,
     reply |-> NoReply]

Heard == \A w \in Clients : \A i \in 1..Len(down[w]) : down[w][i].kind # "live"

\* The window of screen A is opened for every projection, so in the same order.
TargetOpen == liveState.target = MainScreen \/ projWins[liveState.target] # "closed"

Lone == IF shows = "block" THEN "lone" ELSE shows

Launch(t, j, what) ==
    /\ job' = [job EXCEPT ![t] = j]
    /\ up' = IF j = NoJob THEN up ELSE [up EXCEPT ![j.w] = Append(@, t)]
    /\ shows' = IF Running = {} /\ Heard THEN what
                ELSE IF what = "block" /\ shows = "block" /\ TargetOpen THEN "block" ELSE "nothing"
    /\ UNCHANGED <<vars, cache, others>>

Press(j, what) ==
    /\ presses + others < MaxPresses
    /\ presses' = presses + 1
    /\ Launch(presses + 1, j, what)

\* projectPlanItemToTarget with the live state of the job: the media file is
\* looked for, or the screens are listed.
projectPlanItemToTarget(j) ==
    IF j.live.lockedScreens[j.live.target] THEN NoJob
    ELSE [j EXCEPT !.pc = IF j.content \in Medias THEN "exists" ELSE "list"]

ItemAfter(live, dir) == PlanItems[Clamp(live.cursor + dir + 1, Len(PlanItems))]

\* LiveBar.handleNavigate: the item is computed from the cached cursor, the
\* cursor itself moves in the main process.
handleNavigate(dir) ==
    /\ cache["regie"].enabled
    /\ Press([newJob("regie", "item", "move", dir) EXCEPT !.content = ItemAfter(cache["regie"], dir)],
             "item")
    /\ UNCHANGED <<down, blockCursor>>

handleItemClick(i) ==
    /\ cache["regie"].enabled
    /\ Press([newJob("regie", "item", "setCursor", i - 1) EXCEPT !.content = PlanItems[i]], "item")
    /\ UNCHANGED <<down, blockCursor>>

\* A card of the plan editor: the cursor stays where it is.
handleClick(i) ==
    /\ Press(projectPlanItemToTarget([newJob("regie", "item", "list", 0) EXCEPT
                                        !.content = PlanItems[i]]), "nothing")
    /\ UNCHANGED <<down, blockCursor>>

\* Header: the plan is started with its first item, on the target of the reply.
handlePlanModeToggle ==
    /\ ~(cache["regie"].enabled /\ cache["regie"].planId # Null)
    /\ Press([newJob("regie", "item", "start", 0) EXCEPT !.content = PlanItems[1]], "item")
    /\ UNCHANGED <<down, blockCursor>>

\* The arrow keys of a projection window in plan mode ...
onKeyDown(dir) ==
    /\ cache["page"].enabled /\ cache["page"].planId # Null
    /\ Press(newJob("page", "item", "get", dir), "item")
    /\ UNCHANGED <<down, blockCursor>>

\* ... and in free mode, where they go to the regie.
freeNavigate(dir) ==
    /\ cache["page"].enabled /\ cache["page"].planId = Null
    /\ presses + others < MaxPresses
    /\ presses' = presses + 1
    /\ down' = [down EXCEPT !["regie"] = Append(@, [kind |-> "press", job |-> presses + 1, dir |-> dir])]
    /\ UNCHANGED <<vars, cache, up, job, blockCursor, others, shows>>

shouldResetForFreeProjection_PlanOnly(live) == live.enabled /\ live.planId # Null

shouldResetForFreeProjection(live) ==
    live.enabled /\ (live.planId # Null \/ live.black \/ live.white)

block(i, live) ==
    projectPlanItemToTarget([newJob("regie", "block", "list", 0) EXCEPT
                               !.content = Blocks[i], !.live = live])

\* ensureReadyForFreeProjection sends live:set and waits for the reply, or goes
\* on at once: then the cursor of the panel moves at once.
handleBlockCursorMove(t, dir) ==
    LET live == cache["regie"]
        next == Clamp(blockCursor + dir, Len(Blocks))
    IN  IF shouldResetForFreeProjection(live)
        THEN Launch(t, newJob("regie", "block", "ready", dir), "block") /\ UNCHANGED blockCursor
        ELSE Launch(t, block(next, live), "block") /\ blockCursor' = next

\* The keys of the panel, which it registers while the session is enabled.
onPanelKey(dir) ==
    /\ cache["regie"].enabled
    /\ presses + others < MaxPresses
    /\ presses' = presses + 1
    /\ handleBlockCursorMove(presses + 1, dir)
    /\ UNCHANGED down

handleProjectBlock(i) ==
    LET live == cache["regie"]
    IN  /\ live.enabled
        /\ IF shouldResetForFreeProjection(live)
           THEN Press(newJob("regie", "click", "ready", i), "block") /\ UNCHANGED blockCursor
           ELSE Press(block(i, live), "block") /\ blockCursor' = i
        /\ UNCHANGED down

-----------------------------------------------------------------------------
(***************************************************************************)
(* The main process takes the first request of a window.                   *)
(***************************************************************************)
Reply(t, live) == [kind |-> "reply", job |-> t, live |-> live]

Update == [kind |-> "live", live |-> liveState']

Broadcast_RegieOnly == [w \in Clients |-> IF w = "regie" THEN Append(down[w], Update) ELSE down[w]]

Broadcast == [w \in Clients |-> Append(down[w], Update)]

readyPatch(live) ==
    IF live.planId = Null
    THEN [NoPatch EXCEPT !.enabled = TRUE, !.black = FALSE, !.white = FALSE]
    ELSE [NoPatch EXCEPT !.enabled = TRUE, !.black = FALSE, !.white = FALSE,
                         !.planId = Null, !.cursor = 0]

startPatch == [NoPatch EXCEPT !.planId = ThePlan, !.enabled = TRUE, !.cursor = 0]

serveLive(w, t) ==
    LET j == job[t]
    IN  /\ \/ j.pc = "move" /\ j.arg = 1 /\ liveNext
           \/ j.pc = "move" /\ j.arg = -1 /\ livePrev
           \/ j.pc = "setCursor" /\ liveSetCursor(j.arg)
           \/ j.pc = "ready" /\ liveSet(readyPatch(j.live))
           \/ j.pc = "start" /\ liveSet(startPatch)
        /\ down' = [Broadcast EXCEPT ![w] = Append(@, Reply(t, liveState'))]
        /\ UNCHANGED job

\* screens:list and screens:open of the target, and the two writes.
serveScreen(w, t) ==
    LET j == job[t]
        target == j.live.target
    IN  /\ \/ /\ j.pc \in {"list", "relist"}
              /\ job' = [job EXCEPT ![t].reply = [mirror |-> mirrors[target],
                                                  open |-> projWins[target] # "closed"]]
              /\ UNCHANGED vars
           \/ /\ j.pc = "open"
              /\ IF projWins[target] = "closed" THEN createScreenWindow(target) ELSE UNCHANGED vars
              /\ UNCHANGED job
           \/ /\ j.pc \in {"write", "rewrite"}
              /\ IF guardScreen(j.arg)
                 THEN IF j.content \in Medias THEN setContentMedia(j.arg, j.content)
                                              ELSE setContentText(j.arg, j.content)
                 ELSE UNCHANGED vars
              /\ job' = [job EXCEPT ![t].reply.mirror = mirrors[j.arg]]
        /\ down' = [down EXCEPT ![w] = Append(@, Reply(t, liveState'))]

serve(w) ==
    /\ up[w] # <<>>
    /\ job[Head(up[w])].pc \notin {"get", "exists"}
    /\ serveLive(w, Head(up[w])) \/ serveScreen(w, Head(up[w]))
    /\ up' = [up EXCEPT ![w] = Tail(@)]
    /\ UNCHANGED <<cache, blockCursor, presses, others, shows>>

\* plans:get and files:existsMedia wait for the database and the disk.
serveSlow(w) ==
    /\ \E i \in 1..Len(up[w]) :
          LET t == up[w][i]
          IN  /\ job[t].pc \in {"get", "exists"}
              /\ down' = [down EXCEPT ![w] = Append(@, Reply(t, liveState))]
              /\ up' = [up EXCEPT ![w] = SubSeq(@, 1, i - 1) \o SubSeq(@, i + 1, Len(@))]
    /\ UNCHANGED <<vars, cache, job, blockCursor, presses, others, shows>>

-----------------------------------------------------------------------------
(***************************************************************************)
(* A window takes the first message from the main process.                 *)
(***************************************************************************)
Send(t, j) ==
    /\ job' = [job EXCEPT ![t] = j]
    /\ up' = IF j = NoJob THEN up ELSE [up EXCEPT ![j.w] = Append(@, t)]

resolveProjectionDestination(target, mirror) ==
    IF target # MainScreen /\ mirror # FREE THEN mirror ELSE target

\* After screens:list: open the window when it has to be, then write.
AfterList(j) ==
    IF j.live.target = MainScreen \/ ~j.reply.open
    THEN [j EXCEPT !.pc = "open"]
    ELSE [j EXCEPT !.pc = "write",
                   !.arg = resolveProjectionDestination(j.live.target, j.reply.mirror)]

\* A screen that became a mirror since screens:list refuses the write: the
\* content goes to the screen that it mirrors.
AfterWrite(j) ==
    IF j.arg = MainScreen \/ j.reply.mirror = FREE THEN NoJob ELSE [j EXCEPT !.pc = "relist"]

Continued(j, live) ==
    CASE j.pc \in {"move", "setCursor"} -> projectPlanItemToTarget(j)
      [] j.pc = "start" -> projectPlanItemToTarget([j EXCEPT !.live = live])
      [] j.pc = "get" -> [j EXCEPT !.pc = "move", !.content = ItemAfter(j.live, j.arg)]
      [] j.pc = "exists" -> [j EXCEPT !.pc = "list"]
      [] j.pc = "list" -> AfterList(j)
      [] j.pc = "open" -> [j EXCEPT !.pc = "write",
                             !.arg = resolveProjectionDestination(j.live.target, j.reply.mirror)]
      [] j.pc = "write" -> AfterWrite(j)
      [] j.pc = "relist" -> [j EXCEPT !.pc = "rewrite",
                               !.arg = resolveProjectionDestination(j.live.target, j.reply.mirror)]
      [] j.pc = "rewrite" -> NoJob

\* The reply of live:set: the cursor of the panel is read and moved now.
continueBlock(t, j, live) ==
    LET next == IF j.op = "click" THEN j.arg ELSE Clamp(blockCursor + j.arg, Len(Blocks))
    IN  /\ blockCursor' = next
        /\ Send(t, block(next, live))

receive(w) ==
    /\ down[w] # <<>>
    /\ LET m == Head(down[w])
       IN  \/ /\ m.kind = "live"
              /\ cache' = [cache EXCEPT ![w] = m.live]
              /\ UNCHANGED <<up, job, blockCursor, shows>>
           \/ /\ m.kind = "reply"
              /\ LET j == job[m.job]
                 IN  IF j.pc = "ready" THEN continueBlock(m.job, j, m.live)
                     ELSE Send(m.job, Continued(j, m.live)) /\ UNCHANGED blockCursor
              /\ UNCHANGED <<cache, shows>>
    /\ down' = [down EXCEPT ![w] = Tail(@)]
    /\ UNCHANGED <<vars, presses, others>>

\* The file is gone: a message, and nothing is projected.
mediaMissing(w) ==
    /\ down[w] # <<>> /\ Head(down[w]).kind = "reply"
    /\ job[Head(down[w]).job].pc = "exists"
    /\ Send(Head(down[w]).job, NoJob)
    /\ shows' = "nothing"
    /\ down' = [down EXCEPT ![w] = Tail(@)]
    /\ UNCHANGED <<vars, cache, blockCursor, presses, others>>

\* A key that the projection page forwarded.
onFreeNavigate ==
    /\ down["regie"] # <<>> /\ Head(down["regie"]).kind = "press"
    /\ IF cache["regie"].enabled
       THEN handleBlockCursorMove(Head(down["regie"]).job, Head(down["regie"]).dir)
       ELSE UNCHANGED <<vars, cache, up, job, blockCursor, others, shows>>
    /\ down' = [down EXCEPT !["regie"] = Tail(@)]
    /\ UNCHANGED presses

-----------------------------------------------------------------------------
(***************************************************************************)
(* What others do meanwhile: the rest of the live bar, the remote control, *)
(* the automatic advance and the timer's blanking, the locks and mirrors   *)
(* of the settings.                                                        *)
(***************************************************************************)
\* The shortcuts and buttons of the live bar; a shortcut may choose a locked target.
liveBarCommand ==
    \/ liveToggle \/ liveToggleBlack \/ liveToggleWhite \/ liveResume
    \/ \E k \in Screens : liveSetTarget(k)

\* The automatic advance of the live bar moves the cursor alone.
autoAdvance == liveNext

\* The pill of a screen, which is disabled while the screen is locked; a window that
\* is closed was opened before (handleToggleWindow).
handlePillClick(k) == ~cache["regie"].lockedScreens[k] /\ liveSetTarget(k)

otherCommand ==
    /\ presses + others < MaxPresses /\ others' = others + 1
    /\ \/ liveBarCommand \/ autoAdvance
       \/ \E k \in Screens : handlePillClick(k) \/ liveSetLocked(k, ~liveState.lockedScreens[k])
       \/ liveSet([NoPatch EXCEPT !.planId = Null, !.enabled = TRUE, !.cursor = 0,
                                  !.black = FALSE, !.white = FALSE])
    /\ down' = Broadcast
    /\ shows' = "nothing"
    /\ UNCHANGED <<cache, up, job, blockCursor, presses>>

\* A window is opened or closed, also in the middle of an operation.
handleToggleWindow(k) ==
    /\ presses + others < MaxPresses /\ others' = others + 1
    /\ createScreenWindow(k) \/ windowClosed(k)
    /\ shows' = CASE Running = {} -> shows
                  [] \E t \in Running : Running = {t} -> Lone
                  [] OTHER -> "nothing"
    /\ UNCHANGED <<cache, up, down, job, blockCursor, presses>>

\* A screen may become a mirror while a lone job has still to write to it.
otherMirror ==
    /\ presses + others < MaxPresses /\ others' = others + 1
    /\ \E k \in Screens : \E mirror \in MirrorChoices[k] :
          /\ setMirror(k, mirror)
          /\ shows' = IF mirror # FREE /\ \E t \in Running :
                              /\ Running = {t}
                              /\ job[t].pc \notin {"write", "rewrite"} \/ up[job[t].w] # <<>>
                      THEN Lone ELSE "nothing"
    /\ UNCHANGED <<cache, up, down, job, blockCursor, presses>>

LiveRegieStep ==
    \/ \E dir \in {1, -1} : handleNavigate(dir) \/ onKeyDown(dir) \/ freeNavigate(dir) \/ onPanelKey(dir)
    \/ \E i \in 1..Len(PlanItems) : handleItemClick(i) \/ handleClick(i)
    \/ \E i \in 1..Len(Blocks) : handleProjectBlock(i)
    \/ handlePlanModeToggle
    \/ \E w \in Clients : serve(w) \/ serveSlow(w) \/ receive(w) \/ mediaMissing(w)
    \/ onFreeNavigate
    \/ otherCommand \/ otherMirror
    \/ \E k \in Screens : handleToggleWindow(k)

-----------------------------------------------------------------------------
(* Properties *)

Settled == Running = {} /\ \A w \in Clients : up[w] = <<>> /\ down[w] = <<>>

Writable(k) ==
    LET source == IF mirrors[k] = FREE THEN k ELSE mirrors[k]
    IN  ~liveState.lockedScreens[k] /\ ~liveState.lockedScreens[source]

\* An operation on the plan (a key in the regie or in a projection window, a
\* click in the live bar, the start of the plan) that nothing disturbs leaves
\* on the target, visible, the item under the cursor of the session: although
\* the cursor is moved by the main process and the item chosen from the window's
\* copy, the cursor runs past the end of the plan, and the target may become a
\* mirror on the way.
ItemShown ==
    Settled /\ shows = "item" /\ Writable(liveState.target) =>
        /\ screenStates[liveState.target].mode = "NORMAL"
        /\ screenStates[liveState.target].current = PlanItems[Clamp(liveState.cursor + 1, Len(PlanItems))]

\* However quickly the keys and buttons of a song follow each other while the
\* target is open, and in whatever mode the session was, the block shown is in the
\* end the one that the panel marks, and the session is free and not blanked.
BlockShown ==
    Settled /\ shows \in {"block", "lone"} /\ Writable(liveState.target) =>
        /\ screenStates[liveState.target].mode = "NORMAL"
        /\ screenStates[liveState.target].current = Blocks[blockCursor]
        /\ liveState.planId = Null /\ ~liveState.black /\ ~liveState.white

\* Each window ends up with the live state of the main process, whoever changed it.
CachesCurrent == \A w \in Clients : down[w] = <<>> => cache[w] = liveState

\* What the operator did last is what the target shows (LiveBar.tsx, Header.tsx,
\* SongDetailPanel.tsx, ProjectionPage.tsx): an item of the plan or a block of a
\* song, chosen in a window whose copy of the session may be old.
OperationShown == ItemShown /\ BlockShown
=============================================================================
