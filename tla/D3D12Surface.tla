---------------------------- MODULE D3D12Surface ----------------------------
(***************************************************************************)
(* A surface of the Direct3D 12 renderer backend                           *)
(* (platform/oui/win/renderer/D3D12RendererBackend.cpp): its window, its   *)
(* swap chain, the textures of the chain's buffers and the mode of the     *)
(* display it has taken.  A transition changes all of them through native  *)
(* calls of which each can fail, and undoes what it has done.              *)
(*                                                                         *)
(* One thread drives the backend, so a public call is one action: it picks *)
(* one of the outcomes that the native calls allow.  Between calls the     *)
(* user resizes, minimizes, restores or closes the window; the window      *)
(* procedure notes it in sWindowEventState and pollSurfaceEvents() acts.   *)
(*                                                                         *)
(* What is drawn, the topology flag, the visibility and the position of a  *)
(* framed window are left out; so is minimizing beyond what it does to     *)
(* WM_SIZE and to the client extent.                                       *)
(***************************************************************************)
EXTENDS Integers

CONSTANTS
  Displays,  \* the displays of the adapter
  Extents,   \* the extents a window or a display mode may have
  MaxFailures  \* bound on the calls that fail because a native call does

VARIABLES
  record,  \* the sSurfaceRecord, its window and its events
  screen,  \* the mode each display is in
  failures,  \* the calls that failed so far
  answer   \* what the last call answered; a success is not told from no call

vars == <<record, screen, failures, answer>>

NoWindow == [style |-> "none", place |-> "", client |-> 0, minimized |-> FALSE]

\* windowed_state, windowed_extent and the restore mode are empty until saved;
\* lost is a history variable: buffers went, and could not be reacquired.
NoSurface ==
  [type |-> "none", open |-> FALSE, window |-> NoWindow, chain |-> 0, textures |-> 0, extent |-> 0,
   mode |-> "none", display |-> "", display_mode |-> 0, windowed_state |-> NoWindow,
   windowed_extent |-> 0, restore_mode |-> 0, extent_changed |-> FALSE, lost |-> FALSE]

NoAnswer == [call |-> "none", ok |-> TRUE, undone |-> TRUE]

Init ==
  /\ record = NoSurface
  /\ screen \in [Displays -> Extents]
  /\ failures = 0 /\ answer = NoAnswer

(***************************************************************************)
(* Outcomes: what a helper leaves, whether it succeeded, and whether no    *)
(* rollback failed on the way (transitionWithRollbackError reports one).   *)
(***************************************************************************)
Done(r) == {[record |-> r, ok |-> TRUE, undone |-> TRUE]}
Fails(r) == {[record |-> r, ok |-> FALSE, undone |-> TRUE]}
NotUndone(r) == {[record |-> r, ok |-> FALSE, undone |-> FALSE]}
AnyOf(outcomes(_), states) == UNION {outcomes(r) : r \in states}

\* The outcomes of native calls that fail.
MayFail(outcomes) == IF failures < MaxFailures THEN outcomes ELSE {}

\* Go on after a success.
Attempt(outcomes, Then(_)) == UNION {IF o.ok THEN Then(o.record) ELSE {o} : o \in outcomes}

\* Undo after a failure: transitionWithRollbackError.
Rollback(outcomes, Undo(_)) ==
  UNION {IF o.ok THEN {o} ELSE {[u EXCEPT !.ok = FALSE, !.undone = o.undone /\ u.ok] : u \in Undo(o.record)}
         : o \in outcomes}

\* The window procedure: WM_SIZE arrives while the window is being changed.
Sized(r, window) ==
  [r EXCEPT !.window = window,
            !.extent_changed = @ \/ (~window.minimized /\ (window.client # r.window.client \/ r.window.minimized))]

(***************************************************************************)
(* Win32WindowTransition.cpp.                                              *)
(***************************************************************************)

\* restoreWin32WindowedState: the styles, the placement, then the framing.
Restore(r, saved) ==
  IF ~r.open THEN Fails(r)
  ELSE Done(Sized(r, saved))
       \union MayFail(AnyOf(Fails, {r, Sized(r, [r.window EXCEPT !.style = saved.style]), Sized(r, saved)}))

\* applyWin32BorderlessWindow: a window that cannot be placed, or does not get
\* its extent, is restored; one whose style cannot be set is not touched.
Borderless(r, saved, place, extent) ==
  LET styled == Sized(r, [r.window EXCEPT !.style = "borderless"])
      Placed(e) == Sized(r, [styled.window EXCEPT !.place = place, !.client = e])
      RestoreIt(x) == Restore(x, saved)
  IN IF ~r.open THEN Fails(r)
     ELSE MayFail(Fails(r) \union Rollback(AnyOf(Fails, {styled} \union {Placed(e) : e \in Extents}), RestoreIt))
          \union (IF r.window.minimized THEN Rollback(Fails(styled), RestoreIt) ELSE Done(Placed(extent)))

\* resizeWin32WindowClient: the extent is verified, and nothing is undone.
ResizeClient(r, extent) ==
  LET To(e) == Sized(r, [r.window EXCEPT !.client = e])
  IN IF ~r.open \/ r.window.minimized THEN Fails(r)
     ELSE Done(To(extent)) \union MayFail(AnyOf(Fails, {To(e) : e \in Extents}))

(***************************************************************************)
(* The swap chain.  The handles of the textures are told apart as 1 and 2; *)
(* 0 stands for no textures.                                               *)
(***************************************************************************)
Fresh(r) == IF r.textures = 1 THEN 2 ELSE 1
Reacquired(r) == [r EXCEPT !.textures = IF @ = 0 THEN Fresh(r) ELSE @]
Lost(r, chain) == [r EXCEPT !.textures = 0, !.chain = chain, !.lost = TRUE]

\* resizeWindowSurfaceBuffers.  It gives the old textures up first.  A chain that
\* was not resized, or could be resized back, gives them again; if the chain does
\* not even describe itself nothing is attempted (:2599).
Rebuild(r, extent, force_rebuild) ==
  IF ~force_rebuild /\ r.extent = extent THEN Done(r)
  ELSE Done([r EXCEPT !.textures = Fresh(r), !.chain = extent, !.extent = extent])
       \union MayFail(AnyOf(Fails, {r, Lost(r, r.chain), Reacquired(r), [Reacquired(r) EXCEPT !.chain = r.extent]})
                      \union AnyOf(NotUndone, {Lost(r, c) : c \in {r.chain, r.extent, extent}}))

(***************************************************************************)
(* Transitions.  After a success the pending resize is taken for done.     *)
(***************************************************************************)
Handled(r) == [r EXCEPT !.extent_changed = FALSE]

\* Mutant: the window keeps the new extent when the buffers do not follow.
Resize_WindowKept(r, extent) ==
  IF r.type # "window" \/ r.mode # "windowed" \/ ~r.open THEN Fails(r)
  ELSE Attempt(Attempt(ResizeClient(r, extent), LAMBDA x : Rebuild(x, extent, FALSE)),
               LAMBDA x : Done(Handled(x)))

\* resizeSurface.
Resize(r, extent) ==
  IF r.type # "window" \/ r.mode # "windowed" THEN Fails(r)
  ELSE IF extent = r.extent THEN Done(r)
  ELSE IF ~r.open THEN Fails(r)
  ELSE LET Undo(x) == Restore(x, r.window)
       IN MayFail(Fails(r))
          \union Attempt(Rollback(Attempt(ResizeClient(r, extent), LAMBDA x : Rebuild(x, extent, FALSE)), Undo),
                         LAMBDA x : Done(Handled(x)))

\* setSurfaceWindowMode to BorderlessFullscreen on a display.
ToBorderless(r, display) ==
  LET extent == screen[display]
      windowed == r.mode = "windowed"
      saved == IF windowed THEN r.window ELSE r.windowed_state
      Back(x) == Borderless(x, saved, r.window.place, x.extent)
      placed == Borderless(r, saved, display, extent)
      moved == IF windowed THEN placed ELSE Rollback(placed, Back)
      rebuilt == Attempt(moved, LAMBDA x : Rollback(Rebuild(x, extent, FALSE),
                                                    LAMBDA y : IF windowed THEN Restore(y, saved) ELSE Back(y)))
  IN IF ~r.open THEN Fails(r)
     ELSE MayFail(Fails(r))
          \union Attempt(rebuilt, LAMBDA x : Done([Handled(x) EXCEPT
                   !.windowed_state = saved, !.windowed_extent = IF windowed THEN r.extent ELSE @,
                   !.mode = "borderless", !.display = display, !.display_mode = 0]))

\* What a return to windowed mode forgets.
Forgotten(r) ==
  [Handled(r) EXCEPT !.mode = "windowed", !.display = "", !.display_mode = 0, !.windowed_state = NoWindow,
                     !.windowed_extent = 0, !.restore_mode = 0]

\* setSurfaceWindowMode to Windowed from BorderlessFullscreen.
FromBorderless(r) ==
  LET Back(x) == Borderless(x, r.windowed_state, r.window.place, x.extent)
      restored == Attempt(Restore(r, r.windowed_state), LAMBDA x : Rebuild(x, r.windowed_extent, FALSE))
  IN IF ~r.open THEN Fails(r)
     ELSE MayFail(Fails(r)) \union Attempt(Rollback(restored, Back), LAMBDA x : Done(Forgotten(x)))

\* What changes the mode of a display also says which screen it leaves.
Leaving(s, outcomes) == {[o EXCEPT !.record = <<@, s>>] : o \in outcomes}

\* Mutant: the display keeps the new mode when the window cannot be placed.
EnterDisplayMode_Kept(r, display, mode) ==
  IF r.mode # "windowed" \/ ~r.open THEN Leaving(screen, Fails(r))
  ELSE Leaving(screen, MayFail(Fails(r)))
       \union Leaving([screen EXCEPT ![display] = mode], {o \in Borderless(r, r.window, display, mode) : ~o.ok})

\* enterDisplayModeFullscreen.
EnterDisplayMode(r, display, mode) ==
  LET changed == [screen EXCEPT ![display] = mode]
      taken == Attempt(Borderless(r, r.window, display, mode),
                       LAMBDA x : Rollback(Rebuild(x, mode, TRUE), LAMBDA y : Restore(y, r.window)))
      Entered(x) == [Handled(x) EXCEPT
                       !.windowed_state = r.window, !.windowed_extent = r.extent, !.mode = "fullscreen",
                       !.display = display, !.display_mode = mode, !.restore_mode = screen[display]]
  IN IF r.mode # "windowed" \/ ~r.open THEN Leaving(screen, Fails(r))
     ELSE Leaving(screen, MayFail(Fails(r)))
          \union UNION {IF o.ok THEN Leaving(changed, Done(Entered(o.record)))
                        ELSE Leaving(screen, {o}) \union Leaving(changed, MayFail({[o EXCEPT !.undone = FALSE]}))
                        : o \in taken}

\* leaveDisplayModeFullscreen: it does not undo what it has done, and keeps what
\* it needs to be called again.
LeaveDisplayMode(r) ==
  LET restored == Attempt(Restore(r, r.windowed_state), LAMBDA x : Rebuild(x, r.windowed_extent, TRUE))
  IN Leaving(screen, MayFail(Fails(r)))
     \union Leaving([screen EXCEPT ![r.display] = r.restore_mode],
                    Attempt(restored, LAMBDA x : Done(Forgotten(x)) \union MayFail(Fails(x))))

\* setSurfaceWindowMode.
SetMode(r, mode, display, display_mode) ==
  IF r.type = "offscreen" THEN Leaving(screen, Fails(r))
  ELSE IF <<mode, display, display_mode>> = <<r.mode, r.display, r.display_mode>> THEN Leaving(screen, Done(r))
  ELSE IF r.type = "direct" THEN Leaving(screen, Fails(r))
  ELSE IF mode = "fullscreen" THEN EnterDisplayMode(r, display, display_mode)
  ELSE IF r.mode = "fullscreen"
  THEN IF mode = "windowed" THEN LeaveDisplayMode(r) ELSE Leaving(screen, Fails(r))
  ELSE Leaving(screen, IF mode = "borderless" THEN ToBorderless(r, display) ELSE FromBorderless(r))

(***************************************************************************)
(* The public calls.                                                       *)
(***************************************************************************)
Answer(call, o) ==
  answer' = IF o.ok /\ call # "shutdown" THEN NoAnswer ELSE [call |-> call, ok |-> o.ok, undone |-> o.undone]

\* A call with one of its outcomes.
Call(call, outcomes) ==
  \E o \in outcomes :
    /\ record' = o.record[1] /\ screen' = o.record[2]
    /\ failures' = IF o.ok \/ failures = MaxFailures THEN failures ELSE failures + 1
    /\ Answer(call, o)

Exists == record.type # "none"

Windowed(extent) ==
  [NoSurface EXCEPT !.type = "window", !.open = TRUE, !.chain = extent, !.textures = 1, !.extent = extent,
     !.mode = "windowed",
     !.window = [style |-> "framed", place |-> "free", client |-> extent, minimized |-> FALSE]]

\* createSurface; one that fails leaves nothing.
CreateOffscreen ==
  /\ ~Exists
  /\ Call("create", Leaving(screen, MayFail(Fails(NoSurface))
                                    \union Done([NoSurface EXCEPT !.type = "offscreen", !.textures = 1])))

CreateWindow ==
  /\ ~Exists
  /\ \E e \in Extents : Call("create", Leaving(screen, MayFail(Fails(NoSurface)) \union Done(Windowed(e))))

\* createDirectDisplaySurface: a window surface that enters the mode of its extent
\* and is destroyed if it cannot.
CreateDirectDisplay ==
  /\ ~Exists
  /\ \E e \in Extents, d \in Displays :
       Call("create", Leaving(screen, MayFail(Fails(NoSurface)))
         \union {[o EXCEPT !.record[1] = IF o.ok THEN [@ EXCEPT !.type = "direct"] ELSE NoSurface] :
                 o \in EnterDisplayMode(Windowed(e), d, e)})

ResizeSurface == Exists /\ \E e \in Extents : Call("resize", Leaving(screen, Resize(record, e)))

SetSurfaceWindowMode ==
  /\ Exists
  /\ \/ Call("leave", SetMode(record, "windowed", "", 0))
     \/ \E d \in Displays : Call("borderless", SetMode(record, "borderless", d, 0))
     \/ \E d \in Displays, m \in Extents : Call("enter", SetMode(record, "fullscreen", d, m))

\* pollSurfaceEvents: the chain follows a window the user has resized.
PollSurfaceEvents ==
  /\ Exists /\ record.type # "offscreen"
  /\ LET r == Handled(record)
     IN Call("poll", Leaving(screen,
          IF /\ record.extent_changed /\ r.type = "window" /\ r.mode = "windowed" /\ ~r.window.minimized
          THEN Rollback(Rebuild(r, r.window.client, FALSE), LAMBDA x : ResizeClient(x, r.extent))
          ELSE Done(r)))

\* destroySurface: a display that is not given back keeps its surface.
DestroySurface ==
  /\ Exists
  /\ Call("destroy", {IF o.ok THEN [o EXCEPT !.record[1] = NoSurface] ELSE o :
                      o \in IF record.mode = "fullscreen" THEN LeaveDisplayMode(record)
                            ELSE Leaving(screen, Done(record))})

\* shutdown: it goes on whatever the display answers.
Shutdown ==
  /\ Exists
  /\ Call("shutdown", {[o EXCEPT !.record[1] = NoSurface, !.ok = TRUE, !.undone = TRUE] :
                       o \in IF record.mode = "fullscreen" THEN LeaveDisplayMode(record)
                             ELSE Leaving(screen, Done(record))})

(***************************************************************************)
(* The user and other programs, between calls: messages sent to the window *)
(* reach its procedure whenever the thread takes any of its messages.      *)
(***************************************************************************)
User(r) == record' = r /\ answer' = NoAnswer /\ UNCHANGED <<screen, failures>>

UserSizes ==
  /\ record.open
  /\ \E e \in Extents : User(Sized(record, [record.window EXCEPT !.client = e, !.minimized = FALSE]))

UserMinimizes == record.open /\ User([record EXCEPT !.window.minimized = TRUE])

\* WM_CLOSE.
UserCloses == record.open /\ User([record EXCEPT !.open = FALSE])

Next ==
  \/ CreateOffscreen \/ CreateWindow \/ CreateDirectDisplay
  \/ ResizeSurface \/ SetSurfaceWindowMode \/ PollSurfaceEvents \/ DestroySurface \/ Shutdown
  \/ UserSizes \/ UserMinimizes \/ UserCloses

Spec == Init /\ [][Next]_vars

-----------------------------------------------------------------------------
(***************************************************************************)
(* Properties.                                                             *)
(***************************************************************************)
\* A call that fails without reporting a failed rollback has changed neither what
\* the surface says of itself nor its mode; its window has the style, place and
\* extent it had, or those of its mode and description, and its old textures are
\* back (OuiRenderer.md:304-305 "Native-transition or buffer-rebuild failures trigger
\* rollback, and a rollback failure is exposed").  Not held to it: the textures
\* if the chain cannot describe itself (:2599), and a return from a display mode,
\* which stays half done and is tried again.
Described(r) == <<r.type, r.extent, r.mode, r.display, r.display_mode, r.windowed_state, r.windowed_extent>>
StyleOf(mode) == IF mode = "windowed" THEN "framed" ELSE "borderless"
Undone ==
  [][ /\ answer'.call \in {"resize", "borderless", "leave", "enter", "poll"} /\ ~answer'.ok /\ answer'.undone
      /\ ~(answer'.call = "leave" /\ record.mode = "fullscreen")
      => /\ Described(record') = Described(record)
         /\ record'.window.style \in {record.window.style, StyleOf(record.mode)}
         /\ record'.window.place = record.window.place
         /\ record'.window.client \in {record.window.client, record.extent}
         /\ record.textures # 0 => record'.textures \in {record.textures, 0}]_vars

\* The mode of a display changes when a surface takes it, which then knows the mode
\* to restore, or gives it back; a surface does not go, or become windowed, before
\* it has (OuiRenderer.md:307-308).  But for a rollback that failed and was
\* reported, and for shutdown, which has nobody to report to (:1198).
Has(r, d) == r.mode = "fullscreen" /\ r.display = d
DisplayHeld ==
  [][\A d \in Displays :
       /\ screen'[d] # screen[d] => \/ Has(record', d) /\ record'.restore_mode = screen[d]
                                    \/ Has(record, d) /\ record.restore_mode = screen'[d]
                                    \/ ~answer'.undone
       /\ Has(record, d) /\ ~Has(record', d) => record.restore_mode = screen'[d] \/ answer'.call = "shutdown"]_vars

\* The textures of a surface are what its chain holds and what it describes, as
\* long as no rebuild has lost them; a surface that is not windowed knows how to
\* be.
BuffersMatch ==
  /\ record.textures # 0 /\ ~record.lost => record.chain = record.extent
  /\ record.mode \in {"borderless", "fullscreen"} => record.windowed_state # NoWindow /\ record.windowed_extent # 0

\* A windowed surface whose window has another extent than its buffers will be told
\* (OuiRenderer.md:306 "Windows reports interactive frame resize, close, and
\* display-topology changes through pollSurfaceEvents()").
ResizesReported ==
  record.type = "window" /\ record.mode = "windowed" /\ record.open /\ ~record.window.minimized
    => record.extent_changed \/ record.window.client = record.extent
=============================================================================
