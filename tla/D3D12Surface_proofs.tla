------------------------ MODULE D3D12Surface_proofs -------------------------
(***************************************************************************)
(* A Direct3D 12 surface undoes what fails, and gives back the display it  *)
(* took, for any displays, extents and number of failures.                 *)
(*                                                                         *)
(* The inductive invariant is small, IInv: the record is Consistent.  The  *)
(* work is in the outcomes.  A transition is built from helpers that each  *)
(* return the set of what their native calls can leave, so a lemma per     *)
(* helper says what any of its outcomes keeps (...Outcomes), a lemma per   *)
(* transition what the surface is after it (...Sound, in terms of Sound),  *)
(* one per call what it does to the displays as well (...Safe, in terms of *)
(* Safe), and CallKeeps turns that into a step.                            *)
(***************************************************************************)
EXTENDS D3D12Surface, TLAPS

\* The values of a record: places, windows, extents (0 for none), displays.
Places == {"free", ""} \cup Displays
Windows == [style : {"framed", "borderless"}, place : Places, client : Extents, minimized : BOOLEAN]
Sizes == Extents \cup {0}
Names == Displays \cup {""}
Records ==
  [type : {"none", "offscreen", "window", "direct"}, open : BOOLEAN, window : Windows \cup {NoWindow},
   chain : Sizes, textures : {0, 1, 2}, extent : Sizes,
   mode : {"none", "windowed", "borderless", "fullscreen"}, display : Names, display_mode : Sizes,
   windowed_state : Windows \cup {NoWindow}, windowed_extent : Sizes, restore_mode : Sizes,
   extent_changed : BOOLEAN, lost : BOOLEAN]

\* What a helper answers.
Outcomes == [record : Records, ok : BOOLEAN, undone : BOOLEAN]

\* The chain has the extent described, unless a rebuild has lost the buffers.
Buffered(r) == ~r.lost => r.chain = r.extent

\* A surface with a window.
Ready(r) == r \in Records /\ r.window \in Windows /\ r.extent \in Extents /\ Buffered(r)

\* What no helper changes, and what those change that rebuild the buffers.
Kept(r, x) ==
  /\ x.type = r.type /\ x.open = r.open /\ x.mode = r.mode /\ x.display = r.display
  /\ x.display_mode = r.display_mode /\ x.windowed_state = r.windowed_state
  /\ x.windowed_extent = r.windowed_extent /\ x.restore_mode = r.restore_mode
Buffers(r, x) == x.chain = r.chain /\ x.textures = r.textures /\ x.extent = r.extent /\ x.lost = r.lost

\* A display is a name; there is also the name of none.
LEMMA DisplayNames == Displays \subseteq Names
BY DEF Names

\* Whatever the window procedure notes, only the window and the event change.
LEMMA SizedKeeps ==
  ASSUME NEW r, Ready(r), NEW w \in Windows
  PROVE  Ready(Sized(r, w)) /\ Kept(r, Sized(r, w)) /\ Buffers(r, Sized(r, w)) /\ Sized(r, w).window = w
<1> DEFINE changed == r.extent_changed \/ (~w.minimized /\ (w.client # r.window.client \/ r.window.minimized))
<1>1. changed \in BOOLEAN
  BY DEF Ready, Records
<1>2. Sized(r, w) = [r EXCEPT !.window = w, !.extent_changed = changed]
  BY DEF Sized
<1> HIDE DEF changed
<1> DEFINE s == Sized(r, w)
<1>3. s \in Records /\ s.window = w /\ Kept(r, s) /\ Buffers(r, s)
  BY <1>1, <1>2 DEF Ready, Records, Kept, Buffers
<1> HIDE DEF s
<1>4. Ready(s)
  BY <1>3 DEF Ready, Buffered, Buffers
<1> QED BY <1>3, <1>4 DEF s

\* The outcomes of a single state.
LEMMA OutcomeOf ==
  ASSUME NEW r \in Records
  PROVE  /\ \A o \in Done(r) : o \in Outcomes /\ o.record = r /\ o.ok = TRUE /\ o.undone = TRUE
         /\ \A o \in Fails(r) : o \in Outcomes /\ o.record = r /\ o.ok = FALSE /\ o.undone = TRUE
         /\ \A o \in NotUndone(r) : o \in Outcomes /\ o.record = r /\ o.ok = FALSE /\ o.undone = FALSE
BY DEF Done, Fails, NotUndone, Outcomes

\* What the helpers that change the window leave.
ByWindow(r, o) == o \in Outcomes /\ Ready(o.record) /\ Kept(r, o.record) /\ Buffers(r, o.record)
AfterRestore(r, saved, o) == ByWindow(r, o) /\ o.undone = TRUE /\ (o.ok => o.record.window = saved)
AfterBorderless(r, saved, place, extent, o) ==
  /\ ByWindow(r, o)
  /\ o.ok => /\ o.record.window.style = "borderless" /\ o.record.window.place = place
             /\ o.record.window.client = extent
  /\ ~o.ok /\ o.undone => o.record = r \/ o.record.window = saved
AfterResizeClient(r, extent, o) ==
  /\ ByWindow(r, o) /\ o.undone = TRUE
  /\ o.record.window.style = r.window.style /\ o.record.window.place = r.window.place
  /\ o.ok => o.record.window.client = extent

\* And what a rebuild does.
AfterRebuild(r, extent, o) ==
  /\ o \in Outcomes /\ Ready(o.record) /\ Kept(r, o.record) /\ o.record.window = r.window
  /\ o.ok => o.record.extent = extent /\ o.undone
  /\ ~o.ok => o.record.extent = r.extent
  /\ ~o.ok /\ r.textures # 0 => o.record.textures \in {r.textures, 0}

\* restoreWin32WindowedState changes only the window, and succeeds with the saved one.
LEMMA RestoreOutcomes ==
  ASSUME NEW r, Ready(r), NEW saved \in Windows, NEW o \in Restore(r, saved)
  PROVE  AfterRestore(r, saved, o)
<1> USE DEF AfterRestore, ByWindow
<1> DEFINE styled == [r.window EXCEPT !.style = saved.style]
           ends == {r, Sized(r, styled), Sized(r, saved)}
<1>1. styled \in Windows
  BY DEF Ready, Windows
<1> HIDE DEF styled
<1>2. \A x \in ends : Ready(x) /\ Kept(r, x) /\ Buffers(r, x) /\ x \in Records
  BY <1>1, SizedKeeps DEF Kept, Buffers, Ready
<1>3. Sized(r, saved) \in ends /\ r \in ends /\ Sized(r, saved).window = saved
  BY SizedKeeps
<1>4. \/ o \in Done(Sized(r, saved))
      \/ \E x \in ends : o \in Fails(x)
  BY DEF Restore, MayFail, AnyOf, styled
<1> HIDE DEF ends
<1>5. CASE o \in Done(Sized(r, saved))
  <2>1. Sized(r, saved) \in Records
    BY <1>2, <1>3
  <2>2. o \in Outcomes /\ o.record = Sized(r, saved) /\ o.undone = TRUE
    BY <1>5, <2>1, OutcomeOf
  <2> QED BY <1>2, <1>3, <2>2
<1>6. CASE \E x \in ends : o \in Fails(x)
  <2>1. PICK x \in ends : o \in Fails(x)
    BY <1>6
  <2>2. o \in Outcomes /\ o.record = x /\ o.ok = FALSE /\ o.undone = TRUE
    BY <1>2, <2>1, OutcomeOf
  <2> QED BY <1>2, <2>1, <2>2
<1> QED BY <1>4, <1>5, <1>6

\* What a rollback answers: the failure, as undone as both say.
Undoing(p, u) == [u EXCEPT !.ok = FALSE, !.undone = p.undone /\ u.ok]

UndoneBy(p, u, o) ==
  o \in Outcomes /\ o.record = u.record /\ o.ok = FALSE /\ (o.undone => p.undone /\ u.ok)

\* A rollback answers the state its undoing left.
LEMMA UndoingOutcome == ASSUME NEW p \in Outcomes, NEW u \in Outcomes PROVE UndoneBy(p, u, Undoing(p, u))
<1> DEFINE undone == p.undone /\ u.ok
           o == Undoing(p, u)
<1>1. undone \in BOOLEAN /\ (undone => p.undone /\ u.ok)
  BY DEF Outcomes
<1>2. o = [u EXCEPT !.ok = FALSE, !.undone = undone]
  BY DEF Undoing
<1> HIDE DEF undone, o
<1>3. o \in Outcomes /\ o.record = u.record /\ o.ok = FALSE /\ o.undone = undone
  BY <1>1, <1>2 DEF Outcomes
<1> QED BY <1>1, <1>3 DEF UndoneBy, o

\* applyWin32BorderlessWindow succeeds with the place and the extent asked for; if
\* it fails and nothing else did, the window is untouched or the saved one.
LEMMA BorderlessOutcomes ==
  ASSUME NEW r, Ready(r), NEW saved \in Windows, NEW place \in Places, NEW extent \in Extents,
         NEW o \in Borderless(r, saved, place, extent)
  PROVE  AfterBorderless(r, saved, place, extent, o)
<1> SUFFICES
      /\ o \in Outcomes /\ Ready(o.record) /\ Kept(r, o.record) /\ Buffers(r, o.record)
      /\ o.ok => /\ o.record.window.style = "borderless" /\ o.record.window.place = place
                 /\ o.record.window.client = extent
      /\ ~o.ok /\ o.undone => o.record = r \/ o.record.window = saved
  BY DEF AfterBorderless, ByWindow
<1> DEFINE window == [r.window EXCEPT !.style = "borderless"]
           styled == Sized(r, window)
           there(e) == [styled.window EXCEPT !.place = place, !.client = e]
           placed(e) == Sized(r, there(e))
           Good(x) == Ready(x) /\ Kept(r, x) /\ Buffers(r, x)
<1>1. window \in Windows /\ window.style = "borderless"
  BY DEF Ready, Windows
<1> HIDE DEF window
<1>2. Good(styled) /\ styled.window = window
  BY <1>1, SizedKeeps
<1> HIDE DEF styled
<1>3. \A e \in Extents : there(e) \in Windows /\ there(e).style = "borderless" /\ there(e).place = place
      /\ there(e).client = e
  BY <1>1, <1>2 DEF Windows
<1> HIDE DEF there
<1>4. \A e \in Extents : Good(placed(e)) /\ placed(e).window = there(e)
  BY <1>3, SizedKeeps
<1> HIDE DEF placed
<1>5. Good(r)
  BY DEF Kept, Buffers
<1>6. \A x : Good(x) => x \in Records
  BY DEF Ready
<1>7. ASSUME NEW x, Good(x), NEW p \in Fails(x), NEW u \in Restore(x, saved), o = Undoing(p, u)
      PROVE  o \in Outcomes /\ Good(o.record) /\ ~o.ok /\ (o.undone => o.record.window = saved)
  <2>1. p \in Outcomes
    BY <1>6, <1>7, OutcomeOf
  <2>2. u \in Outcomes /\ Ready(u.record) /\ Kept(x, u.record) /\ Buffers(x, u.record)
        /\ (u.ok => u.record.window = saved)
    <3>1. AfterRestore(x, saved, u)
      BY <1>7, RestoreOutcomes
    <3> QED BY <3>1 DEF AfterRestore, ByWindow
  <2>3. Good(u.record)
    BY <1>7, <2>2 DEF Kept, Buffers
  <2> HIDE DEF Good
  <2>4. UndoneBy(p, u, o)
    BY <1>7, <2>1, <2>2, UndoingOutcome
  <2>5. Good(o.record)
    BY <2>3, <2>4 DEF UndoneBy
  <2> QED BY <2>2, <2>4, <2>5 DEF UndoneBy
<1> DEFINE ends == {styled} \cup {placed(e) : e \in Extents}
<1>8. \/ o \in Fails(r) \/ o \in Done(placed(extent))
      \/ \E x \in ends : \E p \in Fails(x), u \in Restore(x, saved) : o = Undoing(p, u)
  <2>1. Sized(r, [r.window EXCEPT !.style = "borderless"]) = styled
    BY DEF styled, window
  <2>2. \A e : Sized(r, [styled.window EXCEPT !.place = place, !.client = e]) = placed(e)
    BY DEF placed, there
  <2> DEFINE Undo(x) == Restore(x, saved)
             failed == AnyOf(Fails, ends)
  <2>3. \/ o \in Fails(r) \/ o \in Done(placed(extent))
        \/ o \in Rollback(failed, Undo) \/ o \in Rollback(Fails(styled), Undo)
    BY <2>1, <2>2 DEF Borderless, MayFail
  <2>4. ASSUME NEW p, ~p.ok,
               o \in (IF p.ok THEN {p}
                         ELSE {[u EXCEPT !.ok = FALSE, !.undone = p.undone /\ u.ok] : u \in Undo(p.record)})
        PROVE  \E u \in Restore(p.record, saved) : o = Undoing(p, u)
    BY <2>4 DEF Undoing
  <2>5. \A x, p : p \in Fails(x) => p.record = x /\ ~p.ok
    BY DEF Fails
  <2>6. ASSUME o \in Rollback(failed, Undo)
        PROVE  \E x \in ends : \E p \in Fails(x), u \in Restore(x, saved) : o = Undoing(p, u)
    <3>1. PICK p \in failed : o \in (IF p.ok THEN {p}
                                        ELSE {[u EXCEPT !.ok = FALSE, !.undone = p.undone /\ u.ok] : u \in Undo(p.record)})
      BY <2>6 DEF Rollback
    <3>2. PICK x \in ends : p \in Fails(x)
      BY DEF AnyOf
    <3>3. ~p.ok /\ p.record = x
      BY <2>5, <3>2
    <3>4. \E u \in Restore(p.record, saved) : o = Undoing(p, u)
      BY <2>4, <3>1, <3>3
    <3> QED BY <3>2, <3>3, <3>4
  <2>7. ASSUME o \in Rollback(Fails(styled), Undo)
        PROVE  \E x \in ends : \E p \in Fails(x), u \in Restore(x, saved) : o = Undoing(p, u)
    <3>1. PICK p \in Fails(styled) : o \in (IF p.ok THEN {p}
                                               ELSE {[u EXCEPT !.ok = FALSE, !.undone = p.undone /\ u.ok] : u \in Undo(p.record)})
      BY <2>7 DEF Rollback
    <3>2. ~p.ok /\ p.record = styled
      BY <2>5
    <3>3. \E u \in Restore(p.record, saved) : o = Undoing(p, u)
      BY <2>4, <3>1, <3>2
    <3> QED BY <3>2, <3>3
  <2> QED BY <2>3, <2>6, <2>7
<1>9. \A x \in ends : Good(x)
  BY <1>2, <1>4
<1> HIDE DEF ends
<1>10. CASE o \in Fails(r)
  BY <1>5, <1>6, <1>10, OutcomeOf
<1>11. CASE o \in Done(placed(extent))
  <2>1. Good(placed(extent)) /\ placed(extent).window = there(extent)
    BY <1>4
  <2>2. placed(extent) \in Records
    BY <1>6, <2>1
  <2>3. o \in Outcomes /\ o.record = placed(extent) /\ o.ok = TRUE
    BY <1>11, <2>2, OutcomeOf
  <2> QED BY <1>3, <2>1, <2>3
<1>12. CASE \E x \in ends : \E p \in Fails(x), u \in Restore(x, saved) : o = Undoing(p, u)
  <2>1. o \in Outcomes /\ Good(o.record) /\ ~o.ok /\ (o.undone => o.record.window = saved)
    BY <1>7, <1>9, <1>12
  <2> QED BY <2>1
<1> QED BY <1>8, <1>10, <1>11, <1>12

\* resizeWin32WindowClient keeps the style and the place.
LEMMA ResizeClientOutcomes ==
  ASSUME NEW r, Ready(r), NEW extent \in Extents, NEW o \in ResizeClient(r, extent)
  PROVE  AfterResizeClient(r, extent, o)
<1> DEFINE window(e) == [r.window EXCEPT !.client = e]
           to(e) == Sized(r, window(e))
           Good(x) == /\ Ready(x) /\ Kept(r, x) /\ Buffers(r, x)
                      /\ x.window.style = r.window.style /\ x.window.place = r.window.place
<1>1. \A e \in Extents : /\ window(e) \in Windows /\ window(e).style = r.window.style
                         /\ window(e).place = r.window.place /\ window(e).client = e
  BY DEF Ready, Windows
<1> HIDE DEF window
<1>2. \A e \in Extents : Good(to(e)) /\ to(e).window = window(e)
  BY <1>1, SizedKeeps
<1>3. Good(r) /\ \A x : Good(x) => x \in Records
  BY DEF Kept, Buffers, Ready
<1>4. \/ o \in Fails(r) \/ o \in Done(to(extent))
      \/ \E e \in Extents : o \in Fails(to(e))
  BY DEF ResizeClient, MayFail, AnyOf, window
<1> HIDE DEF to, Good
<1>5. o \in Outcomes /\ Good(o.record) /\ o.undone = TRUE /\ (o.ok => o.record.window.client = extent)
  <2>1. CASE o \in Fails(r)
    BY <1>3, <2>1, OutcomeOf
  <2>2. CASE o \in Done(to(extent))
    <3>1. Good(to(extent)) /\ to(extent).window = window(extent) /\ to(extent) \in Records
      BY <1>2, <1>3
    <3>2. o \in Outcomes /\ o.record = to(extent) /\ o.ok = TRUE /\ o.undone = TRUE
      BY <2>2, <3>1, OutcomeOf
    <3> QED BY <1>1, <3>1, <3>2
  <2>3. CASE \E e \in Extents : o \in Fails(to(e))
    <3>1. PICK e \in Extents : o \in Fails(to(e))
      BY <2>3
    <3>2. Good(to(e)) /\ to(e) \in Records
      BY <1>2, <1>3
    <3> QED BY <3>1, <3>2, OutcomeOf
  <2> QED BY <1>4, <2>1, <2>2, <2>3
<1> QED BY <1>5 DEF Good, AfterResizeClient, ByWindow

\* resizeWindowSurfaceBuffers that fails leaves the extent described and the old
\* textures, if it leaves any.
LEMMA RebuildOutcomes ==
  ASSUME NEW r, Ready(r), NEW extent \in Extents, NEW force_rebuild \in BOOLEAN,
         NEW o \in Rebuild(r, extent, force_rebuild)
  PROVE  AfterRebuild(r, extent, o)
<1> USE DEF AfterRebuild
<1> DEFINE rebuilt == [r EXCEPT !.textures = Fresh(r), !.chain = extent, !.extent = extent]
           Same(x) == /\ x \in Records /\ Ready(x) /\ Kept(r, x) /\ x.window = r.window
           Old(x) == Same(x) /\ x.extent = r.extent /\ (r.textures # 0 => x.textures \in {r.textures, 0})
           back == [Reacquired(r) EXCEPT !.chain = r.extent]
<1>1. r \in Records /\ r.window \in Windows /\ r.extent \in Extents /\ (~r.lost => r.chain = r.extent)
      /\ r.chain \in Sizes
  BY DEF Ready, Buffered, Records
<1>2. Old(r)
  BY <1>1 DEF Kept
<1>3. Fresh(r) \in {1, 2}
  BY DEF Fresh
<1>4. Same(rebuilt) /\ rebuilt.extent = extent
  BY <1>1, <1>3 DEF Ready, Buffered, Records, Kept, Sizes
<1>5. \A c \in Sizes : Old(Lost(r, c))
  BY <1>1 DEF Lost, Ready, Buffered, Records, Kept
<1>6. Old(Reacquired(r))
  <2>1. CASE r.textures = 0
    <3>1. Reacquired(r) = [r EXCEPT !.textures = Fresh(r)]
      BY <2>1 DEF Reacquired
    <3> QED BY <1>1, <1>3, <2>1, <3>1 DEF Ready, Buffered, Records, Kept
  <2>2. CASE r.textures # 0
    <3>1. Reacquired(r) = [r EXCEPT !.textures = r.textures]
      BY <2>2 DEF Reacquired
    <3> QED BY <1>1, <2>2, <3>1 DEF Ready, Buffered, Records, Kept
  <2> QED BY <2>1, <2>2
<1>7. Old(back)
  <2> DEFINE q == Reacquired(r)
  <2>1. q \in Records /\ Ready(q) /\ Old(q)
    BY <1>6
  <2> HIDE DEF q
  <2>2. back = [q EXCEPT !.chain = r.extent]
    BY DEF q
  <2> HIDE DEF back, q
  <2>3. r.extent \in Sizes /\ q.extent = r.extent
    BY <1>1, <2>1 DEF Sizes
  <2>4. back \in Records /\ back.window = q.window /\ back.extent = q.extent /\ back.chain = r.extent
        /\ back.textures = q.textures /\ Kept(q, back)
    BY <2>1, <2>2, <2>3 DEF Records, Kept
  <2>5. Ready(back)
    BY <2>1, <2>3, <2>4 DEF Ready, Buffered
  <2>6. Kept(r, back)
    BY <2>1, <2>4 DEF Kept
  <2> QED BY <2>1, <2>4, <2>5, <2>6
<1>8. \/ o \in Done(r) /\ r.extent = extent
      \/ o \in Done(rebuilt)
      \/ \E x \in {r, Lost(r, r.chain), Reacquired(r), back} : o \in Fails(x)
      \/ \E c \in {r.chain, r.extent, extent} : o \in NotUndone(Lost(r, c))
  BY DEF Rebuild, MayFail, AnyOf
<1>9. {r.chain, r.extent, extent} \subseteq Sizes
  BY <1>1 DEF Sizes
<1> HIDE DEF rebuilt, Same, Old, back
<1>10. CASE o \in Done(r) /\ r.extent = extent
  BY <1>1, <1>2, <1>10, OutcomeOf DEF Old, Same
<1>11. CASE o \in Done(rebuilt)
  <2>1. rebuilt \in Records /\ Ready(rebuilt) /\ Kept(r, rebuilt) /\ rebuilt.window = r.window
    BY <1>4 DEF Same
  <2>2. o \in Outcomes /\ o.record = rebuilt /\ o.ok = TRUE /\ o.undone = TRUE
    BY <1>11, <2>1, OutcomeOf
  <2> QED BY <1>4, <2>1, <2>2
<1>12. CASE \E x \in {r, Lost(r, r.chain), Reacquired(r), back} : o \in Fails(x)
  <2>1. PICK x \in {r, Lost(r, r.chain), Reacquired(r), back} : o \in Fails(x)
    BY <1>12
  <2>2. Old(x) /\ x \in Records
    BY <1>1, <1>2, <1>5, <1>6, <1>7, <1>9 DEF Old, Same
  <2>3. o \in Outcomes /\ o.record = x /\ o.ok = FALSE
    BY <2>1, <2>2, OutcomeOf
  <2> QED BY <2>2, <2>3 DEF Old, Same
<1>13. CASE \E c \in {r.chain, r.extent, extent} : o \in NotUndone(Lost(r, c))
  <2>1. PICK c \in {r.chain, r.extent, extent} : o \in NotUndone(Lost(r, c))
    BY <1>13
  <2>2. Old(Lost(r, c)) /\ Lost(r, c) \in Records
    BY <1>5, <1>9 DEF Old, Same
  <2> QED BY <2>1, <2>2, OutcomeOf DEF Old, Same
<1> QED BY <1>8, <1>10, <1>11, <1>12, <1>13

-----------------------------------------------------------------------------
(***************************************************************************)
(* The transitions of a surface with a window.                             *)
(***************************************************************************)

\* What holds of a surface between two calls.
Consistent(r) ==
  /\ r \in Records /\ Buffered(r)
  /\ r.type \in {"none", "offscreen"} => r.mode = "none" /\ ~r.open
  /\ r.type \in {"window", "direct"} =>
       r.window \in Windows /\ r.extent \in Extents /\ r.mode \in {"windowed", "borderless", "fullscreen"}
  /\ r.mode = "windowed" => r.display = "" /\ r.display_mode = 0
  /\ r.mode \in {"borderless", "fullscreen"} => r.windowed_state \in Windows /\ r.windowed_extent \in Extents
  /\ r.mode = "fullscreen" => r.restore_mode \in Extents

HasWindow(r) == r.type \in {"window", "direct"}

\* What Undone asks of a failure, of the window and the textures.
Undid(r, x) ==
  /\ x.extent = r.extent
  /\ x.window.style \in {r.window.style, StyleOf(r.mode)}
  /\ x.window.place = r.window.place
  /\ x.window.client \in {r.window.client, r.extent}
  /\ r.textures # 0 => x.textures \in {r.textures, 0}

\* What a transition of a surface with a window may leave.
Sound(r, o) ==
  /\ o \in Outcomes /\ Consistent(o.record) /\ o.record.type = r.type
  /\ ~o.ok => Kept(r, o.record)
  /\ ~o.ok /\ o.undone => Undid(r, o.record)

\* What keeps the mode and all it remembers keeps the surface consistent.
LEMMA KeptConsistent ==
  ASSUME NEW r, Consistent(r), HasWindow(r), NEW x, Ready(x), Kept(r, x)
  PROVE  Consistent(x) /\ HasWindow(x)
BY DEF Consistent, HasWindow, Ready, Kept

\* Such a surface is one that the helpers work on.
LEMMA ConsistentReady == ASSUME NEW r, Consistent(r), HasWindow(r) PROVE Ready(r) /\ r \in Records
BY DEF Consistent, HasWindow, Ready

\* Taking the resize for handled changes nothing else.
LEMMA HandledKeeps ==
  ASSUME NEW r, Ready(r)
  PROVE  Ready(Handled(r)) /\ Kept(r, Handled(r)) /\ Buffers(r, Handled(r)) /\ Handled(r).window = r.window
BY DEF Handled, Ready, Buffered, Records, Kept, Buffers

\* A transition that fails before its first native call.
LEMMA FailsSound ==
  ASSUME NEW r, Consistent(r), HasWindow(r), NEW o \in Fails(r)
  PROVE  Sound(r, o)
<1>1. o \in Outcomes /\ o.record = r /\ o.ok = FALSE
  BY ConsistentReady, OutcomeOf
<1>2. Undid(r, r) /\ Kept(r, r)
  BY DEF Undid, Kept
<1> QED BY <1>1, <1>2 DEF Sound

\* A transition that succeeds with a consistent surface.
LEMMA DoneSound ==
  ASSUME NEW r, Consistent(r), HasWindow(r), NEW x, Consistent(x), x.type = r.type, NEW o \in Done(x)
  PROVE  Sound(r, o) /\ o.ok = TRUE /\ o.record = x
<1>1. o \in Outcomes /\ o.record = x /\ o.ok = TRUE
  BY OutcomeOf DEF Consistent
<1> QED BY <1>1 DEF Sound

\* What puts a window back whose surface has kept its extent: the window is
\* placed again where it was, or restored to what it was.
AfterBack(r, x, u) ==
  /\ u \in Outcomes /\ Ready(u.record) /\ Kept(r, u.record) /\ Buffers(x, u.record)
  /\ u.ok => Undid(r, u.record)

\* A surface on its way from r that can still be put back.
OnTheWay(r, x) ==
  Ready(x) /\ Kept(r, x) /\ x.extent = r.extent /\ (r.textures # 0 => x.textures \in {r.textures, 0})

\* A borderless window is put back by placing it again.
LEMMA PlacedBack ==
  ASSUME NEW r, Ready(r), r.mode = "borderless", NEW saved \in Windows, NEW x, OnTheWay(r, x),
         NEW u \in Borderless(x, saved, r.window.place, x.extent)
  PROVE  AfterBack(r, x, u)
<1>1. r.window.place \in Places /\ x.extent \in Extents /\ Ready(x)
  BY DEF Ready, Windows, OnTheWay
<1>2. AfterBorderless(x, saved, r.window.place, x.extent, u)
  BY <1>1, BorderlessOutcomes
<1>3. /\ u \in Outcomes /\ Ready(u.record) /\ Kept(x, u.record) /\ Buffers(x, u.record)
      /\ u.ok => /\ u.record.window.style = "borderless" /\ u.record.window.place = r.window.place
                 /\ u.record.window.client = x.extent
  BY <1>2 DEF AfterBorderless, ByWindow
<1>4. Kept(r, u.record)
  BY <1>3 DEF Kept, OnTheWay
<1>5. u.ok => Undid(r, u.record)
  BY <1>3 DEF Undid, Buffers, StyleOf, OnTheWay
<1> QED BY <1>3, <1>4, <1>5 DEF AfterBack

\* Any other window by restoring it.
LEMMA RestoredBack ==
  ASSUME NEW r, Ready(r), NEW x, OnTheWay(r, x), NEW u \in Restore(x, r.window)
  PROVE  AfterBack(r, x, u)
<1>1. r.window \in Windows /\ Ready(x)
  BY DEF Ready, OnTheWay
<1>2. AfterRestore(x, r.window, u)
  BY <1>1, RestoreOutcomes
<1>3. /\ u \in Outcomes /\ Ready(u.record) /\ Kept(x, u.record) /\ Buffers(x, u.record)
      /\ u.ok => u.record.window = r.window
  BY <1>2 DEF AfterRestore, ByWindow
<1>4. Kept(r, u.record)
  BY <1>3 DEF Kept, OnTheWay
<1>5. u.ok => Undid(r, u.record)
  BY <1>3 DEF Undid, Buffers, OnTheWay
<1> QED BY <1>3, <1>4, <1>5 DEF AfterBack

\* A failure and its rollback.
Failed(r, u, o) ==
  /\ o \in Outcomes /\ Ready(o.record) /\ Kept(r, o.record) /\ o.record = u.record
  /\ o.ok = FALSE /\ (o.undone => Undid(r, o.record))

\* A failure whose rollback put the surface back.
LEMMA BackSound ==
  ASSUME NEW r, NEW x, NEW p \in Outcomes, NEW u, AfterBack(r, x, u)
  PROVE  Failed(r, u, Undoing(p, u))
<1> DEFINE o == Undoing(p, u)
<1>1. u \in Outcomes /\ Ready(u.record) /\ Kept(r, u.record) /\ (u.ok => Undid(r, u.record))
  BY DEF AfterBack
<1>2. UndoneBy(p, u, o)
  BY <1>1, UndoingOutcome
<1> HIDE DEF o
<1>3. Failed(r, u, o)
  BY <1>1, <1>2 DEF Failed, UndoneBy
<1> QED BY <1>3 DEF o

\* resizeSurface.
LEMMA ResizeSound ==
  ASSUME NEW r, Consistent(r), HasWindow(r), NEW extent \in Extents, NEW o \in Resize(r, extent)
  PROVE  Sound(r, o) /\ Kept(r, o.record)
<1> DEFINE Undo(x) == Restore(x, r.window)
           tried == Attempt(ResizeClient(r, extent), LAMBDA x : Rebuild(x, extent, FALSE))
           undone == Rollback(tried, Undo)
<1>1. Ready(r) /\ r.window \in Windows /\ Kept(r, r)
  BY ConsistentReady DEF Ready, Kept
<1>2. \/ o \in Fails(r) \/ o \in Done(r)
      \/ \E p \in undone : o \in (IF p.ok THEN Done(Handled(p.record)) ELSE {p})
  BY DEF Resize, MayFail, Attempt
<1>3. CASE o \in Fails(r)
  <2>1. o.record = r
    BY <1>1, <1>3, OutcomeOf DEF Ready
  <2> QED BY <1>1, <1>3, <2>1, FailsSound
<1>4. CASE o \in Done(r)
  BY <1>1, <1>4, DoneSound
<1>5. ASSUME NEW q \in tried
      PROVE  q \in Outcomes /\ Ready(q.record) /\ Kept(r, q.record) /\ (~q.ok => OnTheWay(r, q.record))
  <2>1. PICK c \in ResizeClient(r, extent) : q \in (IF c.ok THEN Rebuild(c.record, extent, FALSE) ELSE {c})
    BY DEF Attempt
  <2>2. AfterResizeClient(r, extent, c)
    BY <1>1, ResizeClientOutcomes
  <2>3. c \in Outcomes /\ Ready(c.record) /\ Kept(r, c.record) /\ Buffers(r, c.record)
    BY <2>2 DEF AfterResizeClient, ByWindow
  <2>4. CASE ~c.ok
    BY <2>1, <2>3, <2>4 DEF Buffers, OnTheWay
  <2>5. CASE c.ok
    <3>1. q \in Rebuild(c.record, extent, FALSE)
      BY <2>1, <2>5
    <3>2. AfterRebuild(c.record, extent, q)
      BY <2>3, <3>1, RebuildOutcomes
    <3> QED BY <2>3, <3>2 DEF AfterRebuild, Kept, Buffers, OnTheWay
  <2> QED BY <2>4, <2>5
<1>6. ASSUME NEW p \in undone
      PROVE  p \in Outcomes /\ Ready(p.record) /\ Kept(r, p.record) /\ (~p.ok /\ p.undone => Undid(r, p.record))
  <2>1. PICK q \in tried : p \in (IF q.ok THEN {q}
                                     ELSE {[u EXCEPT !.ok = FALSE, !.undone = q.undone /\ u.ok] : u \in Undo(q.record)})
    BY DEF Rollback
  <2>2. CASE q.ok
    BY <1>5, <2>1, <2>2
  <2>3. CASE ~q.ok
    <3>1. PICK u \in Restore(q.record, r.window) : p = Undoing(q, u)
      BY <2>1, <2>3 DEF Undoing
    <3>2. AfterBack(r, q.record, u)
      BY <1>1, <1>5, <2>3, RestoredBack
    <3>3. Failed(r, u, p)
      BY <1>5, <3>1, <3>2, BackSound
    <3> QED BY <3>3 DEF Failed
  <2> QED BY <2>2, <2>3
<1> HIDE DEF undone, tried
<1>7. CASE \E p \in undone : o \in (IF p.ok THEN Done(Handled(p.record)) ELSE {p})
  <2>1. PICK p \in undone : o \in (IF p.ok THEN Done(Handled(p.record)) ELSE {p})
    BY <1>7
  <2>2. /\ p \in Outcomes /\ Ready(p.record) /\ Kept(r, p.record)
        /\ ~p.ok /\ p.undone => Undid(r, p.record)
    BY <1>6
  <2>3. CASE p.ok
    <3>1. Ready(Handled(p.record)) /\ Kept(r, Handled(p.record))
      BY <2>2, HandledKeeps DEF Kept
    <3>2. Consistent(Handled(p.record)) /\ Handled(p.record).type = r.type
      BY <3>1, KeptConsistent DEF Kept
    <3> QED BY <2>1, <2>3, <3>1, <3>2, DoneSound
  <2>4. CASE ~p.ok
    <3>1. o = p /\ Consistent(p.record) /\ p.record.type = r.type
      BY <2>1, <2>2, <2>4, KeptConsistent DEF Kept
    <3> QED BY <2>2, <2>4, <3>1 DEF Sound
  <2> QED BY <2>3, <2>4
<1> QED BY <1>2, <1>3, <1>4, <1>7

\* setSurfaceWindowMode to BorderlessFullscreen.
LEMMA ToBorderlessSound ==
  ASSUME NEW r, Consistent(r), HasWindow(r), r.mode \in {"windowed", "borderless"},
         screen \in [Displays -> Extents], NEW display \in Displays, NEW o \in ToBorderless(r, display)
  PROVE  Sound(r, o) /\ (o.ok => o.record.mode = "borderless")
<1> DEFINE extent == screen[display]
           windowed == r.mode = "windowed"
           saved == IF windowed THEN r.window ELSE r.windowed_state
           Back(x) == Borderless(x, saved, r.window.place, x.extent)
           Undo(y) == IF windowed THEN Restore(y, saved) ELSE Back(y)
           placed == Borderless(r, saved, display, extent)
           moved == IF windowed THEN placed ELSE Rollback(placed, Back)
           rebuilt == Attempt(moved, LAMBDA x : Rollback(Rebuild(x, extent, FALSE), Undo))
           entered(x) == [Handled(x) EXCEPT
                            !.windowed_state = saved, !.windowed_extent = IF windowed THEN r.extent ELSE @,
                            !.mode = "borderless", !.display = display, !.display_mode = 0]
           Good(x) == Ready(x) /\ Kept(r, x)
<1>1. /\ Ready(r) /\ r.window \in Windows /\ Good(r) /\ Buffers(r, r) /\ extent \in Extents /\ saved \in Windows
      /\ display \in Places /\ (~windowed => r.mode = "borderless") /\ (windowed => saved = r.window)
  BY ConsistentReady DEF Ready, Kept, Buffers, Consistent, Places
<1>2. \/ o \in Fails(r)
      \/ \E p \in rebuilt : o \in (IF p.ok THEN Done(entered(p.record)) ELSE {p})
  BY DEF ToBorderless, MayFail, Attempt
<1> HIDE DEF extent, windowed, saved
<1>3. ASSUME NEW q \in placed
      PROVE  /\ q \in Outcomes /\ Good(q.record) /\ Buffers(r, q.record)
             /\ ~q.ok /\ q.undone => q.record = r \/ q.record.window = saved
  <2>1. AfterBorderless(r, saved, display, extent, q)
    BY <1>1, BorderlessOutcomes
  <2> QED BY <2>1 DEF AfterBorderless, ByWindow
<1>4. ASSUME NEW m \in moved
      PROVE  /\ m \in Outcomes /\ Good(m.record) /\ Buffers(r, m.record)
             /\ ~m.ok /\ m.undone => Undid(r, m.record)
  <2>1. CASE windowed
    <3>1. /\ m \in Outcomes /\ Good(m.record) /\ Buffers(r, m.record)
          /\ ~m.ok /\ m.undone => m.record = r \/ m.record.window = r.window
      BY <1>1, <1>3, <2>1
    <3>2. ~m.ok /\ m.undone => Undid(r, m.record)
      BY <3>1 DEF Undid, Buffers
    <3> QED BY <3>1, <3>2
  <2>2. CASE ~windowed
    <3>1. PICK q \in placed : m \in (IF q.ok THEN {q}
                                        ELSE {[u EXCEPT !.ok = FALSE, !.undone = q.undone /\ u.ok] : u \in Back(q.record)})
      BY <2>2 DEF Rollback
    <3>2. q \in Outcomes /\ Good(q.record) /\ Buffers(r, q.record)
      BY <1>3
    <3>3. CASE q.ok
      BY <3>1, <3>2, <3>3
    <3>4. CASE ~q.ok
      <4>1. PICK u \in Back(q.record) : m = Undoing(q, u)
        BY <3>1, <3>4 DEF Undoing
      <4>2. OnTheWay(r, q.record)
        BY <3>2 DEF Buffers, OnTheWay
      <4>3. AfterBack(r, q.record, u)
        BY <1>1, <2>2, <4>2, PlacedBack
      <4>4. Failed(r, u, m)
        BY <3>2, <4>1, <4>3, BackSound
      <4>5. Buffers(r, m.record)
        BY <3>2, <4>3, <4>4 DEF Buffers, Failed, AfterBack
      <4> QED BY <4>4, <4>5 DEF Failed
    <3> QED BY <3>3, <3>4
  <2> QED BY <2>1, <2>2
<1> HIDE DEF placed, moved
<1>5. ASSUME NEW p \in rebuilt
      PROVE  /\ p \in Outcomes /\ Good(p.record)
             /\ ~p.ok /\ p.undone => Undid(r, p.record)
  <2>1. PICK m \in moved : p \in (IF m.ok THEN Rollback(Rebuild(m.record, extent, FALSE), Undo) ELSE {m})
    BY DEF Attempt
  <2>2. /\ m \in Outcomes /\ Good(m.record) /\ Buffers(r, m.record)
        /\ ~m.ok /\ m.undone => Undid(r, m.record)
    BY <1>4
  <2>3. CASE ~m.ok
    BY <2>1, <2>2, <2>3
  <2>4. CASE m.ok
    <3>1. PICK b \in Rebuild(m.record, extent, FALSE) :
            p \in (IF b.ok THEN {b}
                      ELSE {[u EXCEPT !.ok = FALSE, !.undone = b.undone /\ u.ok] : u \in Undo(b.record)})
      BY <2>1, <2>4 DEF Rollback
    <3> HIDE DEF rebuilt
    <3>2. /\ b \in Outcomes /\ Ready(b.record) /\ Kept(m.record, b.record)
          /\ ~b.ok => b.record.extent = m.record.extent
          /\ ~b.ok /\ m.record.textures # 0 => b.record.textures \in {m.record.textures, 0}
      <4>1. AfterRebuild(m.record, extent, b)
        BY <1>1, <2>2, RebuildOutcomes
      <4> QED BY <4>1 DEF AfterRebuild
    <3>3. Good(b.record)
      BY <2>2, <3>2 DEF Kept
    <3>4. CASE b.ok
      BY <3>1, <3>2, <3>3, <3>4
    <3>5. CASE ~b.ok
      <4>1. PICK u \in Undo(b.record) : p = Undoing(b, u)
        BY <3>1, <3>5 DEF Undoing
      <4>2. OnTheWay(r, b.record)
        BY <2>2, <3>2, <3>3, <3>5 DEF Buffers, OnTheWay
      <4>3. AfterBack(r, b.record, u)
        <5>1. CASE windowed
          <6>1. u \in Restore(b.record, r.window)
            BY <1>1, <5>1
          <6> QED BY <1>1, <4>2, <6>1, RestoredBack
        <5>2. CASE ~windowed
          <6>1. u \in Borderless(b.record, saved, r.window.place, b.record.extent)
            BY <5>2
          <6> QED BY <1>1, <4>2, <5>2, <6>1, PlacedBack
        <5> QED BY <5>1, <5>2
      <4>4. Failed(r, u, p)
        BY <3>2, <4>1, <4>3, BackSound
      <4> QED BY <4>4 DEF Failed
    <3> QED BY <3>4, <3>5
  <2> QED BY <2>3, <2>4
<1> HIDE DEF rebuilt
<1>6. ASSUME NEW x, Good(x)
      PROVE  Consistent(entered(x)) /\ entered(x).type = r.type /\ entered(x).mode = "borderless"
  <2> DEFINE h == Handled(x)
             e == IF windowed THEN r.extent ELSE h.windowed_extent
  <2>1. Ready(h) /\ Kept(r, h)
    BY <1>6, HandledKeeps DEF Kept
  <2>2. Consistent(h) /\ HasWindow(h)
    BY <2>1, KeptConsistent
  <2>3. e \in Extents
    BY <1>1, <2>1, <2>2 DEF Kept, Consistent, Ready
  <2> DEFINE z == entered(x)
  <2>4. z = [h EXCEPT !.windowed_state = saved, !.windowed_extent = e,
                      !.mode = "borderless", !.display = display, !.display_mode = 0]
    BY DEF h, e
  <2>5. h \in Records /\ h.type = r.type
    <3>1. h \in Records
      BY <2>2 DEF Consistent
    <3> QED BY <2>1, <3>1 DEF Kept
  <2> HIDE DEF h, e, z
  <2>6. z \in Records /\ z.type = h.type /\ z.mode = "borderless" /\ z.chain = h.chain /\ z.extent = h.extent
        /\ z.lost = h.lost /\ z.window = h.window /\ z.windowed_state = saved /\ z.windowed_extent = e
    BY <1>1, <2>3, <2>4, <2>5, DisplayNames DEF Records, Sizes
  <2>7. Consistent(z)
    BY <1>1, <2>2, <2>3, <2>6 DEF Consistent, HasWindow, Buffered
  <2> QED BY <2>5, <2>6, <2>7 DEF z
<1>7. CASE o \in Fails(r)
  <2>1. o.ok = FALSE
    BY <1>7 DEF Fails
  <2> QED BY <1>7, <2>1, FailsSound
<1>8. CASE \E p \in rebuilt : o \in (IF p.ok THEN Done(entered(p.record)) ELSE {p})
  <2> HIDE DEF entered
  <2>1. PICK p \in rebuilt : o \in (IF p.ok THEN Done(entered(p.record)) ELSE {p})
    BY <1>8
  <2>2. /\ p \in Outcomes /\ Good(p.record)
        /\ ~p.ok /\ p.undone => Undid(r, p.record)
    BY <1>5
  <2>3. CASE p.ok
    <3>1. Consistent(entered(p.record)) /\ entered(p.record).type = r.type /\ entered(p.record).mode = "borderless"
      BY <1>6, <2>2
    <3> QED BY <2>1, <2>3, <3>1, DoneSound
  <2>4. CASE ~p.ok
    <3>1. o = p /\ Consistent(p.record) /\ p.record.type = r.type
      BY <2>1, <2>2, <2>4, KeptConsistent DEF Kept
    <3> QED BY <2>2, <2>4, <3>1 DEF Sound
  <2> QED BY <2>3, <2>4
<1> QED BY <1>2, <1>7, <1>8

\* A surface that is windowed again needs nothing of what it forgets.
LEMMA ForgottenConsistent ==
  ASSUME NEW r, Consistent(r), HasWindow(r), NEW x, Ready(x), Kept(r, x)
  PROVE  LET z == Forgotten(x)
         IN  Consistent(z) /\ z.type = r.type /\ z.mode = "windowed"
<1> DEFINE h == Handled(x)
           z == Forgotten(x)
<1>1. Ready(h) /\ Kept(r, h)
  BY HandledKeeps DEF Kept
<1>2. Consistent(h) /\ HasWindow(h) /\ h \in Records /\ h.type = r.type
  BY <1>1, KeptConsistent DEF Consistent, Kept
<1>3. z = [h EXCEPT !.mode = "windowed", !.display = "", !.display_mode = 0, !.windowed_state = NoWindow,
                    !.windowed_extent = 0, !.restore_mode = 0]
  BY DEF Forgotten, h
<1> HIDE DEF h, z
<1>4. z \in Records /\ z.type = h.type /\ z.mode = "windowed" /\ z.chain = h.chain /\ z.extent = h.extent
      /\ z.lost = h.lost /\ z.window = h.window /\ z.display = "" /\ z.display_mode = 0
  BY <1>2, <1>3 DEF Names, Records, Sizes
<1>5. Consistent(z)
  BY <1>2, <1>4 DEF Consistent, HasWindow, Buffered
<1> QED BY <1>2, <1>4, <1>5 DEF z

\* setSurfaceWindowMode to Windowed from BorderlessFullscreen.
LEMMA FromBorderlessSound ==
  ASSUME NEW r, Consistent(r), HasWindow(r), r.mode = "borderless", NEW o \in FromBorderless(r)
  PROVE  Sound(r, o) /\ (o.ok => o.record.mode = "windowed")
<1> DEFINE saved == r.windowed_state
           extent == r.windowed_extent
           Back(x) == Borderless(x, saved, r.window.place, x.extent)
           restored == Attempt(Restore(r, saved), LAMBDA x : Rebuild(x, extent, FALSE))
           undone == Rollback(restored, Back)
           Good(x) == Ready(x) /\ Kept(r, x)
<1>1. Ready(r) /\ r.window \in Windows /\ Good(r) /\ Buffers(r, r) /\ extent \in Extents /\ saved \in Windows
  BY ConsistentReady DEF Ready, Kept, Buffers, Consistent
<1>2. \/ o \in Fails(r)
      \/ \E p \in undone : o \in (IF p.ok THEN Done(Forgotten(p.record)) ELSE {p})
  BY DEF FromBorderless, MayFail, Attempt
<1> HIDE DEF saved, extent
<1>3. ASSUME NEW q \in restored
      PROVE  q \in Outcomes /\ Good(q.record) /\ (~q.ok => OnTheWay(r, q.record))
  <2>1. PICK c \in Restore(r, saved) : q \in (IF c.ok THEN Rebuild(c.record, extent, FALSE) ELSE {c})
    BY DEF Attempt
  <2>2. c \in Outcomes /\ Good(c.record) /\ Buffers(r, c.record)
    <3>1. AfterRestore(r, saved, c)
      BY <1>1, RestoreOutcomes
    <3> QED BY <3>1 DEF AfterRestore, ByWindow
  <2>3. CASE ~c.ok
    BY <2>1, <2>2, <2>3 DEF Buffers, OnTheWay
  <2>4. CASE c.ok
    <3>1. q \in Rebuild(c.record, extent, FALSE)
      BY <2>1, <2>4
    <3>2. AfterRebuild(c.record, extent, q)
      BY <1>1, <2>2, <3>1, RebuildOutcomes
    <3> QED BY <2>2, <3>2 DEF AfterRebuild, Kept, Buffers, OnTheWay
  <2> QED BY <2>3, <2>4
<1> HIDE DEF restored
<1>4. ASSUME NEW p \in undone
      PROVE  p \in Outcomes /\ Good(p.record) /\ (~p.ok /\ p.undone => Undid(r, p.record))
  <2>1. PICK q \in restored : p \in (IF q.ok THEN {q}
                                        ELSE {[u EXCEPT !.ok = FALSE, !.undone = q.undone /\ u.ok] : u \in Back(q.record)})
    BY DEF Rollback
  <2>2. q \in Outcomes /\ Good(q.record) /\ (~q.ok => OnTheWay(r, q.record))
    BY <1>3
  <2>3. CASE q.ok
    BY <2>1, <2>2, <2>3
  <2>4. CASE ~q.ok
    <3>1. PICK u \in Back(q.record) : p = Undoing(q, u)
      BY <2>1, <2>4 DEF Undoing
    <3>2. AfterBack(r, q.record, u)
      BY <1>1, <2>2, <2>4, PlacedBack
    <3>3. Failed(r, u, p)
      BY <2>2, <3>1, <3>2, BackSound
    <3> QED BY <3>3 DEF Failed
  <2> QED BY <2>3, <2>4
<1> HIDE DEF undone
<1>5. CASE o \in Fails(r)
  <2>1. o.ok = FALSE
    BY <1>5 DEF Fails
  <2> QED BY <1>5, <2>1, FailsSound
<1>6. CASE \E p \in undone : o \in (IF p.ok THEN Done(Forgotten(p.record)) ELSE {p})
  <2>1. PICK p \in undone : o \in (IF p.ok THEN Done(Forgotten(p.record)) ELSE {p})
    BY <1>6
  <2>2. p \in Outcomes /\ Good(p.record) /\ (~p.ok /\ p.undone => Undid(r, p.record))
    BY <1>4
  <2>3. CASE p.ok
    <3> DEFINE z == Forgotten(p.record)
    <3>1. Consistent(z) /\ z.type = r.type /\ z.mode = "windowed"
      BY <2>2, ForgottenConsistent
    <3> HIDE DEF z
    <3>2. o \in Done(z)
      BY <2>1, <2>3 DEF z
    <3>3. Sound(r, o) /\ o.ok = TRUE /\ o.record = z
      BY <3>1, <3>2, DoneSound
    <3> QED BY <3>1, <3>3
  <2>4. CASE ~p.ok
    <3>1. o = p /\ Consistent(p.record) /\ p.record.type = r.type
      BY <2>1, <2>2, <2>4, KeptConsistent DEF Kept
    <3> QED BY <2>2, <2>4, <3>1 DEF Sound
  <2> QED BY <2>3, <2>4
<1> QED BY <1>2, <1>5, <1>6

\* pollSurfaceEvents when a resize is pending.
LEMMA PollSound ==
  ASSUME NEW r, Consistent(r), HasWindow(r), NEW extent \in Extents,
         NEW o \in Rollback(Rebuild(r, extent, FALSE), LAMBDA x : ResizeClient(x, r.extent))
  PROVE  Sound(r, o) /\ Kept(r, o.record)
<1>1. Ready(r) /\ r.extent \in Extents
  BY ConsistentReady DEF Ready
<1>2. PICK b \in Rebuild(r, extent, FALSE) :
        o \in (IF b.ok THEN {b}
                  ELSE {[u EXCEPT !.ok = FALSE, !.undone = b.undone /\ u.ok] : u \in ResizeClient(b.record, r.extent)})
  BY DEF Rollback
<1>3. /\ b \in Outcomes /\ Ready(b.record) /\ Kept(r, b.record) /\ b.record.window = r.window
      /\ ~b.ok => b.record.extent = r.extent /\ (r.textures # 0 => b.record.textures \in {r.textures, 0})
  <2>1. AfterRebuild(r, extent, b)
    BY <1>1, RebuildOutcomes
  <2> QED BY <2>1 DEF AfterRebuild
<1>4. Consistent(b.record) /\ b.record.type = r.type
  BY <1>3, KeptConsistent DEF Kept
<1>5. CASE b.ok
  BY <1>2, <1>3, <1>4, <1>5 DEF Sound
<1>6. CASE ~b.ok
  <2>1. PICK u \in ResizeClient(b.record, r.extent) : o = Undoing(b, u)
    BY <1>2, <1>6 DEF Undoing
  <2>2. AfterResizeClient(b.record, r.extent, u)
    BY <1>1, <1>3, ResizeClientOutcomes
  <2>3. /\ u \in Outcomes /\ Ready(u.record) /\ Kept(b.record, u.record) /\ Buffers(b.record, u.record)
        /\ u.record.window.style = r.window.style /\ u.record.window.place = r.window.place
        /\ u.ok => u.record.window.client = r.extent
    BY <1>3, <2>2 DEF AfterResizeClient, ByWindow
  <2>4. AfterBack(r, b.record, u)
    BY <1>3, <1>6, <2>3 DEF AfterBack, Kept, Undid, Buffers
  <2>5. Failed(r, u, o)
    BY <1>3, <2>1, <2>4, BackSound
  <2>6. Ready(o.record) /\ Kept(r, o.record)
    BY <2>5 DEF Failed
  <2>7. Consistent(o.record) /\ o.record.type = r.type
    BY <2>6, KeptConsistent DEF Kept
  <2> QED BY <2>5, <2>6, <2>7 DEF Failed, Sound
<1> QED BY <1>5, <1>6

-----------------------------------------------------------------------------
(***************************************************************************)
(* The displays.                                                           *)
(***************************************************************************)

Screens == [Displays -> Extents]
Ends == [record : Records \X Screens, ok : BOOLEAN, undone : BOOLEAN]

\* An outcome with the screen it leaves.
Left(p, s, o) == o \in Ends /\ o.record[1] = p.record /\ o.record[2] = s /\ o.ok = p.ok /\ o.undone = p.undone

\* What leaves the screen alone.
LEMMA LeavingOutcome ==
  ASSUME NEW S, NEW s \in Screens, NEW o \in Leaving(s, S), S \subseteq Outcomes
  PROVE  \E p \in S : Left(p, s, o)
<1>1. PICK p \in S : o = [p EXCEPT !.record = <<p.record, s>>]
  BY DEF Leaving
<1>2. p \in Outcomes
  OBVIOUS
<1>3. <<p.record, s>> \in Records \X Screens /\ <<p.record, s>>[1] = p.record /\ <<p.record, s>>[2] = s
  BY <1>2 DEF Outcomes
<1> DEFINE pair == <<p.record, s>>
<1> HIDE DEF pair
<1>4. o = [p EXCEPT !.record = pair]
  BY <1>1 DEF pair
<1>5. o \in Ends /\ o.record = pair /\ o.ok = p.ok /\ o.undone = p.undone
  BY <1>2, <1>3, <1>4 DEF Ends, Outcomes, pair
<1>6. Left(p, s, o)
  BY <1>3, <1>5 DEF Left, pair
<1> QED BY <1>6

\* The screen with one display in another mode.
Changed(display, mode) == [screen EXCEPT ![display] = mode]

\* What entering a display mode leaves: a failure that was undone has given the
\* display back.
AfterEnter(r, display, mode, o) ==
  /\ o \in Ends /\ Consistent(o.record[1]) /\ o.record[1].type = r.type
  /\ o.ok => /\ r.mode = "windowed" /\ o.record[1].mode = "fullscreen" /\ o.record[1].display = display
             /\ o.record[1].restore_mode = screen[display] /\ o.record[2] = Changed(display, mode)
  /\ ~o.ok => Kept(r, o.record[1]) /\ o.record[2] \in {screen, Changed(display, mode)}
  /\ ~o.ok /\ o.undone => Undid(r, o.record[1]) /\ o.record[2] = screen

\* enterDisplayModeFullscreen.
LEMMA EnterOutcomes ==
  ASSUME NEW r, Consistent(r), HasWindow(r), screen \in Screens,
         NEW display \in Displays, NEW mode \in Extents, NEW o \in EnterDisplayMode(r, display, mode)
  PROVE  AfterEnter(r, display, mode, o)
<1> DEFINE changed == Changed(display, mode)
           Undo(y) == Restore(y, r.window)
           placed == Borderless(r, r.window, display, mode)
           taken == Attempt(placed, LAMBDA x : Rollback(Rebuild(x, mode, TRUE), Undo))
           entered(x) == [Handled(x) EXCEPT
                            !.windowed_state = r.window, !.windowed_extent = r.extent, !.mode = "fullscreen",
                            !.display = display, !.display_mode = mode, !.restore_mode = screen[display]]
           Good(x) == Ready(x) /\ Kept(r, x)
<1>1. /\ Ready(r) /\ r \in Records /\ r.window \in Windows /\ r.extent \in Extents /\ Good(r)
      /\ Buffers(r, r) /\ display \in Places /\ screen[display] \in Extents /\ changed \in Screens
  BY ConsistentReady DEF Ready, Kept, Buffers, Places, Screens, Changed
<1>2. \/ o \in Leaving(screen, Fails(r))
      \/ /\ r.mode = "windowed"
         /\ \E p \in taken : o \in (IF p.ok THEN Leaving(changed, Done(entered(p.record)))
                                    ELSE Leaving(screen, {p})
                                           \union Leaving(changed, MayFail({[p EXCEPT !.undone = FALSE]})))
  BY DEF EnterDisplayMode, MayFail, Leaving, Changed
<1> HIDE DEF changed
<1>3. ASSUME NEW m \in placed
      PROVE  /\ m \in Outcomes /\ Good(m.record) /\ Buffers(r, m.record)
             /\ ~m.ok /\ m.undone => Undid(r, m.record)
  <2>1. AfterBorderless(r, r.window, display, mode, m)
    BY <1>1, BorderlessOutcomes
  <2> QED BY <2>1 DEF AfterBorderless, ByWindow, Undid, Buffers
<1> HIDE DEF placed
<1>4. ASSUME NEW p \in taken
      PROVE  p \in Outcomes /\ Good(p.record) /\ (~p.ok /\ p.undone => Undid(r, p.record))
  <2>1. PICK m \in placed : p \in (IF m.ok THEN Rollback(Rebuild(m.record, mode, TRUE), Undo) ELSE {m})
    BY DEF Attempt
  <2>2. /\ m \in Outcomes /\ Good(m.record) /\ Buffers(r, m.record)
        /\ ~m.ok /\ m.undone => Undid(r, m.record)
    BY <1>3
  <2>3. CASE ~m.ok
    BY <2>1, <2>2, <2>3
  <2>4. CASE m.ok
    <3>1. PICK b \in Rebuild(m.record, mode, TRUE) :
            p \in (IF b.ok THEN {b}
                      ELSE {[u EXCEPT !.ok = FALSE, !.undone = b.undone /\ u.ok] : u \in Undo(b.record)})
      BY <2>1, <2>4 DEF Rollback
    <3>2. AfterRebuild(m.record, mode, b)
      BY <2>2, RebuildOutcomes
    <3>3. b \in Outcomes /\ Good(b.record) /\ (~b.ok => OnTheWay(r, b.record))
      BY <2>2, <3>2 DEF AfterRebuild, Kept, Buffers, OnTheWay
    <3>4. CASE b.ok
      BY <3>1, <3>3, <3>4
    <3>5. CASE ~b.ok
      <4>1. PICK u \in Undo(b.record) : p = Undoing(b, u)
        BY <3>1, <3>5 DEF Undoing
      <4>2. AfterBack(r, b.record, u)
        BY <1>1, <3>3, <3>5, RestoredBack
      <4>3. Failed(r, u, p)
        BY <3>3, <4>1, <4>2, BackSound
      <4> QED BY <4>3 DEF Failed
    <3> QED BY <3>4, <3>5
  <2> QED BY <2>3, <2>4
<1> HIDE DEF taken
<1>5. ASSUME NEW x, Good(x)
      PROVE  LET z == entered(x)
             IN  /\ Consistent(z) /\ z \in Records /\ z.type = r.type /\ z.mode = "fullscreen"
                 /\ z.display = display /\ z.restore_mode = screen[display]
  <2> DEFINE h == Handled(x)
             back == screen[display]
             z == entered(x)
  <2>1. Ready(h) /\ Kept(r, h)
    BY <1>5, HandledKeeps DEF Kept
  <2>2. Consistent(h) /\ HasWindow(h) /\ h \in Records /\ h.type = r.type
    BY <2>1, KeptConsistent DEF Consistent, Kept
  <2>3. z = [h EXCEPT !.windowed_state = r.window, !.windowed_extent = r.extent, !.mode = "fullscreen",
                      !.display = display, !.display_mode = mode, !.restore_mode = back]
    BY DEF h, back
  <2>4. back \in Extents
    BY <1>1
  <2> HIDE DEF h, z, back
  <2>5. z \in Records /\ z.type = h.type /\ z.mode = "fullscreen" /\ z.chain = h.chain /\ z.extent = h.extent
        /\ z.lost = h.lost /\ z.window = h.window /\ z.display = display /\ z.restore_mode = back
        /\ z.windowed_state = r.window /\ z.windowed_extent = r.extent
    BY <1>1, <2>2, <2>3, <2>4, DisplayNames DEF Records, Sizes
  <2>6. Consistent(z)
    BY <1>1, <2>2, <2>4, <2>5 DEF Consistent, HasWindow, Buffered
  <2> QED BY <2>2, <2>5, <2>6 DEF z, back
<1>6. CASE o \in Leaving(screen, Fails(r))
  <2>1. \A p \in Fails(r) : p \in Outcomes /\ p.ok = FALSE /\ Sound(r, p) /\ p.record = r
    BY <1>1, FailsSound, OutcomeOf
  <2>2. PICK p \in Fails(r) : Left(p, screen, o)
    BY <1>6, <2>1, LeavingOutcome
  <2> QED BY <2>1, <2>2 DEF Left, AfterEnter, Sound, Undid, Kept
<1>7. ASSUME r.mode = "windowed", NEW p \in taken, p.ok, o \in Leaving(changed, Done(entered(p.record)))
      PROVE  AfterEnter(r, display, mode, o)
  <2> DEFINE z == entered(p.record)
  <2>1. /\ Consistent(z) /\ z \in Records /\ z.type = r.type /\ z.mode = "fullscreen"
        /\ z.display = display /\ z.restore_mode = screen[display]
    BY <1>4, <1>5
  <2> HIDE DEF z
  <2>2. o \in Leaving(changed, Done(z))
    BY <1>7 DEF z
  <2>3. \A q \in Done(z) : q \in Outcomes /\ q.record = z /\ q.ok = TRUE
    BY <2>1, OutcomeOf
  <2>4. PICK q \in Done(z) : Left(q, changed, o)
    BY <1>1, <2>2, <2>3, LeavingOutcome
  <2> QED BY <1>7, <2>1, <2>3, <2>4 DEF Left, AfterEnter, changed
<1>8. ASSUME NEW p \in taken, ~p.ok, NEW q, NEW s \in {screen, changed}, o \in Leaving(s, {q}),
             \/ q = p /\ s = screen
             \/ q = [p EXCEPT !.undone = FALSE]
      PROVE  AfterEnter(r, display, mode, o)
  <2>1. p \in Outcomes /\ Good(p.record) /\ (~p.ok /\ p.undone => Undid(r, p.record))
    BY <1>4
  <2>2. q \in Outcomes /\ q.record = p.record /\ q.ok = p.ok /\ (q.undone => p.undone /\ s = screen)
    BY <1>8, <2>1 DEF Outcomes
  <2>3. Left(q, s, o)
    BY <1>1, <1>8, <2>2, LeavingOutcome
  <2>4. Consistent(p.record) /\ p.record.type = r.type
    BY <2>1, KeptConsistent DEF Kept
  <2> QED BY <1>8, <2>1, <2>2, <2>3, <2>4 DEF Left, AfterEnter, changed
<1>9. CASE /\ r.mode = "windowed"
           /\ \E p \in taken : o \in (IF p.ok THEN Leaving(changed, Done(entered(p.record)))
                                      ELSE Leaving(screen, {p})
                                             \union Leaving(changed, MayFail({[p EXCEPT !.undone = FALSE]})))
  <2> HIDE DEF entered, Good
  <2>1. PICK p \in taken : o \in (IF p.ok THEN Leaving(changed, Done(entered(p.record)))
                                  ELSE Leaving(screen, {p})
                                         \union Leaving(changed, MayFail({[p EXCEPT !.undone = FALSE]})))
    BY <1>9
  <2>2. CASE p.ok
    <3>1. o \in Leaving(changed, Done(entered(p.record)))
      BY <2>1, <2>2
    <3> QED BY <1>7, <1>9, <2>2, <3>1
  <2>3. CASE ~p.ok /\ o \in Leaving(screen, {p})
    BY <1>8, <2>3
  <2>4. CASE ~p.ok /\ o \in Leaving(changed, MayFail({[p EXCEPT !.undone = FALSE]}))
    <3> DEFINE q == [p EXCEPT !.undone = FALSE]
    <3>1. o \in Leaving(changed, {q})
      BY <2>4 DEF Leaving, MayFail
    <3> QED BY <1>8, <2>4, <3>1
  <2> QED BY <2>1, <2>2, <2>3, <2>4
<1> QED BY <1>2, <1>6, <1>9

\* What leaving one does: the surface is windowed only if the display has its mode
\* back.
AfterLeave(r, o) ==
  /\ o \in Ends /\ Consistent(o.record[1]) /\ o.record[1].type = r.type
  /\ ~o.ok => Kept(r, o.record[1])
  /\ o.ok => o.record[1].mode = "windowed"
  /\ \/ ~o.ok /\ o.record[2] = screen
     \/ o.record[2] = Changed(r.display, r.restore_mode)

\* leaveDisplayModeFullscreen.
LEMMA LeaveOutcomes ==
  ASSUME NEW r, Consistent(r), HasWindow(r), r.mode = "fullscreen", screen \in Screens,
         NEW o \in LeaveDisplayMode(r)
  PROVE  AfterLeave(r, o)
<1> DEFINE changed == Changed(r.display, r.restore_mode)
           saved == r.windowed_state
           extent == r.windowed_extent
           restored == Attempt(Restore(r, saved), LAMBDA x : Rebuild(x, extent, TRUE))
           finished == Attempt(restored, LAMBDA x : Done(Forgotten(x)) \union MayFail(Fails(x)))
           Good(x) == Ready(x) /\ Kept(r, x)
<1>1. /\ Ready(r) /\ r \in Records /\ Good(r) /\ extent \in Extents /\ saved \in Windows
      /\ r.restore_mode \in Extents /\ changed \in Screens
  BY ConsistentReady DEF Ready, Kept, Consistent, Screens, Changed
<1>2. o \in Leaving(screen, Fails(r)) \/ o \in Leaving(changed, finished)
  BY DEF LeaveDisplayMode, MayFail, Leaving, Changed
<1> HIDE DEF changed, saved, extent
<1>3. ASSUME NEW q \in restored PROVE q \in Outcomes /\ Good(q.record)
  <2>1. PICK c \in Restore(r, saved) : q \in (IF c.ok THEN Rebuild(c.record, extent, TRUE) ELSE {c})
    BY DEF Attempt
  <2>2. AfterRestore(r, saved, c)
    BY <1>1, RestoreOutcomes
  <2>3. c \in Outcomes /\ Good(c.record)
    BY <2>2 DEF AfterRestore, ByWindow
  <2>4. CASE ~c.ok
    BY <2>1, <2>3, <2>4
  <2>5. CASE c.ok
    <3>1. q \in Rebuild(c.record, extent, TRUE)
      BY <2>1, <2>5
    <3>2. AfterRebuild(c.record, extent, q)
      BY <1>1, <2>3, <3>1, RebuildOutcomes
    <3> QED BY <2>3, <3>2 DEF AfterRebuild, Kept
  <2> QED BY <2>4, <2>5
<1> HIDE DEF restored
<1>4. ASSUME NEW p \in finished
      PROVE  /\ p \in Outcomes /\ Consistent(p.record) /\ p.record.type = r.type
             /\ ~p.ok => Kept(r, p.record)
             /\ p.ok => p.record.mode = "windowed"
  <2>1. PICK q \in restored : p \in (IF q.ok THEN Done(Forgotten(q.record)) \union MayFail(Fails(q.record)) ELSE {q})
    BY DEF Attempt
  <2>2. q \in Outcomes /\ Good(q.record) /\ q.record \in Records
    BY <1>3 DEF Ready
  <2>3. Consistent(q.record) /\ q.record.type = r.type
    BY <2>2, KeptConsistent DEF Kept
  <2>4. CASE ~q.ok
    BY <2>1, <2>2, <2>3, <2>4
  <2>5. CASE q.ok /\ p \in Done(Forgotten(q.record))
    <3> DEFINE z == Forgotten(q.record)
    <3>1. Consistent(z) /\ z.type = r.type /\ z.mode = "windowed"
      BY <2>2, ForgottenConsistent
    <3> HIDE DEF z
    <3>2. p \in Done(z) /\ z \in Records
      BY <2>5, <3>1 DEF z, Consistent
    <3>3. p \in Outcomes /\ p.record = z /\ p.ok = TRUE
      BY <3>2, OutcomeOf
    <3> QED BY <3>1, <3>3
  <2>6. CASE q.ok /\ p \in Fails(q.record)
    <3>1. p \in Outcomes /\ p.record = q.record /\ p.ok = FALSE
      BY <2>2, <2>6, OutcomeOf
    <3> QED BY <2>2, <2>3, <3>1
  <2> QED BY <2>1, <2>4, <2>5, <2>6 DEF MayFail
<1> HIDE DEF finished
<1>5. CASE o \in Leaving(screen, Fails(r))
  <2>1. \A p \in Fails(r) : p \in Outcomes /\ p.ok = FALSE /\ p.record = r
    BY <1>1, OutcomeOf
  <2>2. PICK p \in Fails(r) : Left(p, screen, o)
    BY <1>5, <2>1, LeavingOutcome
  <2> QED BY <2>1, <2>2 DEF Left, AfterLeave, Kept
<1>6. CASE o \in Leaving(changed, finished)
  <2>1. finished \subseteq Outcomes
    BY <1>4
  <2>2. PICK p \in finished : Left(p, changed, o)
    BY <1>1, <1>6, <2>1, LeavingOutcome
  <2> QED BY <1>4, <2>2 DEF Left, AfterLeave, changed
<1> QED BY <1>2, <1>5, <1>6

-----------------------------------------------------------------------------
(***************************************************************************)
(* The calls.                                                              *)
(***************************************************************************)

\* What a call does to the displays: DisplayHeld, of an outcome.
DisplaysSafe(r, call, o) ==
  \A d \in Displays :
    /\ o.record[2][d] # screen[d] => \/ Has(o.record[1], d) /\ o.record[1].restore_mode = screen[d]
                                     \/ Has(r, d) /\ r.restore_mode = o.record[2][d]
                                     \/ ~o.ok /\ ~o.undone
    /\ Has(r, d) /\ ~Has(o.record[1], d) => r.restore_mode = o.record[2][d] \/ call = "shutdown"

\* The calls whose failures are undone.
Undoes(r, call) ==
  call \in {"resize", "borderless", "leave", "enter", "poll"} /\ ~(call = "leave" /\ r.mode = "fullscreen")

\* What a call may leave.
Safe(r, call, o) ==
  /\ o \in Ends /\ Consistent(o.record[1]) /\ DisplaysSafe(r, call, o)
  /\ Undoes(r, call) /\ ~o.ok /\ o.undone => Kept(r, o.record[1]) /\ Undid(r, o.record[1])

\* A transition that touches no display.
LEMMA QuietSafe ==
  ASSUME NEW r, Consistent(r), screen \in Screens, NEW call, NEW S, NEW o \in Leaving(screen, S),
         \A p \in S : Sound(r, p) /\ (r.mode = "fullscreen" => Kept(r, p.record))
  PROVE  Safe(r, call, o)
<1>1. S \subseteq Outcomes
  BY DEF Sound
<1>2. PICK p \in S : Left(p, screen, o)
  BY <1>1, LeavingOutcome
<1>3. Sound(r, p) /\ (r.mode = "fullscreen" => Kept(r, p.record))
  OBVIOUS
<1>4. DisplaysSafe(r, call, o)
  BY <1>2, <1>3 DEF DisplaysSafe, Left, Has, Kept
<1> QED BY <1>2, <1>3, <1>4 DEF Safe, Left, Sound

\* One that leaves the surface as it is.
LEMMA SameSafe ==
  ASSUME NEW r, Consistent(r), screen \in Screens, NEW call,
         NEW o \in Leaving(screen, Fails(r)) \cup Leaving(screen, Done(r))
  PROVE  Safe(r, call, o)
<1>1. \A p \in Fails(r) \cup Done(r) : p \in Outcomes /\ p.record = r
  BY OutcomeOf DEF Consistent
<1>2. \A p \in Fails(r) \cup Done(r) : Sound(r, p) /\ Kept(r, p.record)
  BY <1>1 DEF Sound, Kept, Undid
<1>3. o \in Leaving(screen, Fails(r) \cup Done(r))
  BY DEF Leaving
<1> QED BY <1>2, <1>3, QuietSafe

\* Entering a display mode.
LEMMA EnterSafe ==
  ASSUME NEW r, Consistent(r), HasWindow(r), screen \in Screens, NEW call,
         NEW display \in Displays, NEW mode \in Extents, NEW o \in EnterDisplayMode(r, display, mode)
  PROVE  Safe(r, call, o)
<1>1. AfterEnter(r, display, mode, o)
  BY EnterOutcomes
<1>2. \A d \in Displays : d # display => Changed(display, mode)[d] = screen[d]
  BY DEF Changed, Screens
<1>3. o.ok \in BOOLEAN /\ o.undone \in BOOLEAN
  BY <1>1 DEF AfterEnter, Ends
<1>4. DisplaysSafe(r, call, o)
  BY <1>1, <1>2, <1>3 DEF AfterEnter, DisplaysSafe, Has, Kept
<1> QED BY <1>1, <1>3, <1>4 DEF AfterEnter, Safe

\* Leaving it.
LEMMA LeaveSafe ==
  ASSUME NEW r, Consistent(r), HasWindow(r), r.mode = "fullscreen", screen \in Screens,
         NEW o \in LeaveDisplayMode(r)
  PROVE  Safe(r, "leave", o)
<1>1. AfterLeave(r, o)
  BY LeaveOutcomes
<1>2. \A d \in Displays : Changed(r.display, r.restore_mode)[d] = IF d = r.display THEN r.restore_mode ELSE screen[d]
  BY DEF Changed, Screens
<1>3. o.ok \in BOOLEAN /\ o.undone \in BOOLEAN
  BY <1>1 DEF AfterLeave, Ends
<1>4. DisplaysSafe(r, "leave", o)
  BY <1>1, <1>2, <1>3 DEF AfterLeave, DisplaysSafe, Has, Kept
<1> QED BY <1>1, <1>4 DEF AfterLeave, Safe, Undoes

\* setSurfaceWindowMode, whatever it is asked.
LEMMA SetModeSafe ==
  ASSUME NEW r, Consistent(r), r.type # "none", screen \in Screens,
         NEW call, NEW mode, NEW display, NEW display_mode,
         \/ call = "leave" /\ mode = "windowed" /\ display = "" /\ display_mode = 0
         \/ call = "borderless" /\ mode = "borderless" /\ display \in Displays /\ display_mode = 0
         \/ call = "enter" /\ mode = "fullscreen" /\ display \in Displays /\ display_mode \in Extents,
         NEW o \in SetMode(r, mode, display, display_mode)
  PROVE  Safe(r, call, o)
<1>1. CASE o \in Leaving(screen, Fails(r)) \cup Leaving(screen, Done(r))
  BY <1>1, SameSafe
<1>2. CASE o \notin Leaving(screen, Fails(r)) \cup Leaving(screen, Done(r))
  <2>1. /\ r.type = "window"
        /\ <<mode, display, display_mode>> # <<r.mode, r.display, r.display_mode>>
        /\ \/ mode = "fullscreen" /\ o \in EnterDisplayMode(r, display, display_mode)
           \/ mode = "windowed" /\ r.mode = "fullscreen" /\ o \in LeaveDisplayMode(r)
           \/ mode = "borderless" /\ r.mode # "fullscreen" /\ o \in Leaving(screen, ToBorderless(r, display))
           \/ mode = "windowed" /\ r.mode # "fullscreen" /\ o \in Leaving(screen, FromBorderless(r))
    BY <1>2 DEF SetMode, Consistent, Records
  <2>2. HasWindow(r) /\ r.mode \in {"windowed", "borderless", "fullscreen"}
    BY <2>1 DEF HasWindow, Consistent
  <2>3. CASE mode = "fullscreen" /\ o \in EnterDisplayMode(r, display, display_mode)
    BY <2>2, <2>3, EnterSafe
  <2>4. CASE mode = "windowed" /\ r.mode = "fullscreen" /\ o \in LeaveDisplayMode(r)
    BY <2>2, <2>4, LeaveSafe
  <2>5. CASE mode = "borderless" /\ r.mode # "fullscreen" /\ o \in Leaving(screen, ToBorderless(r, display))
    <3>1. r.mode \in {"windowed", "borderless"} /\ display \in Displays
      BY <2>2, <2>5
    <3>2. \A p \in ToBorderless(r, display) : Sound(r, p)
      BY <2>2, <3>1, ToBorderlessSound DEF Screens
    <3> QED BY <2>5, <3>2, QuietSafe
  <2>6. CASE mode = "windowed" /\ r.mode # "fullscreen" /\ o \in Leaving(screen, FromBorderless(r))
    <3>1. r.mode = "borderless"
      BY <2>1, <2>2, <2>6 DEF Consistent
    <3>2. \A p \in FromBorderless(r) : Sound(r, p)
      BY <2>2, <3>1, FromBorderlessSound
    <3> QED BY <2>6, <3>2, QuietSafe
  <2> QED BY <2>1, <2>3, <2>4, <2>5, <2>6
<1> QED BY <1>1, <1>2

-----------------------------------------------------------------------------
(***************************************************************************)
(* The invariant, and what each step does.                                 *)
(***************************************************************************)

IInv == Consistent(record) /\ screen \in Screens

\* What Undone and DisplayHeld say of a step.
UndoneStep ==
  /\ answer'.call \in {"resize", "borderless", "leave", "enter", "poll"} /\ ~answer'.ok /\ answer'.undone
  /\ ~(answer'.call = "leave" /\ record.mode = "fullscreen")
  => /\ Described(record') = Described(record)
     /\ record'.window.style \in {record.window.style, StyleOf(record.mode)}
     /\ record'.window.place = record.window.place
     /\ record'.window.client \in {record.window.client, record.extent}
     /\ record.textures # 0 => record'.textures \in {record.textures, 0}

DisplayStep ==
  \A d \in Displays :
    /\ screen'[d] # screen[d] => \/ Has(record', d) /\ record'.restore_mode = screen[d]
                                 \/ Has(record, d) /\ record.restore_mode = screen'[d]
                                 \/ ~answer'.undone
    /\ Has(record, d) /\ ~Has(record', d) => record.restore_mode = screen'[d] \/ answer'.call = "shutdown"

\* A call all of whose outcomes are safe.
LEMMA CallKeeps ==
  ASSUME IInv, NEW call, NEW S, Call(call, S), \A o \in S : Safe(record, call, o)
  PROVE  IInv' /\ UndoneStep /\ DisplayStep
<1>1. PICK o \in S : record' = o.record[1] /\ screen' = o.record[2] /\ Answer(call, o)
  BY DEF Call
<1>2. /\ o \in Ends /\ Consistent(record') /\ DisplaysSafe(record, call, o)
      /\ Undoes(record, call) /\ ~o.ok /\ o.undone => Kept(record, record') /\ Undid(record, record')
  BY <1>1 DEF Safe
<1>3. screen' \in Screens /\ o.ok \in BOOLEAN /\ o.undone \in BOOLEAN
  BY <1>1, <1>2 DEF Ends
<1>4. \/ o.ok /\ call # "shutdown" /\ answer' = NoAnswer
      \/ answer' = [call |-> call, ok |-> o.ok, undone |-> o.undone] /\ (~o.ok \/ call = "shutdown")
  BY <1>1, <1>3 DEF Answer
<1>5. IInv'
  BY <1>2, <1>3 DEF IInv
<1>6. UndoneStep
  <2>1. CASE answer' = NoAnswer
    BY <2>1 DEF UndoneStep, NoAnswer
  <2>2. CASE answer' = [call |-> call, ok |-> o.ok, undone |-> o.undone]
    <3>1. answer'.call = call /\ answer'.ok = o.ok /\ answer'.undone = o.undone
      BY <2>2
    <3> QED BY <1>2, <3>1 DEF UndoneStep, Undoes, Kept, Undid, Described
  <2> QED BY <1>4, <2>1, <2>2
<1>7. DisplayStep
  <2>1. CASE o.ok /\ call # "shutdown" /\ answer' = NoAnswer
    BY <1>1, <1>2, <2>1 DEF DisplayStep, DisplaysSafe
  <2>2. CASE answer' = [call |-> call, ok |-> o.ok, undone |-> o.undone]
    <3>1. answer'.call = call /\ answer'.undone = o.undone
      BY <2>2
    <3> QED BY <1>1, <1>2, <3>1 DEF DisplayStep, DisplaysSafe
  <2> QED BY <1>4, <2>1, <2>2
<1> QED BY <1>5, <1>6, <1>7

\* No surface has the extent 0.

\* No surface has the extent 0: it stands for none.
Named == 0 \notin Extents

\* The surface that does not exist.
LEMMA NoSurfaceConsistent == Consistent(NoSurface) /\ NoSurface \in Records /\ NoSurface.mode = "none"
BY DEF Consistent, NoSurface, Names, Records, Buffered, Sizes

\* A surface that has just been created with its window.
LEMMA WindowedConsistent ==
  ASSUME NEW e \in Extents
  PROVE  LET w == Windowed(e) IN Consistent(w) /\ HasWindow(w) /\ w.type = "window" /\ w \in Records
<1> DEFINE w == Windowed(e)
           window == [style |-> "framed", place |-> "free", client |-> e, minimized |-> FALSE]
<1>1. window \in Windows
  BY DEF Windows, Places
<1>2. w = [NoSurface EXCEPT !.type = "window", !.open = TRUE, !.chain = e, !.textures = 1, !.extent = e,
                            !.mode = "windowed", !.window = window]
  BY DEF Windowed
<1> HIDE DEF w, window
<1>3. /\ w \in Records /\ w.type = "window" /\ w.chain = e /\ w.extent = e /\ w.mode = "windowed"
      /\ w.window = window /\ w.display = "" /\ w.display_mode = 0
  BY <1>1, <1>2 DEF NoSurface, Names, Records, Sizes
<1>4. Consistent(w) /\ HasWindow(w)
  BY <1>1, <1>3 DEF Consistent, Buffered, HasWindow
<1> QED BY <1>3, <1>4 DEF w

\* Creating a surface that takes no display.
LEMMA CreatedSafe ==
  ASSUME IInv, record.mode = "none", NEW x, Consistent(x),
         NEW o \in Leaving(screen, Fails(NoSurface) \cup Done(x))
  PROVE  Safe(record, "create", o)
<1>1. \A p \in Fails(NoSurface) \cup Done(x) : p \in Outcomes /\ Consistent(p.record)
  <2>1. x \in Records /\ NoSurface \in Records /\ Consistent(NoSurface)
    BY NoSurfaceConsistent DEF Consistent
  <2>2. /\ \A p \in Fails(NoSurface) : p \in Outcomes /\ p.record = NoSurface
        /\ \A p \in Done(x) : p \in Outcomes /\ p.record = x
    BY <2>1, OutcomeOf
  <2> QED BY <2>1, <2>2
<1>2. PICK p \in Fails(NoSurface) \cup Done(x) : Left(p, screen, o)
  BY <1>1, LeavingOutcome DEF IInv
<1>3. DisplaysSafe(record, "create", o)
  BY <1>2 DEF DisplaysSafe, Left, Has
<1> QED BY <1>1, <1>2, <1>3 DEF Safe, Left, Undoes

\* createSurface and createDirectDisplaySurface.
LEMMA CreateKeeps ==
  ASSUME IInv, CreateOffscreen \/ CreateWindow \/ CreateDirectDisplay
  PROVE  IInv' /\ UndoneStep /\ DisplayStep
<1>1. record.mode = "none" /\ screen \in Screens
  BY DEF CreateOffscreen, CreateWindow, CreateDirectDisplay, Exists, IInv, Consistent
<1>2. CASE CreateOffscreen
  <2> DEFINE x == [NoSurface EXCEPT !.type = "offscreen", !.textures = 1]
             S == Leaving(screen, MayFail(Fails(NoSurface)) \union Done(x))
  <2>1. Consistent(x)
    BY DEF Consistent, NoSurface, Names, Records, Buffered, Sizes
  <2>2. S \subseteq Leaving(screen, Fails(NoSurface) \cup Done(x))
    BY DEF MayFail, Leaving
  <2>3. Call("create", S)
    BY <1>2 DEF CreateOffscreen
  <2> HIDE DEF x
  <2>4. \A o \in S : Safe(record, "create", o)
    BY <1>1, <2>1, <2>2, CreatedSafe
  <2> HIDE DEF S
  <2> QED BY <2>3, <2>4, CallKeeps
<1>3. CASE CreateWindow
  <2>1. PICK e \in Extents : Call("create", Leaving(screen, MayFail(Fails(NoSurface)) \union Done(Windowed(e))))
    BY <1>3 DEF CreateWindow
  <2> DEFINE x == Windowed(e)
             S == Leaving(screen, MayFail(Fails(NoSurface)) \union Done(x))
  <2>2. Consistent(x)
    BY WindowedConsistent
  <2>3. S \subseteq Leaving(screen, Fails(NoSurface) \cup Done(x))
    BY DEF MayFail, Leaving
  <2>4. Call("create", S)
    BY <2>1
  <2> HIDE DEF x
  <2>5. \A o \in S : Safe(record, "create", o)
    BY <1>1, <2>2, <2>3, CreatedSafe
  <2> HIDE DEF S
  <2> QED BY <2>4, <2>5, CallKeeps
<1>4. CASE CreateDirectDisplay
  <2>1. PICK e \in Extents, d \in Displays :
          Call("create", Leaving(screen, MayFail(Fails(NoSurface)))
            \union {[o EXCEPT !.record[1] = IF o.ok THEN [@ EXCEPT !.type = "direct"] ELSE NoSurface] :
                    o \in EnterDisplayMode(Windowed(e), d, e)})
    BY <1>4 DEF CreateDirectDisplay
  <2> DEFINE w == Windowed(e)
             direct(x) == [x EXCEPT !.type = "direct"]
             made(p) == [p EXCEPT !.record[1] = IF p.ok THEN direct(p.record[1]) ELSE NoSurface]
             T == {made(p) : p \in EnterDisplayMode(w, d, e)}
             S == Leaving(screen, MayFail(Fails(NoSurface))) \union T
  <2>2. Call("create", S)
    BY <2>1
  <2>3. Consistent(w) /\ HasWindow(w) /\ w.type = "window"
    BY WindowedConsistent
  <2> HIDE DEF w
  <2>4. ASSUME NEW p \in EnterDisplayMode(w, d, e) PROVE Safe(record, "create", made(p))
    <3>1. AfterEnter(w, d, e, p)
      BY <1>1, <2>3, EnterOutcomes
    <3> DEFINE y == p.record[1]
               z == IF p.ok THEN direct(y) ELSE NoSurface
               s == p.record[2]
               o == made(p)
    <3>2. /\ p \in Ends /\ Consistent(y) /\ y.type = "window" /\ s \in Screens /\ p.record = <<y, s>>
          /\ p.ok \in BOOLEAN /\ p.undone \in BOOLEAN /\ y \in Records
      <4>1. p \in Ends /\ Consistent(p.record[1]) /\ p.record[1].type = w.type
        BY <3>1 DEF AfterEnter
      <4>2. p.record \in Records \X Screens /\ p.ok \in BOOLEAN /\ p.undone \in BOOLEAN
        BY <4>1 DEF Ends
      <4>3. p.record = <<p.record[1], p.record[2]>> /\ p.record[1] \in Records /\ p.record[2] \in Screens
        BY <4>2
      <4> QED BY <2>3, <4>1, <4>2, <4>3
    <3>3. /\ p.ok => y.mode = "fullscreen" /\ y.display = d /\ y.restore_mode = screen[d] /\ s = Changed(d, e)
          /\ ~p.ok /\ p.undone => s = screen
      BY <3>1 DEF AfterEnter
    <3>4. /\ direct(y) \in Records /\ Consistent(direct(y))
          /\ direct(y).mode = y.mode /\ direct(y).display = y.display /\ direct(y).restore_mode = y.restore_mode
      <4>1. direct(y) \in Records /\ direct(y).type = "direct" /\ direct(y).mode = y.mode
            /\ direct(y).display = y.display /\ direct(y).restore_mode = y.restore_mode
            /\ direct(y).window = y.window /\ direct(y).extent = y.extent /\ direct(y).chain = y.chain
            /\ direct(y).lost = y.lost /\ direct(y).display_mode = y.display_mode
            /\ direct(y).windowed_state = y.windowed_state /\ direct(y).windowed_extent = y.windowed_extent
        BY <3>2 DEF Records
      <4> QED BY <3>2, <4>1 DEF Consistent, Buffered
    <3> HIDE DEF y, s
    <3>5. z \in Records /\ Consistent(z)
      BY <3>4, NoSurfaceConsistent
    <3>6. o = [p EXCEPT !.record = <<z, s>>]
      BY <3>2 DEF y, s
    <3> DEFINE pair == <<z, s>>
    <3>7. pair \in Records \X Screens /\ pair[1] = z /\ pair[2] = s
      BY <3>2, <3>5
    <3>8. o = [p EXCEPT !.record = pair]
      BY <3>6
    <3> HIDE DEF pair, made
    <3>9. o \in Ends /\ o.record = pair /\ o.ok = p.ok /\ o.undone = p.undone
      BY <3>2, <3>7, <3>8 DEF Ends
    <3>10. \A b \in Displays : b # d => Changed(d, e)[b] = screen[b]
      BY <1>1 DEF Changed, Screens
    <3>11. DisplaysSafe(record, "create", o)
      <4>1. o.record[1] = z /\ o.record[2] = s
        BY <3>7, <3>9
      <4>2. CASE p.ok
        <5>1. z = direct(y) /\ Has(z, d)
          BY <3>3, <3>4, <4>2 DEF Has
        <5> HIDE DEF z, direct
        <5> QED BY <1>1, <3>3, <3>4, <3>10, <4>1, <4>2, <5>1 DEF DisplaysSafe, Has
      <4>3. CASE ~p.ok
        BY <1>1, <3>2, <3>3, <3>9, <4>1, <4>3 DEF DisplaysSafe, Has
      <4> QED BY <4>2, <4>3
    <3> QED BY <3>5, <3>7, <3>9, <3>11 DEF Safe, Undoes
  <2>5. \A o \in Leaving(screen, MayFail(Fails(NoSurface))) : Safe(record, "create", o)
    <3>1. \A o \in Leaving(screen, MayFail(Fails(NoSurface))) :
            o \in Leaving(screen, Fails(NoSurface) \cup Done(NoSurface))
      BY DEF Leaving, MayFail
    <3> QED BY <1>1, <3>1, NoSurfaceConsistent, CreatedSafe
  <2> HIDE DEF made
  <2>6. \A o \in S : Safe(record, "create", o)
    BY <2>4, <2>5
  <2> HIDE DEF S
  <2> QED BY <2>2, <2>6, CallKeeps
<1> QED BY <1>2, <1>3, <1>4

\* A resize, of a surface with a window or without.
LEMMA ResizeKeeps == ASSUME IInv, ResizeSurface PROVE IInv' /\ UndoneStep /\ DisplayStep
<1>1. PICK e \in Extents : Call("resize", Leaving(screen, Resize(record, e)))
  BY DEF ResizeSurface
<1> DEFINE S == Leaving(screen, Resize(record, e))
<1>2. Consistent(record) /\ screen \in Screens
  BY DEF IInv
<1>3. \A o \in S : Safe(record, "resize", o)
  <2>1. CASE HasWindow(record)
    <3>1. \A p \in Resize(record, e) : Sound(record, p) /\ Kept(record, p.record)
      BY <1>2, <2>1, ResizeSound
    <3> QED BY <1>2, <3>1, QuietSafe
  <2>2. CASE ~HasWindow(record)
    <3>1. S = Leaving(screen, Fails(record))
      BY <2>2 DEF Resize, HasWindow
    <3> QED BY <1>2, <3>1, SameSafe
  <2> QED BY <2>1, <2>2
<1> HIDE DEF S
<1> QED BY <1>1, <1>3, CallKeeps DEF S

\* A change of mode.
LEMMA ModeKeeps == ASSUME IInv, SetSurfaceWindowMode PROVE IInv' /\ UndoneStep /\ DisplayStep
<1>1. Consistent(record) /\ screen \in Screens /\ record.type # "none"
  BY DEF IInv, SetSurfaceWindowMode, Exists
<1>2. CASE Call("leave", SetMode(record, "windowed", "", 0))
  <2>1. \A o \in SetMode(record, "windowed", "", 0) : Safe(record, "leave", o)
    BY <1>1, SetModeSafe
  <2> QED BY <1>2, <2>1, CallKeeps
<1>3. CASE \E d \in Displays : Call("borderless", SetMode(record, "borderless", d, 0))
  <2>1. PICK d \in Displays : Call("borderless", SetMode(record, "borderless", d, 0))
    BY <1>3
  <2>2. \A o \in SetMode(record, "borderless", d, 0) : Safe(record, "borderless", o)
    BY <1>1, SetModeSafe
  <2> QED BY <2>1, <2>2, CallKeeps
<1>4. CASE \E d \in Displays, m \in Extents : Call("enter", SetMode(record, "fullscreen", d, m))
  <2>1. PICK d \in Displays, m \in Extents : Call("enter", SetMode(record, "fullscreen", d, m))
    BY <1>4
  <2>2. \A o \in SetMode(record, "fullscreen", d, m) : Safe(record, "enter", o)
    BY <1>1, SetModeSafe
  <2> QED BY <2>1, <2>2, CallKeeps
<1> QED BY <1>2, <1>3, <1>4 DEF SetSurfaceWindowMode

\* What holds of a call on the surface whose pending resize is taken up holds of
\* the call itself.
LEMMA HandledSafe ==
  ASSUME NEW o, Safe(Handled(record), "poll", o), Consistent(record), HasWindow(record)
  PROVE  Safe(record, "poll", o)
<1>1. Kept(record, Handled(record)) /\ Buffers(record, Handled(record)) /\ Handled(record).window = record.window
  BY ConsistentReady, HandledKeeps
<1> QED BY <1>1 DEF Safe, DisplaysSafe, Has, Kept, Buffers, Undoes, Undid

\* Taking the events.
LEMMA PollKeeps == ASSUME IInv, PollSurfaceEvents PROVE IInv' /\ UndoneStep /\ DisplayStep
<1> DEFINE r == Handled(record)
           rebuilt == Rollback(Rebuild(r, r.window.client, FALSE), LAMBDA x : ResizeClient(x, r.extent))
           S == Leaving(screen, IF /\ record.extent_changed /\ r.type = "window" /\ r.mode = "windowed"
                                   /\ ~r.window.minimized
                                THEN rebuilt ELSE Done(r))
<1>1. Consistent(record) /\ screen \in Screens /\ HasWindow(record)
  BY DEF IInv, PollSurfaceEvents, Exists, HasWindow, Consistent, Records
<1>2. Consistent(r) /\ HasWindow(r)
  BY <1>1, ConsistentReady, HandledKeeps, KeptConsistent
<1>3. r.window.client \in Extents
  BY <1>2, ConsistentReady DEF Ready, Windows
<1>4. Call("poll", S)
  BY DEF PollSurfaceEvents
<1> HIDE DEF r
<1>5. \A o \in S : Safe(r, "poll", o)
  <2>1. \A p \in rebuilt : Sound(r, p) /\ Kept(r, p.record)
    BY <1>2, <1>3, PollSound
  <2>2. \A o \in Leaving(screen, rebuilt) : Safe(r, "poll", o)
    BY <1>1, <1>2, <2>1, QuietSafe
  <2>3. \A o \in Leaving(screen, Done(r)) : Safe(r, "poll", o)
    BY <1>1, <1>2, SameSafe
  <2> QED BY <2>2, <2>3
<1> HIDE DEF S
<1>6. \A o \in S : Safe(record, "poll", o)
  BY <1>1, <1>5, HandledSafe DEF r
<1> QED BY <1>4, <1>6, CallKeeps

\* Destroying the surface, or everything, gives the display back first.
LEMMA EndKeeps == ASSUME IInv, DestroySurface \/ Shutdown PROVE IInv' /\ UndoneStep /\ DisplayStep
<1> DEFINE S == IF record.mode = "fullscreen" THEN LeaveDisplayMode(record) ELSE Leaving(screen, Done(record))
           gone(p) == [p EXCEPT !.record[1] = NoSurface]
           ended(p) == [p EXCEPT !.record[1] = NoSurface, !.ok = TRUE, !.undone = TRUE]
<1>1. Consistent(record) /\ record \in Records /\ screen \in Screens
  BY DEF IInv, Consistent
<1>2. ASSUME NEW p \in S
      PROVE  /\ p \in Ends /\ Consistent(p.record[1])
             /\ p.ok => \/ record.mode = "fullscreen" /\ p.record[2] = Changed(record.display, record.restore_mode)
                        \/ record.mode # "fullscreen" /\ p.record[2] = screen
             /\ ~p.ok => /\ record.mode = "fullscreen" /\ Kept(record, p.record[1])
                         /\ p.record[2] \in {screen, Changed(record.display, record.restore_mode)}
  <2>1. CASE record.mode = "fullscreen"
    <3>1. HasWindow(record)
      BY <1>1, <2>1 DEF HasWindow, Consistent, Records
    <3>2. AfterLeave(record, p)
      BY <1>1, <2>1, <3>1, LeaveOutcomes
    <3> QED BY <2>1, <3>2 DEF AfterLeave
  <2>2. CASE record.mode # "fullscreen"
    <3>1. \A q \in Done(record) : q \in Outcomes /\ q.record = record /\ q.ok = TRUE
      BY <1>1, OutcomeOf
    <3>2. PICK q \in Done(record) : Left(q, screen, p)
      BY <1>1, <2>2, <3>1, LeavingOutcome
    <3> QED BY <1>1, <2>2, <3>1, <3>2 DEF Left
  <2> QED BY <2>1, <2>2
<1>3. \A d \in Displays : Changed(record.display, record.restore_mode)[d]
                            = IF d = record.display THEN record.restore_mode ELSE screen[d]
  BY <1>1 DEF Changed, Screens
<1> HIDE DEF S
<1>4. ASSUME NEW p \in S, NEW o \in Ends, o.record[1] = NoSurface, o.record[2] = p.record[2],
             p.ok = TRUE \/ o.ok = TRUE,
             NEW call \in {"destroy", "shutdown"}, call = "shutdown" \/ p.ok = TRUE
      PROVE  Safe(record, call, o)
  <2>1. \A d : ~Has(o.record[1], d)
    BY <1>4, NoSurfaceConsistent DEF Has
  <2>2. ASSUME record.mode # "fullscreen" PROVE DisplaysSafe(record, call, o)
    <3>1. o.record[2] = screen
      BY <1>2, <1>4, <2>2
    <3>2. \A d : ~Has(record, d)
      BY <2>2 DEF Has
    <3> QED BY <2>1, <3>1, <3>2 DEF DisplaysSafe
  <2>3. ASSUME record.mode = "fullscreen" PROVE DisplaysSafe(record, call, o)
    <3>1. \/ o.record[2] = Changed(record.display, record.restore_mode)
          \/ o.record[2] = screen /\ call = "shutdown"
      BY <1>2, <1>4, <2>3
    <3>2. ASSUME NEW d \in Displays
          PROVE  /\ o.record[2][d] # screen[d] => d = record.display /\ record.restore_mode = o.record[2][d]
                 /\ d = record.display => record.restore_mode = o.record[2][d] \/ call = "shutdown"
      BY <1>3, <3>1
    <3>3. \A d \in Displays : Has(record, d) <=> record.display = d
      BY <2>3 DEF Has
    <3> QED BY <2>1, <3>2, <3>3 DEF DisplaysSafe
  <2>4. DisplaysSafe(record, call, o)
    BY <2>2, <2>3
  <2> QED BY <1>4, <2>4, NoSurfaceConsistent DEF Safe, Undoes
<1>5. ASSUME NEW p \in S
      PROVE  /\ gone(p) \in Ends /\ gone(p).record[1] = NoSurface /\ gone(p).record[2] = p.record[2]
             /\ gone(p).ok = p.ok
             /\ ended(p) \in Ends /\ ended(p).record[1] = NoSurface /\ ended(p).record[2] = p.record[2]
             /\ ended(p).ok = TRUE
  <2>1. p \in Ends
    BY <1>2
  <2>2. p.record \in Records \X Screens
    BY <2>1 DEF Ends
  <2>3. p.record = <<p.record[1], p.record[2]>> /\ p.record[2] \in Screens
    BY <2>2
  <2> DEFINE pair == <<NoSurface, p.record[2]>>
  <2>4. [p.record EXCEPT ![1] = NoSurface] = pair
    BY <2>3
  <2>5. pair \in Records \X Screens /\ pair[1] = NoSurface /\ pair[2] = p.record[2]
    BY <2>3, NoSurfaceConsistent
  <2>6. gone(p) = [p EXCEPT !.record = pair] /\ ended(p) = [p EXCEPT !.record = pair, !.ok = TRUE, !.undone = TRUE]
    BY <2>4
  <2> HIDE DEF pair, gone, ended
  <2> QED BY <2>1, <2>5, <2>6 DEF Ends
<1>6. CASE DestroySurface
  <2> DEFINE T == {IF p.ok THEN gone(p) ELSE p : p \in S}
  <2>1. Call("destroy", T)
    BY <1>6 DEF DestroySurface, S
  <2> HIDE DEF gone
  <2>2. ASSUME NEW p \in S PROVE Safe(record, "destroy", IF p.ok THEN gone(p) ELSE p)
    <3>1. CASE p.ok
      <4>1. p.ok = TRUE
        BY <1>2, <3>1 DEF Ends
      <4>2. gone(p) \in Ends /\ gone(p).record[1] = NoSurface /\ gone(p).record[2] = p.record[2]
        BY <1>5
      <4>3. Safe(record, "destroy", gone(p))
        BY <1>4, <4>1, <4>2
      <4> QED BY <3>1, <4>3
    <3>2. CASE ~p.ok
      <4>1. /\ record.mode = "fullscreen" /\ p \in Ends /\ Consistent(p.record[1]) /\ Kept(record, p.record[1])
            /\ p.record[2] \in {screen, Changed(record.display, record.restore_mode)}
        BY <1>2, <3>2
      <4>2. \A d \in Displays :
              p.record[2][d] # screen[d] => d = record.display /\ p.record[2][d] = record.restore_mode
        BY <1>3, <4>1
      <4>3. p.record[1].mode = record.mode /\ p.record[1].display = record.display
        BY <4>1 DEF Kept
      <4>4. DisplaysSafe(record, "destroy", p)
        BY <4>1, <4>2, <4>3 DEF DisplaysSafe, Has
      <4>5. ~Undoes(record, "destroy")
        BY DEF Undoes
      <4> QED BY <3>2, <4>1, <4>4, <4>5 DEF Safe
    <3> QED BY <3>1, <3>2
  <2>3. \A o \in T : Safe(record, "destroy", o)
    BY <2>2
  <2> HIDE DEF T
  <2> QED BY <2>1, <2>3, CallKeeps
<1>7. CASE Shutdown
  <2> DEFINE T == {ended(p) : p \in S}
  <2>1. Call("shutdown", T)
    BY <1>7 DEF Shutdown, S
  <2> HIDE DEF ended
  <2>2. ASSUME NEW p \in S PROVE Safe(record, "shutdown", ended(p))
    BY <1>4, <1>5
  <2>3. \A o \in T : Safe(record, "shutdown", o)
    BY <2>2
  <2> HIDE DEF T
  <2> QED BY <2>1, <2>3, CallKeeps
<1> QED BY <1>6, <1>7

\* The user changes the window, never what the surface describes.
LEMMA UserKeeps ==
  ASSUME IInv, UserSizes \/ UserMinimizes \/ UserCloses
  PROVE  IInv' /\ UndoneStep /\ DisplayStep
<1>1. Consistent(record) /\ HasWindow(record) /\ Ready(record) /\ record \in Records
  <2>1. record.open
    BY DEF UserSizes, UserMinimizes, UserCloses
  <2>2. Consistent(record) /\ HasWindow(record)
    BY <2>1 DEF IInv, Consistent, HasWindow, Records
  <2> QED BY <2>2, ConsistentReady
<1>2. ASSUME NEW r, User(r), Consistent(r), r.mode = record.mode, r.display = record.display
      PROVE  IInv' /\ UndoneStep /\ DisplayStep
  <2>1. record' = r /\ screen' = screen /\ answer'.call = "none"
    BY <1>2 DEF User, NoAnswer
  <2>2. IInv'
    BY <1>2, <2>1 DEF IInv
  <2> QED BY <1>2, <2>1, <2>2 DEF UndoneStep, DisplayStep, Has
<1>3. CASE UserSizes
  <2>1. PICK e \in Extents : User(Sized(record, [record.window EXCEPT !.client = e, !.minimized = FALSE]))
    BY <1>3 DEF UserSizes
  <2> DEFINE w == [record.window EXCEPT !.client = e, !.minimized = FALSE]
  <2>2. w \in Windows
    BY <1>1 DEF Ready, Windows
  <2> HIDE DEF w
  <2>3. Ready(Sized(record, w)) /\ Kept(record, Sized(record, w))
    BY <1>1, <2>2, SizedKeeps
  <2>4. Consistent(Sized(record, w))
    BY <1>1, <2>3, KeptConsistent
  <2> QED BY <1>2, <2>1, <2>3, <2>4 DEF w, Kept
<1>4. CASE UserMinimizes
  <2> DEFINE w == [record.window EXCEPT !.minimized = TRUE]
             r == [record EXCEPT !.window = w]
  <2>1. User(r)
    BY <1>4 DEF UserMinimizes
  <2>2. w \in Windows
    BY <1>1 DEF Ready, Windows
  <2> HIDE DEF w
  <2>3. Ready(r) /\ Kept(record, r)
    BY <1>1, <2>2 DEF Ready, Buffered, Records, Kept
  <2>4. Consistent(r) /\ r.mode = record.mode /\ r.display = record.display
    BY <1>1, <2>3, KeptConsistent DEF Kept
  <2> QED BY <1>2, <2>1, <2>4
<1>5. CASE UserCloses
  <2> DEFINE r == [record EXCEPT !.open = FALSE]
  <2>1. User(r)
    BY <1>5 DEF UserCloses
  <2>2. r \in Records /\ r.open = FALSE /\ r.window = record.window /\ r.extent = record.extent
        /\ r.chain = record.chain /\ r.lost = record.lost /\ r.type = record.type
        /\ r.mode = record.mode /\ r.display = record.display /\ r.display_mode = record.display_mode
        /\ r.windowed_state = record.windowed_state /\ r.windowed_extent = record.windowed_extent
        /\ r.restore_mode = record.restore_mode
    BY <1>1 DEF Records
  <2> HIDE DEF r
  <2>3. Consistent(r)
    BY <1>1, <2>2 DEF Consistent, Buffered
  <2> QED BY <1>2, <2>1, <2>2, <2>3
<1> QED BY <1>3, <1>4, <1>5

\* The invariant holds of a surface that was never created.
LEMMA SurfaceInit == Init => IInv
BY NoSurfaceConsistent DEF Init, IInv, Screens

\* It holds after every step, and the step does what the properties say.
LEMMA SurfaceStep ==
  ASSUME IInv, [Next]_vars
  PROVE  IInv' /\ (~UNCHANGED vars => UndoneStep /\ DisplayStep)
<1>1. CASE Next
  BY <1>1, CreateKeeps, ResizeKeeps, ModeKeeps, PollKeeps, EndKeeps, UserKeeps DEF Next
<1>2. CASE UNCHANGED vars
  BY <1>2 DEF vars, IInv
<1> QED BY <1>1, <1>2

\* The invariant implies that the buffers match.
LEMMA Matched == ASSUME Named, IInv PROVE BuffersMatch
<1>1. \A w \in Windows : w # NoWindow
  <2>1. NoWindow.style = "none" /\ \A w \in Windows : w.style # "none"
    BY DEF Windows, NoWindow
  <2> QED BY <2>1
<1> QED BY <1>1 DEF IInv, Consistent, Buffered, BuffersMatch, Named

\* The invariant, in every reachable state.
LEMMA Invariant == Spec => []IInv
<1>1. IInv /\ [Next]_vars => IInv'
  BY SurfaceStep
<1> QED BY <1>1, SurfaceInit, PTL DEF Spec

\* The textures of a surface are what its chain holds and what it describes, and a
\* surface that is not windowed knows how to be (resizeWindowSurfaceBuffers,
\* setSurfaceWindowMode).
THEOREM BuffersMatchAlways == ASSUME Named PROVE Spec => []BuffersMatch
<1>1. IInv => BuffersMatch
  BY Matched
<1> QED BY <1>1, Invariant, PTL

\* A transition that fails without reporting a failed rollback has changed neither
\* the mode nor the description (transitionWithRollbackError).
THEOREM UndoneAlways == Spec => Undone
<1>1. IInv /\ [Next]_vars => [UndoneStep]_vars
  BY SurfaceStep
<1>2. [][UndoneStep]_vars => Undone
  BY PTL DEF UndoneStep, Undone
<1> QED BY <1>1, <1>2, Invariant, PTL DEF Spec

\* A display is given back by the surface that took it, before that surface goes
\* (enterDisplayModeFullscreen, leaveDisplayModeFullscreen, destroySurface).
THEOREM DisplayHeldAlways == Spec => DisplayHeld
<1>1. IInv /\ [Next]_vars => [DisplayStep]_vars
  BY SurfaceStep
<1>2. [][DisplayStep]_vars => DisplayHeld
  BY PTL DEF DisplayStep, DisplayHeld
<1> QED BY <1>1, <1>2, Invariant, PTL DEF Spec
=============================================================================
