------------------------------ MODULE LiveAnim -------------------------------
(***************************************************************************)
(* The canvas engine of the live page (public/live.js): packet paths are   *)
(* animated hop by hop by one loop of animation frames that goes to sleep  *)
(* when there is nothing to draw or the VCR is paused and has to be woken  *)
(* again, by matrix lines with frames of their own, and by fading lines.   *)
(*                                                                         *)
(* Progress is counted in frames: a line takes LineFrames of them, a       *)
(* pulse or a ghost PulseFrames, a fading line FadeFrames.  Frames an      *)
(* earlier visit requested may still be pending when the page is entered   *)
(* again.  Colours, geometry and the frame rate cap are left out.          *)
(***************************************************************************)
EXTENDS Integers, FiniteSets

CONSTANTS Paths,        \* identities of the animated paths
          MaxHops,      \* bound on the hops of a path
          MaxAnims,     \* MAX_CONCURRENT_ANIMS
          MaxRecent,    \* 5: fading lines kept
          LineFrames, PulseFrames, FadeFrames,
          MaxToggles,   \* bound on pauses and matrix switches
          MaxMounts     \* bound on visits of the page

ASSUME LiveAnimAssumption ==
    /\ IsFiniteSet(Paths) /\ MaxHops \in Nat \ {0, 1} /\ MaxAnims \in Nat \ {0}
    /\ MaxRecent \in Nat \ {0} /\ LineFrames \in Nat \ {0} /\ PulseFrames \in Nat \ {0}
    /\ FadeFrames \in Nat \ {0} /\ MaxToggles \in Nat /\ MaxMounts \in Nat \ {0}

VARIABLES path,      \* path -> [st, hop, of, age, fired, visit]
          eng,       \* the engine's variables
          toggles, mounts

animVars == <<path, eng, toggles, mounts>>

\* st: idle, canvas (in activeAnimations), matrix (a frame of its own), done, lost.
PathType == [st : {"idle", "canvas", "matrix", "done", "lost"}, hop : 0..MaxHops, of : 0..MaxHops,
             age : 0..LineFrames, fired : 0..(MaxHops + 1), visit : Nat]

\* pulses is the frames the youngest pulse or ghost has left; fades maps each
\* line that fades to the frames it has left; recent is recentPaths.
EngType == [ctx : BOOLEAN, paused : BOOLEAN, matrix : BOOLEAN, isAnimating : BOOLEAN, raf : Nat,
            activeAnims : Nat, pulses : 0..PulseFrames, isFading : BOOLEAN, fadeRaf : Nat,
            lines : Nat, fades : SUBSET [line : Nat, left : 0..FadeFrames], recent : SUBSET Nat]

AnimInit ==
    /\ path = [p \in Paths |-> [st |-> "idle", hop |-> 0, of |-> 0, age |-> 0, fired |-> 0, visit |-> 0]]
    /\ eng = [ctx |-> FALSE, paused |-> FALSE, matrix |-> FALSE, isAnimating |-> FALSE, raf |-> 0,
              activeAnims |-> 0, pulses |-> 0, isFading |-> FALSE, fadeRaf |-> 0, lines |-> 0,
              fades |-> {}, recent |-> {}]
    /\ toggles = 0 /\ mounts = 0

activeAnimations(pt) == {p \in Paths : pt[p].st = "canvas"}

------------------------------------------------------------------------------
(* Each operator takes and returns s = [path, eng], or one of the two. *)

\* if (!isAnimating) { isAnimating = true; requestAnimationFrame(...) }
Wake(e) == IF e.isAnimating THEN e ELSE [e EXCEPT !.isAnimating = TRUE, !.raf = @ + 1]

\* Needs the layers of a mounted page.
pulseNode(e) == IF e.ctx THEN Wake([e EXCEPT !.pulses = PulseFrames]) ELSE e

hopsDoneUncounted(e, n) == e

\* n paths have ended and make room for others.
hopsDone(e, n) == [e EXCEPT !.activeAnims = IF @ > n THEN @ - n ELSE 0]

\* What a call of nextHop makes of its path: the callback fires for the hop
\* and a line leads on, on the canvas or as a matrix line; behind the last
\* hop the path is done.
atNextHop(a, e) ==
    IF a.hop >= a.of THEN [a EXCEPT !.st = "done"]
    ELSE IF ~e.ctx THEN [a EXCEPT !.st = "lost"]
    ELSE IF a.hop = a.of - 1 THEN [a EXCEPT !.st = "done", !.hop = a.of, !.fired = @ + 1]
    ELSE IF e.matrix THEN [a EXCEPT !.st = "matrix", !.fired = @ + 1]
    ELSE [a EXCEPT !.st = "canvas", !.fired = @ + 1]

\* A call of nextHop for each path of ps, in any order: the nodes reached
\* pulse, and the count drops by the paths that are done.
nextHop(s, ps) ==
    LET next == [p \in Paths |-> IF p \in ps THEN atNextHop(s.path[p], s.eng) ELSE s.path[p]]
        reach == \E p \in ps : s.path[p].hop < s.path[p].of
    IN [path |-> next,
        eng |-> hopsDone(IF reach THEN pulseNode(s.eng) ELSE s.eng,
                         Cardinality({p \in ps : next[p].st = "done"}))]

\* The paths of ps are k hops further.
hopsOn(pt, ps, k) ==
    [p \in Paths |-> IF p \in ps THEN [pt[p] EXCEPT !.hop = @ + k, !.age = 0] ELSE pt[p]]

onCompleteKeepsHop(s, ps) == nextHop(s, ps)

onCompleteSkips(s, ps) == nextHop([s EXCEPT !.path = hopsOn(@, ps, 2)], ps)

\* The lines of ps are gone and call back: on to the next hop.
onComplete(s, ps) == nextHop([s EXCEPT !.path = hopsOn(@, ps, 1)], ps)

\* The newest of these lines: those with fewer than MaxRecent younger ones.
Newest(ls) == {l \in ls : Cardinality({m \in ls : m > l}) < MaxRecent}

createFadingLeafletLineKeepsFade(e, n) ==
    LET new == (e.lines + 1)..(e.lines + n)
    IN IF n = 0 THEN e
       ELSE [e EXCEPT !.lines = @ + n, !.recent = Newest(@ \union new),
                      !.fades = @ \union {[line |-> l, left |-> FadeFrames] : l \in new},
                      !.isFading = TRUE, !.fadeRaf = IF e.isFading THEN @ ELSE @ + 1]

\* n lines that have been drawn stay and fade; the oldest of too many go.
createFadingLeafletLine(e, n) ==
    LET new == (e.lines + 1)..(e.lines + n)
        keep == Newest(e.recent \union new)
    IN IF n = 0 THEN e
       ELSE [e EXCEPT !.lines = @ + n, !.recent = keep,
                      !.fades = {f \in @ : f.line \in keep}
                                  \union {[line |-> l, left |-> FadeFrames] : l \in keep \intersect new},
                      !.isFading = TRUE, !.fadeRaf = IF e.isFading THEN @ ELSE @ + 1]

StepLinesStuck(s) == s

\* One frame for the lines on the canvas: those at their end fade and go on.
StepLines(s) ==
    LET run == activeAnimations(s.path)
        ends == {p \in run : s.path[p].age + 1 >= LineFrames}
        aged == [p \in Paths |-> IF p \in run \ ends THEN [s.path[p] EXCEPT !.age = @ + 1] ELSE s.path[p]]
    IN onComplete([path |-> aged, eng |-> createFadingLeafletLine(s.eng, Cardinality(ends))], ends)

renderAnimationsForgets(s) ==
    IF ~s.eng.ctx \/ s.eng.paused THEN [s EXCEPT !.eng.raf = @ - 1]
    ELSE IF activeAnimations(s.path) = {} /\ s.eng.pulses = 0
      THEN [s EXCEPT !.eng.raf = @ - 1, !.eng.isAnimating = FALSE]
    ELSE StepLines([s EXCEPT !.eng.pulses = IF @ > 0 THEN @ - 1 ELSE 0])

\* renderAnimations: nothing left, asleep; paused, asleep with work left;
\* otherwise everything moves on by a frame, and another one is requested
\* in the place of this.
renderAnimations(s) ==
    IF ~s.eng.ctx THEN [s EXCEPT !.eng.raf = @ - 1]
    ELSE IF s.eng.paused \/ (activeAnimations(s.path) = {} /\ s.eng.pulses = 0)
      THEN [s EXCEPT !.eng.raf = @ - 1, !.eng.isAnimating = FALSE]
    ELSE StepLines([s EXCEPT !.eng.pulses = IF @ > 0 THEN @ - 1 ELSE 0])

\* A frame of the fading lines.
renderFades(e) ==
    LET f == {[g EXCEPT !.left = @ - 1] : g \in e.fades}
        stay == {g \in f : g.left > 0}
    IN [e EXCEPT !.fades = stay, !.recent = @ \ {g.line : g \in f \ stay},
                 !.isFading = (stay # {}), !.fadeRaf = IF stay # {} THEN @ ELSE @ - 1]

\* Called by updateVCRUI on every change of mode: only lines wake the loop.
wakeCanvasEngine(s) ==
    IF activeAnimations(s.path) # {} /\ ~s.eng.paused THEN [s EXCEPT !.eng = Wake(@)] ELSE s
------------------------------------------------------------------------------
state == [path |-> path, eng |-> eng]
Becomes(s) == path' = s.path /\ eng' = s.eng

\* A path of n hops is to be animated: over the limit it is not.
animatePath(p) ==
    /\ path[p].st = "idle" /\ eng.ctx
    /\ \E n \in 2..MaxHops :
         IF eng.activeAnims >= MaxAnims
           THEN Becomes([state EXCEPT !.path[p].st = "lost"])
           ELSE Becomes(nextHop([path |-> [path EXCEPT ![p].of = n, ![p].visit = mounts],
                                 eng |-> [eng EXCEPT !.activeAnims = @ + 1]], {p}))
    /\ UNCHANGED <<toggles, mounts>>

AnimFrame == eng.raf > 0 /\ Becomes(renderAnimations(state)) /\ UNCHANGED <<toggles, mounts>>
FadeFrame == eng.fadeRaf > 0 /\ eng' = renderFades(eng) /\ UNCHANGED <<path, toggles, mounts>>

\* drawMatrixLine's tick: without layers or at the end of the line it calls back.
MatrixTick(p) ==
    /\ path[p].st = "matrix"
    /\ Becomes(onComplete(state, {p}))
    /\ UNCHANGED <<toggles, mounts>>

PauseAnim ==
    /\ eng.ctx /\ toggles < MaxToggles /\ toggles' = toggles + 1
    /\ Becomes(wakeCanvasEngine([state EXCEPT !.eng.paused = ~@]))
    /\ UNCHANGED mounts

ToggleMatrix ==
    /\ toggles < MaxToggles /\ toggles' = toggles + 1
    /\ eng' = [eng EXCEPT !.matrix = ~@] /\ UNCHANGED <<path, mounts>>

AnimMount ==
    /\ ~eng.ctx /\ mounts < MaxMounts /\ mounts' = mounts + 1
    /\ eng' = [eng EXCEPT !.ctx = TRUE] /\ UNCHANGED <<path, toggles>>

\* destroy drains the callbacks of every queued line, and of the lines they
\* queue: all the hops left, or one if it leads to a matrix line.
Drain(a, e) ==
    IF e.matrix THEN atNextHop([a EXCEPT !.hop = @ + 1, !.age = 0], e)
    ELSE [a EXCEPT !.st = "done", !.hop = a.of, !.age = 0, !.fired = @ + (a.of - 1 - a.hop)]
AnimDestroy ==
    /\ eng.ctx
    /\ path' = [p \in Paths |-> IF p \in activeAnimations(path) THEN Drain(path[p], eng) ELSE path[p]]
    /\ eng' = [(IF activeAnimations(path) # {} THEN pulseNode(eng) ELSE eng)
                  EXCEPT !.ctx = FALSE, !.paused = FALSE, !.isAnimating = FALSE, !.isFading = FALSE,
                         !.pulses = 0, !.activeAnims = 0, !.fades = {}, !.recent = {}]
    /\ UNCHANGED <<toggles, mounts>>

AnimNext ==
    \/ \E p \in Paths : animatePath(p) \/ MatrixTick(p)
    \/ AnimFrame \/ FadeFrame \/ PauseAnim \/ ToggleMatrix \/ AnimMount \/ AnimDestroy

\* A visible page is given its frames.
AnimFairness ==
    /\ WF_animVars(AnimFrame)
    /\ \A p \in Paths : WF_animVars(MatrixTick(p))
AnimSpec == AnimInit /\ [][AnimNext]_animVars /\ AnimFairness

------------------------------------------------------------------------------
(* Paths and engine have their types. *)
AnimTypeOK ==
    /\ path \in [Paths -> PathType] /\ eng \in EngType
    /\ toggles \in 0..MaxToggles /\ mounts \in 0..MaxMounts

Running == {p \in Paths : path[p].st \in {"canvas", "matrix"} /\ path[p].visit = mounts}

(* The count that limits concurrent animations never claims more than are  *)
(* running, so the limit cannot fill up with paths that ended unnoticed    *)
(* and block all later ones (animatePath, nextHop, destroy).               *)
CountNeverLeaks == eng.ctx => eng.activeAnims <= Cardinality(Running)

(* The loop is not asleep while lines wait and the VCR runs: every way of  *)
(* queueing a line and every change of mode wakes it, and a frame that     *)
(* puts it to sleep sees all of them (wakeCanvasEngine, renderAnimations). *)
NoLostWakeup == (eng.ctx /\ ~eng.paused /\ activeAnimations(path) # {}) => eng.raf > 0

(* The callback of every hop fires exactly once: no path gets more than    *)
(* one per hop, and one that is done, on the canvas or drained by destroy, *)
(* has had all of them (audio follows the hops through it).                *)
HopsFireOnce == \A p \in Paths : /\ path[p].fired <= path[p].of
                                  /\ path[p].st = "done" => path[p].fired = path[p].of

(* A line stays on the map only while it fades, and at most MaxRecent do:  *)
(* recentPaths and activeFades name the same lines through overflow, end   *)
(* of fade and destroy (createFadingLeafletLine, renderFades).             *)
FadesAreRecent == /\ {f.line : f \in eng.fades} = eng.recent
                  /\ Cardinality(eng.fades) <= MaxRecent

(* Every path that got in is played to its end, unless the user pauses or  *)
(* the page is left.                                                       *)
PathsEnd == \A p \in Paths : (path[p].st \in {"canvas", "matrix"})
                               ~> (path[p].st \in {"done", "lost"} \/ eng.paused)

(* The counters and queues of the animations agree with the hops on screen. *)
AnimationsAccounted ==
    /\ CountNeverLeaks
    /\ NoLostWakeup
    /\ HopsFireOnce
    /\ FadesAreRecent
==============================================================================
