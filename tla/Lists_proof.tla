----------------------------- MODULE Lists_proof -----------------------------
(***************************************************************************)
(* The lists of packets and channels and the customizer: what the user     *)
(* chose is what is stored, shown and locked, in every order of answers,   *)
(* timers and clicks.                                                      *)
(***************************************************************************)
EXTENDS MCLists, FiniteSetTheorems, SequenceTheorems, TLAPS

(* The customizer.  A field's value as it will be stored.                  *)
Pending(f) == IF pendOv[f] # 0 THEN pendOv[f] ELSE stored[f]
Resolved(f, v) == IF v # 0 THEN v ELSE Default(f)
\* What loading the script will make of the storage.
Migrated(f) == IF stored # None \/ legacy = None THEN stored[f] ELSE legacy[f]
Values == [Fields -> 0..3]

CustTypes == /\ stored \in Values /\ pendOv \in Values /\ drag \in Values /\ css \in Values /\ legacy \in Values /\ wanted \in Values
             /\ boot \in {"script", "early", "served"}
PendingTimed == ~writeTimer => pendOv = None
ReloadedIdle == boot = "script" => pendOv = None /\ ~writeTimer
StyleInv == boot = "served" => \A f \in ServerHas : drag[f] = 0 /\ pendOv[f] = 0 => css[f] = Final(f)
LegacyInv == /\ boot # "script" \/ stored # None => \A f \in Fields \ Mirrored : legacy[f] = 0
             /\ boot = "served" => \A f \in Mirrored \intersect ServerHas : legacy[f] = Final(f)
WishInv == ~full => \A f \in Fields \ beaten :
              GivenUp(f) \/ (IF boot = "script" THEN Resolved(f, Migrated(f)) ELSE Resolved(f, Pending(f))) = Wish(f)
CustInv == CustTypes /\ PendingTimed /\ ReloadedIdle /\ StyleInv /\ LegacyInv /\ WishInv

\* What the server gives is a value, and a field it has is not empty.
LEMMA DefaultIs == ASSUME NEW f PROVE Default(f) \in 0..3 /\ (f \in ServerHas => Default(f) = 1)
  BY DEF Default

\* No override and one value for every field are sets of values.
LEMMA NoneIs == None \in Values /\ (\A v \in 0..3 : Every(v) \in Values /\ \A f \in Fields : Every(v)[f] = v) /\ \A f \in Fields : None[f] = 0
  BY DEF None, Every, Values

(* The styles and the old customizer's keys after the pipeline.            *)
LEMMA PipelineStep ==
  ASSUME CustTypes, stored' \in Values, LegacyInv, boot # "script", boot' \in {"early", "served"}, _runPipeline
  PROVE  css' \in Values /\ legacy' \in Values /\ StyleInv' /\ LegacyInv'
<1>0. ServerHas \subseteq Fields /\ Mirrored \subseteq Fields
  BY CustomizerAssumption
<1>1. \A f \in Fields : computeEffective(stored', f) \in 0..3
  BY DefaultIs DEF computeEffective, Server, Values
<1>2. /\ css' = [f \in Fields |-> IF computeEffective(stored', f) # 0 THEN computeEffective(stored', f) ELSE css[f]]
      /\ legacy' = [f \in Fields |-> IF f \in Mirrored /\ computeEffective(stored', f) # 0 THEN computeEffective(stored', f) ELSE legacy[f]]
  BY Zenon DEF _runPipeline, applyCSS, SetStyles, Mirror
<1>3. css' \in Values /\ legacy' \in Values
  BY <1>1, <1>2 DEF CustTypes, Values
<1>4. ASSUME boot' = "served", NEW f \in ServerHas PROVE computeEffective(stored', f) = Final(f)' /\ Final(f)' # 0
  BY <1>0, <1>4, DefaultIs DEF computeEffective, Server, Final, Default, Values
<1>5. StyleInv'
  BY <1>0, <1>2, <1>4 DEF StyleInv
<1>6. \A f \in Fields \ Mirrored : legacy'[f] = 0
  BY <1>2 DEF LegacyInv
<1>7. LegacyInv'
  BY <1>0, <1>2, <1>4, <1>6 DEF LegacyInv
<1> QED BY <1>3, <1>5, <1>7

\* At the start nothing is pending and what is stored is what the user wants.
LEMMA CustStart == CustInit => CustInv
<1> SUFFICES ASSUME CustInit PROVE CustInv
  OBVIOUS
<1>0. None \in Values /\ Every(2) \in Values /\ Every(3) \in Values
  BY NoneIs
<1>1. CustTypes
  <2>1. stored \in Values /\ legacy \in Values /\ wanted \in Values
    BY <1>0, Zenon DEF CustInit
  <2> QED BY <2>1, <1>0, Zenon DEF CustInit, CustTypes
<1>2. PendingTimed /\ ReloadedIdle /\ StyleInv
  BY DEF CustInit, PendingTimed, ReloadedIdle, StyleInv
<1>3. boot = "script" /\ (stored # None => legacy = None)
  BY DEF CustInit
<1>4. LegacyInv
  BY <1>3, NoneIs DEF LegacyInv
<1>5. WishInv
  <2>1. \A f \in Fields : Migrated(f) = wanted[f]
    BY <1>3 DEF CustInit, Migrated
  <2> QED BY <1>3, <2>1 DEF WishInv, Resolved, Wish
<1> QED BY <1>1, <1>2, <1>4, <1>5 DEF CustInv

\* Moving the old keys over keeps the invariant of the customizer.
LEMMA MigrateStep == ASSUME CustInv, migrateOldKeys PROVE CustInv'
<1>1. /\ boot = "script" /\ boot' = "early" /\ pendOv = None /\ pendOv' = None /\ SetStyles(stored')
      /\ UNCHANGED <<drag, writeTimer, full, wanted, beaten>>
  BY Zenon DEF migrateOldKeys, CustInv, ReloadedIdle
<1>2. CASE stored # None \/ legacy = None
  <2>1. stored' = stored /\ legacy' = legacy
    BY <1>2, Zenon DEF migrateOldKeys
  <2>2. \A f \in Fields \ Mirrored : legacy'[f] = 0
    BY <2>1, <1>2, NoneIs DEF CustInv, LegacyInv
  <2>3. \A f \in Fields : Migrated(f) = Pending(f)'
    BY <2>1, <1>1, <1>2, NoneIs DEF Migrated, Pending
  <2>4. css' \in Values
    BY <2>1, <1>1 DEF SetStyles, computeEffective, Server, CustInv, CustTypes, Values
  <2>5. CustTypes'
    BY <1>1, <2>1, <2>4, Zenon DEF CustInv, CustTypes
  <2>6. PendingTimed' /\ ReloadedIdle' /\ StyleInv'
    BY <1>1 DEF PendingTimed, ReloadedIdle, StyleInv
  <2>7. LegacyInv'
    BY <1>1, <2>2 DEF LegacyInv
  <2>8. WishInv'
    BY <1>1, <2>3 DEF CustInv, WishInv, Resolved, Wish, GivenUp
  <2> QED BY <2>5, <2>6, <2>7, <2>8 DEF CustInv
<1>3. CASE stored = None /\ legacy # None
  <2>1. writeOverrides(legacy, steps) /\ legacy' = None
    BY <1>3, Zenon DEF migrateOldKeys
  <2>2. (stored' = legacy \/ stored' = stored) /\ (~full => stored' = legacy)
    BY <2>1, Zenon DEF writeOverrides
  <2>3. stored' \in Values /\ legacy' \in Values
    BY <2>1, <2>2, NoneIs, Zenon DEF CustInv, CustTypes
  <2>4. css' \in Values
    BY <2>3, <1>1 DEF SetStyles, computeEffective, Server, CustInv, CustTypes, Values
  <2>5. CustTypes'
    BY <1>1, <2>3, <2>4, Zenon DEF CustInv, CustTypes
  <2>6. PendingTimed' /\ ReloadedIdle' /\ StyleInv'
    BY <1>1 DEF PendingTimed, ReloadedIdle, StyleInv
  <2>7. LegacyInv'
    BY <1>1, <2>1, NoneIs DEF LegacyInv
  <2>8. ~full => \A f \in Fields : Migrated(f) = Pending(f)'
    BY <2>2, <1>1, <1>3, NoneIs DEF Migrated, Pending
  <2>9. WishInv'
    BY <1>1, <2>8 DEF CustInv, WishInv, Resolved, Wish, GivenUp
  <2> QED BY <2>5, <2>6, <2>7, <2>9 DEF CustInv
<1> QED BY <1>2, <1>3

\* The server's settings arrive under the overrides.
LEMMA ServedStep == ASSUME CustInv, customizerInit PROVE CustInv'
<1>1. /\ boot = "early" /\ boot' = "served" /\ _runPipeline
      /\ UNCHANGED <<pendOv, drag, writeTimer, full, wanted, beaten>>
  BY Zenon DEF customizerInit
<1>2. stored' = stored \/ stored' = _cleanPhantomOverrides
  BY Zenon DEF customizerInit, writeOverrides
<1>3. _cleanPhantomOverrides \in Values /\ \A f \in Fields : Resolved(f, _cleanPhantomOverrides[f]) = Resolved(f, stored[f])
  BY DefaultIs DEF _cleanPhantomOverrides, Resolved, CustInv, CustTypes, Values
<1>4. stored' \in Values
  BY <1>2, <1>3, Zenon DEF CustInv, CustTypes
<1>5. css' \in Values /\ legacy' \in Values /\ StyleInv' /\ LegacyInv'
  BY <1>1, <1>4, PipelineStep DEF CustInv
<1>6. CustTypes'
  BY <1>1, <1>4, <1>5, Zenon DEF CustInv, CustTypes
<1>7. PendingTimed' /\ ReloadedIdle'
  BY <1>1 DEF CustInv, PendingTimed, ReloadedIdle
<1>8. \A f \in Fields : Resolved(f, Pending(f)') = Resolved(f, Pending(f))
  BY <1>1, <1>2, <1>3 DEF Pending, Resolved
<1>9. WishInv'
  BY <1>1, <1>8 DEF CustInv, WishInv, Resolved, Wish, GivenUp
<1> QED BY <1>5, <1>6, <1>7, <1>9 DEF CustInv

\* Dragging a colour changes the pending value and what the user wants
\* together.
LEMMA DragStep == ASSUME CustInv, NEW f \in Fields, NEW v \in 1..3, colorInput(f, v) PROVE CustInv'
<1>1. /\ drag' = [drag EXCEPT ![f] = v] /\ css' = [css EXCEPT ![f] = v] /\ boot # "script"
      /\ UNCHANGED <<boot, legacy, stored, pendOv, writeTimer, full, wanted, beaten>>
  BY Zenon DEF colorInput, CustAct
<1>2. drag' \in Values /\ css' \in Values
  BY <1>1 DEF CustInv, CustTypes, Values
<1>3. CustTypes'
  BY <1>1, <1>2, Zenon DEF CustInv, CustTypes
<1>4. PendingTimed' /\ ReloadedIdle' /\ LegacyInv' /\ WishInv'
  BY <1>1 DEF CustInv, PendingTimed, ReloadedIdle, LegacyInv, WishInv, Resolved, Wish, GivenUp, Pending, Migrated, Final
<1>5. StyleInv'
  BY <1>1, CustomizerAssumption DEF CustInv, CustTypes, Values, StyleInv, Final
<1> QED BY <1>3, <1>4, <1>5 DEF CustInv

\* Choosing a value changes the pending value and what the user wants
\* together.
LEMMA ChooseStep == ASSUME CustInv, NEW f \in Fields, NEW v \in 1..3, setOverride(f, v) PROVE CustInv'
<1>1. /\ drag' = [drag EXCEPT ![f] = 0] /\ pendOv' = [pendOv EXCEPT ![f] = v] /\ writeTimer' = TRUE /\ boot # "script"
      /\ wanted' = [wanted EXCEPT ![f] = v] /\ beaten' = beaten \ {f}
      /\ UNCHANGED <<boot, legacy, stored, full, css>>
  BY Zenon DEF setOverride, setOverrideAdds, CustAct
<1>2. drag' \in Values /\ pendOv' \in Values /\ wanted' \in Values
  BY <1>1 DEF CustInv, CustTypes, Values
<1>3. CustTypes'
  BY <1>1, <1>2, Zenon DEF CustInv, CustTypes
<1>4. PendingTimed' /\ ReloadedIdle' /\ LegacyInv'
  BY <1>1 DEF CustInv, PendingTimed, ReloadedIdle, LegacyInv, Final
<1>5. StyleInv'
  BY <1>1, CustomizerAssumption DEF CustInv, CustTypes, Values, StyleInv, Final
<1>6. ASSUME NEW g \in Fields, g # f, Resolved(g, Pending(g)) = Wish(g) \/ GivenUp(g)
      PROVE  Resolved(g, Pending(g)') = Wish(g)' \/ GivenUp(g)'
  BY <1>1, <1>6 DEF CustInv, CustTypes, Values, Resolved, Pending, Wish, GivenUp
<1>7. Resolved(f, Pending(f)') = Wish(f)'
  BY <1>1 DEF CustInv, CustTypes, Values, Resolved, Pending, Wish
<1>8. WishInv'
  BY <1>1, <1>6, <1>7 DEF CustInv, WishInv, Resolved
<1> QED BY <1>3, <1>4, <1>5, <1>8 DEF CustInv

\* Taking an override back leaves the default as what the user wants.
LEMMA GiveUpStep == ASSUME CustInv, NEW f \in Fields, clearOverride(f) PROVE CustInv'
<1>1. /\ pendOv' = [pendOv EXCEPT ![f] = 0] /\ _runPipeline /\ wanted' = [wanted EXCEPT ![f] = 0] /\ beaten' = beaten \ {f}
      /\ boot # "script" /\ boot' = boot /\ writeOverrides([stored EXCEPT ![f] = 0], steps) /\ UNCHANGED <<drag, writeTimer, full>>
  BY Zenon DEF clearOverride, clearPending, CustAct
<1>2. (stored' = [stored EXCEPT ![f] = 0] \/ stored' = stored) /\ (~full => stored' = [stored EXCEPT ![f] = 0])
  BY <1>1, Zenon DEF writeOverrides
<1>3. stored' \in Values /\ pendOv' \in Values /\ wanted' \in Values
  BY <1>1, <1>2 DEF CustInv, CustTypes, Values
<1>4. boot' \in {"early", "served"}
  BY <1>1 DEF CustInv, CustTypes
<1>5. css' \in Values /\ legacy' \in Values /\ StyleInv' /\ LegacyInv'
  BY <1>1, <1>3, <1>4, PipelineStep DEF CustInv
<1>6. CustTypes'
  BY <1>1, <1>3, <1>5, Zenon DEF CustInv, CustTypes
<1>7. PendingTimed' /\ ReloadedIdle'
  BY <1>1 DEF CustInv, PendingTimed, ReloadedIdle, None
<1>8. ASSUME ~full, NEW g \in Fields, g # f, Resolved(g, Pending(g)) = Wish(g) \/ GivenUp(g)
      PROVE  Resolved(g, Pending(g)') = Wish(g)' \/ GivenUp(g)'
  BY <1>1, <1>2, <1>8 DEF CustInv, CustTypes, Values, Resolved, Pending, Wish, GivenUp
<1>9. ~full => Resolved(f, Pending(f)') = Wish(f)'
  BY <1>1, <1>2 DEF CustInv, CustTypes, Values, Resolved, Pending, Wish
<1>10. WishInv'
  BY <1>1, <1>8, <1>9 DEF CustInv, WishInv, Resolved
<1> QED BY <1>5, <1>6, <1>7, <1>10 DEF CustInv

\* The delayed write stores what was pending.
LEMMA WriteStep == ASSUME CustInv, _debouncedWrite PROVE CustInv'
<1> DEFINE st == IF pendSteps = NoSteps THEN steps ELSE pendSteps
<1>1. /\ writeTimer /\ writeTimer' = FALSE /\ boot' = boot /\ pendOv' = None /\ writeOverrides(Merged, st) /\ _runPipeline
      /\ UNCHANGED <<drag, full, wanted, beaten>>
  BY Zenon DEF _debouncedWrite
<1>2. (stored' = Merged \/ stored' = stored) /\ (~full => stored' = Merged)
  BY <1>1, Zenon DEF writeOverrides
<1>3. Merged \in Values
  BY DEF Merged, CustInv, CustTypes, Values
<1>4. stored' \in Values /\ pendOv' \in Values
  BY <1>1, <1>2, <1>3, NoneIs, Zenon DEF CustInv, CustTypes
<1>5. boot # "script" /\ boot' \in {"early", "served"}
  BY <1>1 DEF CustInv, ReloadedIdle, CustTypes
<1>6. css' \in Values /\ legacy' \in Values /\ StyleInv' /\ LegacyInv'
  BY <1>1, <1>4, <1>5, PipelineStep DEF CustInv
<1>7. CustTypes'
  BY <1>1, <1>4, <1>6, Zenon DEF CustInv, CustTypes
<1>8. PendingTimed' /\ ReloadedIdle'
  BY <1>1, <1>5 DEF PendingTimed, ReloadedIdle
<1>9. ~full => \A f \in Fields : Resolved(f, Pending(f)') = Resolved(f, Pending(f))
  <2>1. \A f \in Fields : pendOv'[f] = 0 /\ pendOv[f] \in 0..3 /\ stored[f] \in 0..3
    BY <1>1, NoneIs DEF CustInv, CustTypes, Values
  <2>2. \A f \in Fields : Server(f) \in {0, Default(f)}
    BY DEF Server
  <2> QED BY <1>1, <1>2, <2>1, <2>2 DEF Merged, Resolved, Pending
<1>10. WishInv'
  BY <1>1, <1>5, <1>9 DEF CustInv, WishInv, Resolved, Wish, GivenUp
<1> QED BY <1>6, <1>7, <1>8, <1>10 DEF CustInv

\* A preset or an import replaces every override; what was pending is recorded
\* as beaten.
LEMMA ReplaceStep == ASSUME CustInv, NEW ov \in Values, ReplaceOverrides(ov) PROVE CustInv'
<1>1. /\ boot # "script" /\ boot' = boot /\ drag = None /\ writeOverrides(ov, NoSteps) /\ _runPipeline
      /\ UNCHANGED <<pendOv, drag, writeTimer, full>>
  BY Zenon DEF ReplaceOverrides, CustAct
<1>2. ASSUME saveState' = "error" PROVE stored' \in Values /\ wanted' \in Values /\ WishInv'
  <2>1. UNCHANGED <<wanted, beaten>>
    BY <1>2, Zenon DEF ReplaceOverrides
  <2>2. full /\ stored' = stored
    BY <1>1, <1>2 DEF writeOverrides
  <2>3. stored' \in Values /\ wanted' \in Values
    BY <2>1, <2>2, Zenon DEF CustInv, CustTypes
  <2>4. full' 
    BY <1>1, <2>2
  <2>5. WishInv'
    BY <2>4 DEF WishInv
  <2> QED BY <2>3, <2>5
<1>3. ASSUME saveState' # "error" PROVE stored' \in Values /\ wanted' \in Values /\ WishInv'
  <2>1. wanted' = ov /\ beaten' = {f \in Fields : pendOv[f] # 0}
    BY <1>3, Zenon DEF ReplaceOverrides
  <2>2. stored' = ov
    BY <1>1, <1>3, Zenon DEF writeOverrides
  <2>3. stored' \in Values /\ wanted' \in Values
    BY <2>1, <2>2
  <2>4. \A f \in Fields \ beaten' : Resolved(f, Pending(f)') = Wish(f)'
    BY <1>1, <2>1, <2>2 DEF CustInv, CustTypes, Values, Resolved, Pending, Wish
  <2>5. WishInv'
    BY <1>1, <2>4 DEF WishInv, Resolved
  <2> QED BY <2>3, <2>5
<1>4. stored' \in Values /\ wanted' \in Values /\ WishInv'
  BY <1>2, <1>3
<1>5. boot' \in {"early", "served"}
  BY <1>1 DEF CustInv, CustTypes
<1>6. css' \in Values /\ legacy' \in Values /\ StyleInv' /\ LegacyInv'
  BY <1>1, <1>4, <1>5, PipelineStep DEF CustInv
<1>7. CustTypes'
  BY <1>1, <1>4, <1>6, Zenon DEF CustInv, CustTypes
<1>8. PendingTimed' /\ ReloadedIdle'
  BY <1>1 DEF CustInv, PendingTimed, ReloadedIdle
<1> QED BY <1>4, <1>6, <1>7, <1>8 DEF CustInv

\* A reset takes every override away; what was pending is recorded as beaten.
LEMMA ResetStep == ASSUME CustInv, _resetAll PROVE CustInv'
<1>1. /\ boot # "script" /\ boot' = boot /\ drag = None /\ stored' = None /\ css' = [f \in Fields |-> Server(f)] /\ wanted' = None
      /\ beaten' = {f \in Fields : pendOv[f] # 0} /\ Mirror(None) /\ UNCHANGED <<pendOv, drag, writeTimer, full>>
  BY Zenon DEF _resetAll, CustAct
<1>0. ServerHas \subseteq Fields /\ Mirrored \subseteq Fields
  BY CustomizerAssumption
<1>2. stored' \in Values /\ wanted' \in Values
  BY <1>1, NoneIs
<1>3. \A f \in Fields : Server(f) \in 0..3 /\ computeEffective(None, f) = Server(f)
  BY DefaultIs, NoneIs DEF Server, computeEffective
<1>4. css' \in Values
  BY <1>1, <1>3 DEF Values
<1>5. legacy' = [f \in Fields |-> IF f \in Mirrored /\ Server(f) # 0 THEN Server(f) ELSE legacy[f]]
  BY <1>1, <1>3 DEF Mirror
<1>6. legacy' \in Values
  BY <1>3, <1>5 DEF CustInv, CustTypes, Values
<1>7. CustTypes'
  BY <1>1, <1>2, <1>4, <1>6, Zenon DEF CustInv, CustTypes
<1>8. PendingTimed' /\ ReloadedIdle'
  BY <1>1 DEF CustInv, PendingTimed, ReloadedIdle
<1>9. ASSUME boot' = "served", NEW f \in ServerHas PROVE Server(f) = Final(f)' /\ Final(f)' # 0
  BY <1>0, <1>1, <1>9, NoneIs, DefaultIs DEF Server, Final, Default
<1>10. StyleInv'
  BY <1>0, <1>1, <1>9 DEF StyleInv
<1>11. LegacyInv'
  BY <1>0, <1>1, <1>5, <1>9 DEF CustInv, LegacyInv
<1>12. \A f \in Fields \ beaten' : Resolved(f, Pending(f)') = Wish(f)'
  BY <1>1, NoneIs DEF Resolved, Pending, Wish
<1>13. WishInv'
  BY <1>1, <1>12 DEF WishInv, Resolved
<1> QED BY <1>7, <1>8, <1>10, <1>11, <1>13 DEF CustInv

\* Typing into the steps of the home page changes a pending copy of them.
LEMMA StepsInput == ASSUME CustInv, NEW i, NEW v, homeInput(i, v) PROVE CustInv'
<1>1. /\ boot # "script" /\ writeTimer' = TRUE
      /\ UNCHANGED <<boot, legacy, stored, pendOv, drag, full, css, wanted, beaten>>
  BY Zenon DEF homeInput, CustAct
<1>2. CustTypes'
  BY <1>1, Zenon DEF CustInv, CustTypes
<1>3. PendingTimed' /\ ReloadedIdle' /\ LegacyInv' /\ StyleInv'
  BY <1>1 DEF CustInv, PendingTimed, ReloadedIdle, LegacyInv, StyleInv, Final
<1>4. WishInv'
  BY <1>1 DEF CustInv, WishInv, Resolved, Wish, GivenUp, Pending
<1> QED BY <1>2, <1>3, <1>4 DEF CustInv

\* What the page has mirrored by then is what loading it again will read.
LEMMA ReloadStep == ASSUME CustInv, reloadPage PROVE CustInv'
<1>1. /\ boot = "served" /\ ~writeTimer /\ drag = None /\ boot' = "script" /\ css' = None
      /\ UNCHANGED <<legacy, stored, pendOv, drag, writeTimer, full, wanted, beaten>>
  BY Zenon DEF reloadPage
<1>0. ServerHas \subseteq Fields /\ Mirrored \subseteq Fields
  BY CustomizerAssumption
<1>2. pendOv = None
  BY <1>1 DEF CustInv, PendingTimed
<1>3. CustTypes'
  BY <1>1, NoneIs, Zenon DEF CustInv, CustTypes
<1>4. PendingTimed' /\ ReloadedIdle' /\ StyleInv' /\ LegacyInv'
  BY <1>1, <1>2 DEF CustInv, PendingTimed, ReloadedIdle, LegacyInv, StyleInv
<1>5. ASSUME ~full, NEW f \in Fields \ beaten PROVE GivenUp(f) \/ Resolved(f, Migrated(f)) = Wish(f)
  <2>1. GivenUp(f) \/ Resolved(f, stored[f]) = Wish(f)
    BY <1>1, <1>2, <1>5, NoneIs DEF CustInv, WishInv, Pending
  <2>2. CASE stored # None \/ legacy = None
    BY <2>1, <2>2 DEF Migrated
  <2>3. CASE stored = None /\ legacy # None /\ f \notin Mirrored
    BY <1>1, <2>1, <2>3, NoneIs DEF Migrated, CustInv, LegacyInv
  <2>4. CASE stored = None /\ legacy # None /\ f \in Mirrored \intersect ServerHas
    <3>1. legacy[f] = Default(f) /\ stored[f] = 0
      BY <1>1, <2>4, NoneIs DEF CustInv, LegacyInv, Final
    <3> QED BY <2>1, <2>4, <3>1 DEF Migrated, Resolved
  <2>5. CASE stored = None /\ legacy # None /\ f \in Mirrored \ ServerHas
    BY <2>1, <2>5, NoneIs DEF Resolved, Wish, Default, GivenUp
  <2> QED BY <2>2, <2>3, <2>4, <2>5
<1>6. WishInv'
  BY <1>1, <1>5 DEF WishInv, Resolved, Wish, GivenUp, Migrated
<1> QED BY <1>3, <1>4, <1>6 DEF CustInv

\* Every step of the customizer keeps its invariant.
LEMMA CustStep == CustInv /\ [CustNext]_custVars => CustInv'
<1> SUFFICES ASSUME CustInv, [CustNext]_custVars PROVE CustInv'
  OBVIOUS
<1>1. CASE migrateOldKeys \/ customizerInit \/ _debouncedWrite \/ _resetAll \/ reloadPage
  BY <1>1, MigrateStep, ServedStep, WriteStep, ResetStep, ReloadStep
<1>2. CASE presetClick
  BY <1>2, NoneIs, ReplaceStep DEF presetClick
<1>3. CASE \E f \in Fields : clearOverride(f) \/ \E v \in 1..3 : setOverride(f, v) \/ colorInput(f, v)
  BY <1>3, GiveUpStep, ChooseStep, DragStep
<1>4. CASE \E data \in {None, Every(2)} : importFile(data)
  BY <1>4, NoneIs, ReplaceStep DEF importFile
<1>5. CASE \E i \in {1, 2}, v \in {2, 3} : homeInput(i, v)
  BY <1>5, StepsInput
<1>6. CASE UNCHANGED custVars
  <2>1. UNCHANGED <<boot, legacy, stored, pendOv, drag, writeTimer, full, css, wanted, beaten>>
    BY <1>6 DEF custVars
  <2> QED BY <2>1 DEF CustInv, CustTypes, PendingTimed, ReloadedIdle, LegacyInv, StyleInv, WishInv, Resolved, Wish, GivenUp, Pending, Migrated, Final
<1> QED BY <1>1, <1>2, <1>3, <1>4, <1>5, <1>6 DEF CustNext

\* Once its timer is done, storage and styles are what the user chose last
\* (customize-v2.js).
THEOREM SettledIsWantedThm == CustInit /\ [][CustNext]_custVars => [](SettledIsWanted /\ StylesFollow)
<1>1. CustInv => SettledIsWanted
  <2> SUFFICES ASSUME CustInv, Settled, NEW f \in Fields \ beaten PROVE GivenUp(f) \/ Final(f) = Wish(f)
    BY DEF SettledIsWanted
  <2>1. pendOv = None /\ ~full /\ boot # "script"
    BY DEF Settled, CustInv, PendingTimed
  <2> QED BY <2>1, NoneIs DEF CustInv, WishInv, Resolved, Pending, Final
<1>2. CustInv => StylesFollow
  BY NoneIs, CustomizerAssumption DEF CustInv, PendingTimed, StyleInv, StylesFollow
<1> QED BY CustStart, CustStep, <1>1, <1>2, PTL

------------------------------------------------------------------------------
(* The colour of a role and the geo filter tab.                            *)
RoleInv == /\ rootRole = (IF userRole # 0 THEN Color("user", userRole) ELSE IF cbPreset = "" THEN Color("server", 0) ELSE NoColor)
           /\ cbPreset # "" => bodyRole = (IF userRole # 0 THEN Color("user", userRole) ELSE NoColor)
           /\ cbPreset = "" /\ ~leftBody => bodyRole = NoColor
           /\ leftBody \in BOOLEAN

\* Every step keeps the role colours on the screen those of the cascade.
LEMMA RoleStep == RoleInv /\ [RoleNext]_roleVars => RoleInv'
<1> SUFFICES ASSUME RoleInv, [RoleNext]_roleVars PROVE RoleInv'
  OBVIOUS
<1>1. ASSUME NEW u \in 0..2, pickRole(u) PROVE RoleInv'
  <2>1. userRole' = u /\ rolePipeline(cbPreset, u) /\ UNCHANGED <<cbPreset, leftBody>>
    BY <1>1, Zenon DEF pickRole
  <2> QED BY <2>1 DEF RoleInv, rolePipeline
<1>2. ASSUME NEW p \in {"wong", "tol"}, applyPreset(p) PROVE RoleInv'
  <2>1. cbPreset' = p /\ rolePipeline(p, userRole) /\ UNCHANGED <<userRole, leftBody>> /\ p # ""
    BY <1>2 DEF applyPreset
  <2> QED BY <2>1 DEF RoleInv, rolePipeline
<1>3. CASE clearPreset
  <2>1. cbPreset' = "" /\ rolePipeline("", userRole) /\ leftBody' = (leftBody \/ bodyRole # NoColor) /\ userRole' = userRole
    BY <1>3, Zenon DEF clearPreset
  <2> QED BY <2>1 DEF RoleInv, rolePipeline
<1>4. CASE resetRoles
  BY <1>4 DEF RoleInv, resetRoles
<1>5. CASE UNCHANGED roleVars
  BY <1>5 DEF RoleInv, roleVars
<1> QED BY <1>1, <1>2, <1>3, <1>4, <1>5 DEF RoleNext

\* The user's colour wins over the preset, the preset over the server
\* (customize-v2.js applyCSS, cb-presets.js).
THEOREM RolesCascadeThm == RoleInit /\ [][RoleNext]_roleVars => []RolesCascade
<1>1. RoleInit => RoleInv
  BY DEF RoleInit, RoleInv, Color, NoColor
<1>2. RoleInv => RolesCascade
  <2> SUFFICES ASSUME RoleInv, ~leftBody PROVE Shown = Cascade
    BY DEF RolesCascade
  <2>1. CASE cbPreset = ""
    BY <2>1, Zenon DEF RoleInv, Shown, Cascade
  <2>2. CASE cbPreset # "" /\ userRole = 0
    BY <2>2, Zenon DEF RoleInv, Shown, Cascade
  <2>3. CASE cbPreset # "" /\ userRole # 0
    <3>1. Color("user", userRole) # NoColor
      BY DEF Color, NoColor
    <3> QED BY <2>3, <3>1, Zenon DEF RoleInv, Shown, Cascade
  <2> QED BY <2>1, <2>2, <2>3
<1> QED BY RoleStep, <1>1, <1>2, PTL

GeoInv == /\ geoTab \in BOOLEAN /\ confirmable \in BOOLEAN /\ refreshed \in BOOLEAN
          /\ geoMaps \in Int /\ OneGeoMap
          /\ confirmable => geoTab /\ preview = listed
          /\ PrunesWhatIsListed

\* Every step keeps at most one map in the geo tab, and what is pruned is what
\* was listed.
LEMMA GeoStep == GeoInv /\ [GeoNext]_geoVars => GeoInv'
<1> SUFFICES ASSUME GeoInv, [GeoNext]_geoVars PROVE GeoInv'
  OBVIOUS
<1> USE DEF GeoInv, OneGeoMap, PrunesWhatIsListed
<1>1. CASE openGeoTab \/ refreshPanel
  <2>1. UNCHANGED deleted /\ geoMaps' = geoMaps + 1 /\ confirmable' = FALSE /\ geoTab' = TRUE
    BY <1>1 DEF openGeoTab, refreshPanel, _initGeoFilterTab
  <2>2. refreshed' = TRUE \/ (refreshed' = refreshed /\ geoTab = FALSE)
    BY <1>1 DEF openGeoTab, refreshPanel
  <2>3. ~refreshed' => geoMaps = 0
    BY <2>2, Zenon
  <2>4. ~refreshed' => geoMaps' = 1
    BY <2>1, <2>3
  <2>5. OneGeoMap'
    BY <2>1, <2>4, Zenon
  <2>6. geoMaps' \in Int
    BY <2>1
  <2>7. refreshed' \in BOOLEAN
    BY <2>2, Zenon
  <2> QED BY <2>1, <2>5, <2>6, <2>7, Zenon
<1>2. CASE leaveGeoTab
  <2>1. /\ geoTab = TRUE /\ geoTab' = FALSE /\ geoMaps' = geoMaps - 1 /\ confirmable' = FALSE
        /\ UNCHANGED <<refreshed, deleted>>
    BY <1>2 DEF leaveGeoTab
  <2>2. ~refreshed => geoMaps = 1
    BY <2>1, Zenon
  <2>3. ~refreshed => geoMaps' = 0
    <3>1. ASSUME geoMaps = 1 PROVE geoMaps' = 0
      BY <2>1, <3>1
    <3> QED BY <2>2, <3>1, Zenon
  <2>4. OneGeoMap'
    BY <2>1, <2>3, Zenon
  <2>5. geoMaps' \in Int
    BY <2>1
  <2> QED BY <2>1, <2>4, <2>5, Zenon
<1>3. CASE _gfOpenModal \/ modalDone \/ _gfPrunePreview
  BY <1>3 DEF _gfOpenModal, modalDone, _gfPrunePreview
<1>4. CASE _gfPruneConfirm
  BY <1>4 DEF _gfPruneConfirm
<1>5. ASSUME NEW p, geoFilterArrives(p) PROVE GeoInv'
  BY <1>5 DEF geoFilterArrives
<1>6. ASSUME NEW ns, _gfSave(ns) PROVE GeoInv'
  BY <1>6 DEF _gfSave
<1>7. ASSUME NEW ns, previewArrives(ns) PROVE GeoInv'
  BY <1>7 DEF previewArrives, previewListed
<1>8. CASE UNCHANGED geoVars
  BY <1>8 DEF geoVars
<1> QED BY <1>1, <1>2, <1>3, <1>4, <1>5, <1>6, <1>7, <1>8 DEF GeoNext

\* Nodes are deleted as listed, and one map is alive while the tab is open
\* (customize-v2.js, the geo filter tab).
THEOREM GeoThm == GeoInit /\ [][GeoNext]_geoVars => [](PrunesWhatIsListed /\ OneGeoMap)
<1>1. GeoInit => GeoInv
  <2> SUFFICES ASSUME GeoInit PROVE GeoInv
    OBVIOUS
  <2>1. geoTab = FALSE /\ confirmable = FALSE /\ refreshed = FALSE /\ geoMaps = 0 /\ deleted = <<{}, {}>>
    BY Zenon DEF GeoInit
  <2>2. deleted[1] = deleted[2]
    BY <2>1
  <2>3. geoMaps \in Int
    BY <2>1
  <2> QED BY <2>1, <2>2, <2>3, Zenon DEF GeoInv, OneGeoMap, PrunesWhatIsListed
<1>2. GeoInv => PrunesWhatIsListed /\ OneGeoMap
  BY DEF GeoInv
<1> QED BY GeoStep, <1>1, <1>2, PTL

CustomizerSpec == CustInit /\ [][CustNext]_custVars /\ RoleInit /\ [][RoleNext]_roleVars /\ GeoInit /\ [][GeoNext]_geoVars

\* Settings, colours of roles and geo filter side by side (customize-v2.js).
THEOREM CustomizerSettlesThm == CustomizerSpec => []CustomizerSettles
<1>1. (SettledIsWanted /\ StylesFollow) /\ RolesCascade /\ (PrunesWhatIsListed /\ OneGeoMap) => CustomizerSettles
  BY DEF CustomizerSettles
<1> QED BY <1>1, SettledIsWantedThm, RolesCascadeThm, GeoThm, PTL DEF CustomizerSpec

------------------------------------------------------------------------------
(* Tables that fit their window.                                           *)
TableRec == [conn : BOOLEAN, reveal : BOOLEAN, hdr : SUBSET DOMAIN Prio, body : SUBSET SUBSET DOMAIN Prio, pill : {"none", "reveal", "rehide"}]
Fits(r, w, timer) == r.conn => r.body \subseteq {r.hdr} /\ (~timer /\ ~r.reveal => r.hdr = candidates(w))
FitInv == /\ tbl \in [Tables -> TableRec] /\ wired \subseteq Tables /\ winTimer \in BOOLEAN
          /\ \A t \in wired : Fits(tbl[t], vw, winTimer) /\ (tbl[t].conn => t \in wiredMO)
          /\ wired = {} \/ \E t \in Tables : wired = {t}

\* Applying the columns to a width makes the table fit or leaves none to hide.
LEMMA ApplyFits ==
  ASSUME NEW r \in TableRec, NEW w
  PROVE  /\ apply(r, w) \in TableRec /\ apply(r, w).conn = r.conn /\ \A timer : Fits(apply(r, w), w, timer)
<1>1. candidates(w) \in SUBSET DOMAIN Prio
  BY DEF candidates
<1>2. CASE ~r.conn
  BY <1>2 DEF apply, Fits
<1>3. CASE r.conn /\ r.reveal
  <2>1. apply(r, w) = [r EXCEPT !.hdr = {}, !.body = {{} : b \in r.body}, !.pill = "none"]
    BY <1>3 DEF apply, clearHidden
  <2>2. {{} : b \in r.body} \subseteq {{}} /\ {{} : b \in r.body} \in SUBSET SUBSET DOMAIN Prio
    OBVIOUS
  <2>3. apply(r, w) \in TableRec
    BY <2>1, <2>2, ZenonT(60) DEF TableRec
  <2>4. apply(r, w).conn = r.conn /\ apply(r, w).hdr = {} /\ apply(r, w).body = {{} : b \in r.body} /\ apply(r, w).reveal = r.reveal
    BY <2>1 DEF TableRec
  <2> QED BY <1>3, <2>2, <2>3, <2>4, Zenon DEF Fits
<1>4. CASE r.conn /\ ~r.reveal
  <2> DEFINE hide == candidates(w)
  <2> DEFINE p == IF hide = {} THEN "none" ELSE "reveal"
  <2>1. apply(r, w) = [r EXCEPT !.hdr = hide, !.body = {hide : b \in r.body}, !.pill = p]
    BY <1>4 DEF apply
  <2>2. {hide : b \in r.body} \subseteq {hide} /\ {hide : b \in r.body} \in SUBSET SUBSET DOMAIN Prio /\ hide \in SUBSET DOMAIN Prio
    BY <1>1
  <2>3. p \in {"none", "reveal", "rehide"}
    OBVIOUS
  <2> HIDE DEF hide, p
  <2>4. apply(r, w) \in TableRec
    BY <2>1, <2>2, <2>3, Zenon DEF TableRec
  <2>5. apply(r, w).conn = r.conn /\ apply(r, w).hdr = hide /\ apply(r, w).body = {hide : b \in r.body} /\ apply(r, w).reveal = r.reveal
    BY <2>1 DEF TableRec
  <2> QED BY <1>4, <2>2, <2>4, <2>5, Zenon DEF Fits, hide
<1> QED BY <1>2, <1>3, <1>4 DEF TableRec

\* Revealing columns or not keeps the record of a table.
LEMMA Unrevealed ==
  ASSUME NEW r \in TableRec, NEW b \in BOOLEAN
  PROVE  [r EXCEPT !.reveal = b] \in TableRec /\ [r EXCEPT !.reveal = b].conn = r.conn
<1>1. [r EXCEPT !.reveal = b] \in TableRec
  BY Zenon DEF TableRec
<1> QED BY <1>1 DEF TableRec

\* A table that is not there is not connected.
LEMMA NoTableIs == NoTable \in TableRec /\ ~NoTable.conn
  BY DEF NoTable, TableRec

\* One table is drawn anew.
LEMMA OneTable ==
  ASSUME FitInv, NEW t \in Tables, NEW r \in TableRec, tbl' = [tbl EXCEPT ![t] = r], Fits(r, vw, winTimer), r.conn => tbl[t].conn,
         UNCHANGED <<wired, wiredMO, vw, winTimer>>
  PROVE  FitInv'
<1>1. tbl' \in [Tables -> TableRec] /\ tbl'[t] = r /\ \A u \in Tables \ {t} : tbl'[u] = tbl[u]
  BY DEF FitInv
<1>2. \A u \in wired' : Fits(tbl'[u], vw', winTimer') /\ (tbl'[u].conn => u \in wiredMO')
  BY <1>1 DEF FitInv
<1> QED BY <1>1, <1>2 DEF FitInv

\* At the start there is no table.
LEMMA FitStart == FitInit => FitInv
  BY NoTableIs DEF FitInit, FitInv

\* Every observer, timer and click keeps the columns fitted to the window.
LEMMA FitStepHolds == FitInv /\ [FitNext]_fitVars => FitInv'
<1> SUFFICES ASSUME FitInv, [FitNext]_fitVars PROVE FitInv'
  OBVIOUS
<1>1. ASSUME NEW t \in Tables, register(t) PROVE FitInv'
  <2> DEFINE r == apply([NoTable EXCEPT !.conn = TRUE, !.body = {{}}], vw)
  <2>1. /\ \A u \in Tables : ~tbl[u].conn /\ tbl' = [tbl EXCEPT ![t] = r]
        /\ wired' = sweepDetached \union {t} /\ t \in wiredMO' /\ UNCHANGED <<vw, winTimer>>
    BY <1>1 DEF register
  <2>2. [NoTable EXCEPT !.conn = TRUE, !.body = {{}}] \in TableRec
    BY DEF NoTable, TableRec
  <2>3. r \in TableRec /\ Fits(r, vw, winTimer)
    BY <2>2, ApplyFits
  <2>4. wired' = {t}
    BY <2>1 DEF FitInv, sweepDetached
  <2> HIDE DEF r
  <2>5. tbl' \in [Tables -> TableRec] /\ tbl'[t] = r
    BY <2>1, <2>3 DEF FitInv
  <2> QED BY <2>1, <2>3, <2>4, <2>5 DEF FitInv
<1>2. ASSUME NEW t \in Tables, pillClick(t) PROVE FitInv'
  <2> DEFINE r == [clearHidden([tbl[t] EXCEPT !.reveal = TRUE]) EXCEPT !.pill = "rehide"]
  <2>1. tbl' = [tbl EXCEPT ![t] = r] /\ tbl[t].conn /\ UNCHANGED <<wired, wiredMO, vw, winTimer>>
    BY <1>2 DEF pillClick, FitInv
  <2>2. tbl[t] \in TableRec
    BY DEF FitInv
  <2>3. {{} : b \in tbl[t].body} \subseteq {{}} /\ {{} : b \in tbl[t].body} \in SUBSET SUBSET DOMAIN Prio
    OBVIOUS
  <2>4. r = [tbl[t] EXCEPT !.reveal = TRUE, !.hdr = {}, !.body = {{} : b \in tbl[t].body}, !.pill = "rehide"]
    BY <2>2 DEF clearHidden, TableRec
  <2> HIDE DEF r
  <2>5. r \in TableRec
    BY <2>2, <2>3, <2>4, Zenon DEF TableRec
  <2>6. r.reveal = TRUE /\ r.hdr = {} /\ r.body = {{} : b \in tbl[t].body}
    BY <2>2, <2>4 DEF TableRec
  <2>7. Fits(r, vw, winTimer)
    BY <2>3, <2>6 DEF Fits
  <2> QED BY <2>1, <2>5, <2>7, OneTable
<1>3. ASSUME NEW t \in Tables, rehideClick(t) PROVE FitInv'
  <2> DEFINE r == apply([tbl[t] EXCEPT !.reveal = FALSE], vw)
  <2>1. tbl' = [tbl EXCEPT ![t] = r] /\ tbl[t].conn /\ UNCHANGED <<wired, wiredMO, vw, winTimer>>
    BY <1>3 DEF rehideClick, FitInv
  <2>2. r \in TableRec /\ Fits(r, vw, winTimer)
    BY ApplyFits, Unrevealed DEF FitInv
  <2> HIDE DEF r
  <2> QED BY <2>1, <2>2, OneTable
<1>4. ASSUME NEW t \in Tables, resizeObserved(t) PROVE FitInv'
  <2> DEFINE r == apply([tbl[t] EXCEPT !.reveal = FALSE], vw)
  <2>1. (tbl' = tbl \/ tbl' = [tbl EXCEPT ![t] = r]) /\ UNCHANGED <<wired, wiredMO, vw, winTimer>>
    BY <1>4 DEF resizeObserved, FitInv
  <2>2. r \in TableRec /\ Fits(r, vw, winTimer) /\ r.conn = tbl[t].conn
    BY ApplyFits, Unrevealed DEF FitInv
  <2> HIDE DEF r
  <2>3. CASE tbl' = tbl
    BY <2>1, <2>3 DEF FitInv
  <2> QED BY <2>1, <2>2, <2>3, OneTable
<1>5. ASSUME NEW t \in Tables, NEW b \in BOOLEAN, tbodyChanges(t, b) PROVE FitInv'
  <2> DEFINE body == (IF b THEN tbl[t].body ELSE {}) \union {{}}
  <2> DEFINE s == [tbl[t] EXCEPT !.body = body]
  <2> DEFINE r == IF t \in wiredMO THEN apply(s, vw) ELSE s
  <2>1. tbl' = [tbl EXCEPT ![t] = r] /\ tbl[t].conn /\ UNCHANGED <<wired, wiredMO, vw, winTimer>>
    BY <1>5 DEF tbodyChanges, FitInv
  <2>2. tbl[t] \in TableRec
    BY DEF FitInv
  <2>3. body \in SUBSET SUBSET DOMAIN Prio
    BY <2>2 DEF TableRec
  <2> HIDE DEF body
  <2>4. s \in TableRec
    BY <2>2, <2>3, Zenon DEF TableRec
  <2>5. apply(s, vw) \in TableRec /\ Fits(apply(s, vw), vw, winTimer)
    BY <2>4, ApplyFits
  <2> HIDE DEF s
  <2>6. CASE t \in wiredMO
    BY <2>1, <2>5, <2>6, OneTable
  <2>7. CASE t \notin wiredMO
    <3>1. t \notin wired
      BY <2>1, <2>7 DEF FitInv
    <3>2. tbl' \in [Tables -> TableRec] /\ \A u \in wired : tbl'[u] = tbl[u]
      BY <2>1, <2>4, <2>7, <3>1 DEF FitInv
    <3> QED BY <2>1, <3>2 DEF FitInv
  <2> QED BY <2>6, <2>7
<1>6. ASSUME NEW t \in Tables, NEW b \in BOOLEAN, leaveTable(t, b) PROVE FitInv'
  <2>1. /\ tbl' = [tbl EXCEPT ![t] = NoTable] /\ UNCHANGED <<vw, winTimer>>
        /\ \/ wired' = wired /\ wiredMO' = wiredMO
           \/ wired' = {u \in wired : u # t /\ tbl[u].conn} /\ wiredMO' = wiredMO \intersect wired'
    BY <1>6 DEF leaveTable
  <2>2. tbl' \in [Tables -> TableRec] /\ tbl'[t] = NoTable /\ \A u \in Tables \ {t} : tbl'[u] = tbl[u]
    BY <2>1, NoTableIs DEF FitInv
  <2>3. wired' \subseteq wired /\ (wired' = wired \/ wired' = {u \in wired : u # t /\ tbl[u].conn})
    BY <2>1
  <2>4. wired' = {} \/ \E u \in Tables : wired' = {u}
    BY <2>3 DEF FitInv
  <2>5. ASSUME NEW u \in wired' PROVE Fits(tbl'[u], vw', winTimer') /\ (tbl'[u].conn => u \in wiredMO')
    BY <2>1, <2>2, <2>3, NoTableIs DEF FitInv, Fits
  <2>6. wired' \subseteq Tables
    BY <2>3 DEF FitInv
  <2> QED BY <2>1, <2>2, <2>4, <2>5, <2>6 DEF FitInv
<1>7. ASSUME NEW w \in Widths, WindowResizes(w) PROVE FitInv'
  <2>1. winTimer' = TRUE /\ UNCHANGED <<tbl, wired, wiredMO>>
    BY <1>7 DEF WindowResizes
  <2> QED BY <2>1 DEF FitInv, Fits
<1>8. CASE winTimerFires
  <2> DEFINE R(t) == apply([tbl[t] EXCEPT !.reveal = FALSE], vw)
  <2>1. /\ wired' = sweepDetached /\ winTimer' = FALSE /\ UNCHANGED <<wiredMO, vw>>
        /\ tbl' = [t \in Tables |-> IF t \in wired' THEN R(t) ELSE tbl[t]]
    BY <1>8 DEF winTimerFires
  <2>2. \A t \in Tables : R(t) \in TableRec /\ Fits(R(t), vw, FALSE) /\ R(t).conn = tbl[t].conn
    BY ApplyFits, Unrevealed DEF FitInv
  <2> HIDE DEF R
  <2>3. wired' \subseteq wired /\ wired \subseteq Tables
    BY <2>1 DEF sweepDetached, FitInv
  <2>4. tbl' \in [Tables -> TableRec]
    BY <2>1, <2>2 DEF FitInv
  <2>5. \A t \in wired' : tbl'[t] = R(t)
    BY <2>1, <2>3
  <2>6. \A t \in wired' : Fits(tbl'[t], vw', winTimer') /\ (tbl'[t].conn => t \in wiredMO')
    BY <2>1, <2>2, <2>3, <2>5 DEF FitInv
  <2>7. wired' = {} \/ \E u \in Tables : wired' = {u}
    BY <2>3 DEF FitInv
  <2> QED BY <2>1, <2>3, <2>4, <2>6, <2>7 DEF FitInv
<1>9. CASE UNCHANGED fitVars
  BY <1>9 DEF fitVars, FitInv
<1> QED BY <1>1, <1>2, <1>3, <1>4, <1>5, <1>6, <1>7, <1>8, <1>9 DEF FitNext

\* Cells follow the header, the header fits the window, and at most one table
\* that is gone is still observed (packets.js, TableResponsive).
THEOREM FitThm == FitInit /\ [][FitNext]_fitVars => [](CellsFollowHeader /\ FitsTheWindow /\ NoObserverPile)
<1>1. FitInv => CellsFollowHeader /\ FitsTheWindow
  BY DEF FitInv, Fits, CellsFollowHeader, FitsTheWindow
<1>2. FitInv => NoObserverPile
  <2> SUFFICES ASSUME FitInv PROVE NoObserverPile
    OBVIOUS
  <2> DEFINE gone == {t \in wired : ~tbl[t].conn}
  <2>1. gone = {} \/ \E t : gone = {t}
    BY DEF FitInv
  <2>2. Cardinality(gone) = 0 \/ Cardinality(gone) = 1
    BY <2>1, FS_EmptySet, FS_Singleton
  <2> HIDE DEF gone
  <2>3. Cardinality(gone) <= 1
    BY <2>2
  <2> QED BY <2>3 DEF NoObserverPile, gone
<1> QED BY FitStart, FitStepHolds, <1>1, <1>2, PTL

------------------------------------------------------------------------------
(* The panel that slides over the table.                                   *)
SlideTypes == /\ slide \in [open : BOOLEAN, row : Rows \union {NoRow}, token : Nat]
              /\ openSeq \in Nat /\ nextToken \in Nat \ {0} /\ lockCount \in Nat /\ picker \in Nat
              /\ inDom \in SUBSET Rows /\ chains \in SUBSET [seq : Nat, row : Rows, at : {"frame", "observer"}]
              /\ scrollLocked \in BOOLEAN /\ late \in BOOLEAN
SlideRests == IF slide.open THEN slide.row \in Rows /\ slide.token # 0 ELSE slide.row = NoRow /\ slide.token = 0
\* A token is held by the panel or by the picker, and counted once.
TokensHeld == /\ locks = {slide.token, picker} \ {0}
              /\ slide.token < nextToken /\ picker < nextToken
              /\ slide.open => slide.token # picker
              /\ lockCount = (IF slide.token # 0 THEN 1 ELSE 0) + (IF picker # 0 THEN 1 ELSE 0)
              /\ scrollLocked = (lockCount > 0)
\* The chains of earlier closes are recognised by their number.
ChainsOrdered == \A c \in chains : c.seq <= openSeq /\ (slide.open => c.seq < openSeq) /\ (c.seq = openSeq => c.row = closedRow)
Awaited == \E c \in chains : c.seq = openSeq /\ c.at = "frame"
FocusComes == ~slide.open /\ ~late /\ closedRow \in inDom => focus = closedRow \/ Awaited
SlideInv == SlideTypes /\ SlideRests /\ TokensHeld /\ ChainsOrdered /\ FocusInPanel /\ SelectionIsShown /\ FocusComes

NotInRows == NoRow \notin Rows /\ "x" \notin Rows
\* The words for nothing selected are no rows.
LEMMA SentinelsApart == NotInRows
  BY SlideOverAssumption DEF NotInRows

\* A close remembers its row and waits for a frame first.
LEMMA ChainIs ==
  ASSUME SlideTypes, NEW r \in Rows
  PROVE  Chain(r) \in [seq : Nat, row : Rows, at : {"frame", "observer"}] /\ Chain(r).seq = openSeq /\ Chain(r).row = r /\ Chain(r).at = "frame"
  BY DEF SlideTypes, Chain

\* At the start no panel is open and nothing is locked.
LEMMA SlideStart == SlideInit => SlideInv
<1> SUFFICES ASSUME SlideInit PROVE SlideInv
  OBVIOUS
<1>1. SlideTypes
  <2>1. slide = [open |-> FALSE, row |-> NoRow, token |-> 0] /\ openSeq = 0 /\ nextToken = 1 /\ lockCount = 0 /\ picker = 0
        /\ inDom = Rows /\ chains = {} /\ scrollLocked = FALSE /\ late = FALSE
    BY Zenon DEF SlideInit
  <2>2. slide \in [open : BOOLEAN, row : Rows \union {NoRow}, token : Nat]
    BY <2>1
  <2>3. openSeq \in Nat /\ nextToken \in Nat \ {0} /\ lockCount \in Nat /\ picker \in Nat
    BY <2>1
  <2>4. inDom \in SUBSET Rows /\ chains \in SUBSET [seq : Nat, row : Rows, at : {"frame", "observer"}]
    BY <2>1
  <2> QED BY <2>1, <2>2, <2>3, <2>4, Zenon DEF SlideTypes
<1>2. SlideRests /\ ChainsOrdered /\ FocusInPanel /\ SelectionIsShown
  BY DEF SlideInit, SlideRests, ChainsOrdered, FocusInPanel, SelectionIsShown
<1>3. TokensHeld
  <2>1. slide.open = FALSE /\ slide.token = 0 /\ picker = 0 /\ nextToken = 1 /\ lockCount = 0 /\ scrollLocked = FALSE /\ locks = {}
    BY DEF SlideInit
  <2>2. (lockCount > 0) = FALSE /\ slide.token < nextToken /\ picker < nextToken
    BY <2>1
  <2>3. lockCount = (IF slide.token # 0 THEN 1 ELSE 0) + (IF picker # 0 THEN 1 ELSE 0)
    BY <2>1
  <2>4. locks = {slide.token, picker} \ {0}
    BY <2>1
  <2> QED BY <2>1, <2>2, <2>3, <2>4, Zenon DEF TokensHeld
<1>4. FocusComes
  BY SentinelsApart DEF SlideInit, FocusComes, NotInRows
<1> QED BY <1>1, <1>2, <1>3, <1>4 DEF SlideInv

\* The panel takes a lock of its own, whether it replaces a panel or not.
LEMMA OpenStep == ASSUME SlideInv, NEW r \in Rows, open(r) PROVE SlideInv'
<1>1. /\ slide' = [open |-> TRUE, row |-> r, token |-> nextToken] /\ openSeq' = openSeq + 1 /\ selected' = r /\ focus' = "x"
      /\ nextToken' = nextToken + 1 /\ scrollLocked' = TRUE /\ UNCHANGED <<picker, inDom, late>>
  BY Zenon DEF open, acquire
<1>2. locks' = (locks \ {slide.token}) \union {nextToken} /\ lockCount' = IF slide.open THEN lockCount ELSE lockCount + 1
  BY DEF open, acquire, SlideInv, SlideRests, TokensHeld
<1>3. /\ chains' \subseteq chains \union {Chain(slide.row)}
      /\ ~slide.open => chains' \subseteq chains
  BY Zenon DEF open
<1>4. \A c \in chains' : c \in [seq : Nat, row : Rows, at : {"frame", "observer"}] /\ c.seq <= openSeq
  <2>1. ASSUME slide.open PROVE Chain(slide.row).seq = openSeq /\ Chain(slide.row) \in [seq : Nat, row : Rows, at : {"frame", "observer"}]
    BY <2>1, ChainIs DEF SlideInv, SlideRests
  <2>2. openSeq \in Nat
    BY DEF SlideInv, SlideTypes
  <2>3. CASE slide.open
    BY <1>3, <2>1, <2>2, <2>3 DEF SlideInv, SlideTypes, ChainsOrdered
  <2>4. CASE ~slide.open
    BY <1>3, <2>4 DEF SlideInv, SlideTypes, ChainsOrdered
  <2> QED BY <2>3, <2>4
<1>5. slide'.open /\ slide'.row = r /\ slide'.token = nextToken
  BY <1>1
<1>6. slide' \in [open : BOOLEAN, row : Rows \union {NoRow}, token : Nat]
  BY <1>1 DEF SlideInv, SlideTypes
<1>7. lockCount' \in Nat
  BY <1>2 DEF SlideInv, SlideTypes
<1>8. SlideTypes'
  BY <1>1, <1>4, <1>6, <1>7 DEF SlideInv, SlideTypes
<1>9. SlideRests' /\ FocusInPanel' /\ SelectionIsShown' /\ FocusComes'
  BY <1>1, <1>5 DEF SlideRests, FocusInPanel, SelectionIsShown, FocusComes, SlideInv, SlideTypes
<1>10. TokensHeld'
  <2>1. locks' = {nextToken, picker} \ {0}
    BY <1>2 DEF SlideInv, SlideTypes, SlideRests, TokensHeld
  <2>2. lockCount' = 1 + (IF picker # 0 THEN 1 ELSE 0) /\ lockCount' > 0
    BY <1>2 DEF SlideInv, SlideTypes, SlideRests, TokensHeld
  <2>3. (lockCount' > 0) = TRUE
    BY <2>2
  <2>4. slide'.token < nextToken' /\ picker' < nextToken' /\ slide'.token # picker' /\ slide'.token # 0
    BY <1>1, <1>5 DEF SlideInv, SlideTypes, TokensHeld
  <2>5. lockCount' = (IF slide'.token # 0 THEN 1 ELSE 0) + (IF picker' # 0 THEN 1 ELSE 0)
    BY <1>1, <2>2, <2>4
  <2>6. locks' = {slide'.token, picker'} \ {0} /\ scrollLocked' = (lockCount' > 0)
    BY <1>1, <1>5, <2>1, <2>3
  <2> QED BY <2>4, <2>5, <2>6, Zenon DEF TokensHeld
<1>11. ChainsOrdered'
  BY <1>1, <1>4, <1>5 DEF SlideInv, SlideTypes, ChainsOrdered
<1> QED BY <1>8, <1>9, <1>10, <1>11 DEF SlideInv

\* Closing releases the panel's lock and leaves one chain for the focus.
LEMMA CloseStep == ASSUME SlideInv, slide.open, close PROVE SlideInv'
<1>1. /\ slide' = [open |-> FALSE, row |-> NoRow, token |-> 0] /\ release(slide.token) /\ selected' = NoRow
      /\ focus' = FocusAfterClose /\ chains' = chains \union {Chain(slide.row)} /\ closedRow' = slide.row /\ late' = FALSE
      /\ UNCHANGED <<openSeq, picker, inDom>>
  BY Zenon DEF close
<1>0. slide.row \in Rows /\ slide.token # 0 /\ slide.token \in Nat /\ slide.token \in locks
  BY DEF SlideInv, SlideTypes, SlideRests, TokensHeld
<1>2. locks' = locks \ {slide.token} /\ lockCount' = lockCount - 1 /\ scrollLocked' = (lockCount > 1) /\ nextToken' = nextToken
  BY <1>0, <1>1, Zenon DEF release
<1>3. Chain(slide.row) \in [seq : Nat, row : Rows, at : {"frame", "observer"}] /\ Chain(slide.row).seq = openSeq
      /\ Chain(slide.row).row = slide.row /\ Chain(slide.row).at = "frame"
  BY <1>0, ChainIs DEF SlideInv
<1>4. slide'.open = FALSE /\ slide'.row = NoRow /\ slide'.token = 0 /\ slide' \in [open : BOOLEAN, row : Rows \union {NoRow}, token : Nat]
  BY <1>1
<1>5. lockCount' = (IF picker # 0 THEN 1 ELSE 0) /\ lockCount' \in Nat
  BY <1>0, <1>2 DEF SlideInv, SlideTypes, TokensHeld
<1>6. scrollLocked' = (lockCount' > 0) /\ scrollLocked' \in BOOLEAN
  BY <1>2, <1>5 DEF SlideInv, SlideTypes, TokensHeld
<1>7. SlideTypes'
  BY <1>1, <1>2, <1>3, <1>4, <1>5, <1>6 DEF SlideInv, SlideTypes
<1>8. TokensHeld'
  <2>1. locks' = {0, picker} \ {0}
    BY <1>0, <1>2 DEF SlideInv, TokensHeld
  <2> QED BY <1>1, <1>2, <1>4, <1>5, <1>6, <2>1 DEF SlideInv, SlideTypes, TokensHeld
<1>9. ChainsOrdered'
  BY <1>1, <1>3, <1>4 DEF SlideInv, SlideTypes, ChainsOrdered
<1>10. FocusComes'
  BY <1>1, <1>3 DEF FocusComes, Awaited
<1> QED BY <1>1, <1>4, <1>7, <1>8, <1>9, <1>10 DEF SlideInv, SlideRests, FocusInPanel, SelectionIsShown

\* The check after a frame moves the focus only when no newer panel is open.
LEMMA RecheckStep == ASSUME SlideInv, NEW c \in chains, deferredRecheck(c) PROVE SlideInv'
<1>1. /\ c.at = "frame" /\ UNCHANGED <<slide, openSeq, selected, locks, nextToken, lockCount, scrollLocked, picker, inDom, closedRow, late>>
      /\ \/ c.seq # openSeq /\ chains' = chains \ {c} /\ focus' = focus
         \/ c.seq = openSeq /\ c.row \in inDom /\ focus' = c.row /\ chains' = chains \ {c}
         \/ c.seq = openSeq /\ c.row \notin inDom /\ focus' = focus /\ chains' = (chains \ {c}) \union {[c EXCEPT !.at = "observer"]}
  BY Zenon DEF deferredRecheck
<1>2. c \in [seq : Nat, row : Rows, at : {"frame", "observer"}]
  BY DEF SlideInv, SlideTypes
<1> DEFINE d == [c EXCEPT !.at = "observer"]
<1>3. d \in [seq : Nat, row : Rows, at : {"frame", "observer"}] /\ d.seq = c.seq /\ d.row = c.row /\ d.at = "observer"
  BY <1>2
<1> HIDE DEF d
<1>4. chains' \subseteq chains \union {d} /\ chains \ {c} \subseteq chains'
  BY <1>1 DEF d
<1>5. SlideTypes'
  BY <1>1, <1>3, <1>4 DEF SlideInv, SlideTypes
<1>6. ChainsOrdered'
  BY <1>1, <1>3, <1>4 DEF SlideInv, ChainsOrdered
<1>7. SlideRests' /\ TokensHeld' /\ SelectionIsShown'
  BY <1>1 DEF SlideInv, SlideRests, TokensHeld, SelectionIsShown
<1>8. FocusInPanel'
  BY <1>1, <1>2 DEF SlideInv, SlideTypes, FocusInPanel, ChainsOrdered
<1>9. FocusComes'
  <2> SUFFICES ASSUME ~slide.open, ~late, closedRow \in inDom PROVE focus' = closedRow \/ Awaited'
    BY <1>1 DEF FocusComes
  <2>1. CASE c.seq = openSeq
    BY <1>1, <2>1 DEF SlideInv, ChainsOrdered
  <2>2. CASE c.seq # openSeq
    <3>1. focus' = focus
      BY <1>1, <2>2
    <3>2. Awaited => Awaited'
      BY <1>1, <1>4, <2>2 DEF Awaited
    <3> QED BY <3>1, <3>2 DEF SlideInv, FocusComes
  <2> QED BY <2>1, <2>2
<1> QED BY <1>5, <1>6, <1>7, <1>8, <1>9 DEF SlideInv

\* The timer of an observer that saw nothing ends its chain.
LEMMA TimeoutStep == ASSUME SlideInv, NEW c \in chains, observerTimeout(c) PROVE SlideInv'
<1>1. /\ c.at = "observer" /\ chains' = chains \ {c}
      /\ UNCHANGED <<slide, openSeq, selected, locks, nextToken, lockCount, scrollLocked, picker, focus, inDom, closedRow, late>>
  BY Zenon DEF observerTimeout
<1>2. Awaited => Awaited'
  BY <1>1 DEF Awaited
<1> QED BY <1>1, <1>2 DEF SlideInv, SlideTypes, SlideRests, TokensHeld, ChainsOrdered, FocusInPanel, SelectionIsShown, FocusComes

\* Drawing the table again brings the row back for the chains that wait.
LEMMA RedrawStep == ASSUME SlideInv, NEW rows \in SUBSET Rows, attachBodyObserver(rows) PROVE SlideInv'
<1> DEFINE watching == {c \in chains : c.at = "observer"}
<1> DEFINE landed == {c \in watching : c.seq = openSeq /\ c.row \in rows}
<1> DEFINE here == IF focus \in Rows THEN "body" ELSE focus
<1>1. /\ inDom' = rows /\ focus' = (IF landed = {} THEN here ELSE (CHOOSE c \in landed : TRUE).row)
      /\ chains' = chains \ (landed \union {c \in watching : c.seq # openSeq})
      /\ late' = (late \/ {c \in chains : c.seq = openSeq} = {})
      /\ UNCHANGED <<slide, openSeq, selected, locks, nextToken, lockCount, scrollLocked, picker, closedRow>>
  BY Zenon DEF attachBodyObserver
<1>2. \A c \in landed : c \in chains /\ c.seq = openSeq
  OBVIOUS
<1>3. landed # {} => focus' = closedRow
  <2>1. landed # {} => (CHOOSE c \in landed : TRUE) \in landed
    OBVIOUS
  <2> QED BY <1>1, <1>2, <2>1 DEF SlideInv, ChainsOrdered
<1>4. late' \in BOOLEAN
  BY <1>1
<1>5. SlideTypes' /\ ChainsOrdered'
  BY <1>1, <1>4 DEF SlideInv, SlideTypes, ChainsOrdered
<1>6. SlideRests' /\ TokensHeld' /\ SelectionIsShown'
  BY <1>1 DEF SlideInv, SlideRests, TokensHeld, SelectionIsShown
<1>7. FocusInPanel'
  <2> SUFFICES ASSUME slide.open PROVE focus' = "x"
    BY <1>1 DEF FocusInPanel
  <2>1. \A c \in chains : c.seq # openSeq
    BY DEF SlideInv, SlideTypes, ChainsOrdered
  <2>2. landed = {}
    BY <2>1
  <2> QED BY <1>1, <2>2, SentinelsApart DEF SlideInv, FocusInPanel, NotInRows
<1>8. FocusComes'
  <2> SUFFICES ASSUME ~slide.open, ~late', closedRow \in rows PROVE focus' = closedRow \/ Awaited'
    BY <1>1 DEF FocusComes
  <2>1. PICK c \in chains : c.seq = openSeq
    BY <1>1
  <2>2. c.row = closedRow /\ c.at \in {"frame", "observer"}
    BY <2>1 DEF SlideInv, SlideTypes, ChainsOrdered
  <2>3. CASE c.at = "frame"
    <3>1. c \in chains'
      BY <1>1, <2>3
    <3> QED BY <1>1, <2>1, <2>3, <3>1 DEF Awaited
  <2>4. CASE c.at = "observer"
    BY <1>3, <2>1, <2>2, <2>4
  <2> QED BY <2>2, <2>3, <2>4
<1> QED BY <1>5, <1>6, <1>7, <1>8 DEF SlideInv

\* The colour popover takes and gives back its own lock.
LEMMA PickerStep == ASSUME SlideInv, PickerToggles PROVE SlideInv'
<1>0. UNCHANGED <<slide, openSeq, selected, chains, focus, inDom, closedRow, late>>
  BY Zenon DEF PickerToggles
<1>1. ChainsOrdered' /\ SlideRests' /\ FocusInPanel' /\ SelectionIsShown' /\ FocusComes'
  BY <1>0 DEF SlideInv, ChainsOrdered, SlideRests, FocusInPanel, SelectionIsShown, FocusComes, Awaited
<1>2. CASE picker = 0
  <2>1. /\ locks' = locks \union {nextToken} /\ nextToken' = nextToken + 1 /\ lockCount' = lockCount + 1 /\ scrollLocked' = TRUE
        /\ picker' = nextToken
    BY <1>2, Zenon DEF PickerToggles, acquire
  <2>2. SlideTypes'
    BY <1>0, <2>1 DEF SlideInv, SlideTypes
  <2>3. locks' = {slide.token, nextToken} \ {0}
    BY <1>2, <2>1 DEF SlideInv, SlideTypes, TokensHeld
  <2>4. TokensHeld'
    <3>1. slide.token < nextToken /\ slide.token \in Nat /\ nextToken \in Nat \ {0} /\ lockCount = (IF slide.token # 0 THEN 1 ELSE 0)
      BY <1>2 DEF SlideInv, SlideTypes, TokensHeld
    <3>2. slide'.token < nextToken' /\ picker' < nextToken' /\ slide'.token # picker' /\ picker' # 0
      BY <1>0, <2>1, <3>1
    <3>3. lockCount' = (IF slide'.token # 0 THEN 1 ELSE 0) + (IF picker' # 0 THEN 1 ELSE 0) /\ lockCount' > 0
      BY <1>0, <2>1, <3>1, <3>2
    <3>4. scrollLocked' = (lockCount' > 0)
      BY <2>1, <3>3
    <3> QED BY <1>0, <2>1, <2>3, <3>2, <3>3, <3>4, Zenon DEF TokensHeld
  <2> QED BY <1>1, <2>2, <2>4 DEF SlideInv
<1>3. CASE picker # 0
  <2>0. release(picker) /\ picker' = 0 /\ picker \in locks
    BY <1>3 DEF PickerToggles, SlideInv, SlideTypes, TokensHeld
  <2>1. locks' = locks \ {picker} /\ lockCount' = lockCount - 1 /\ scrollLocked' = (lockCount > 1) /\ nextToken' = nextToken
    BY <2>0, Zenon DEF release
  <2>2. lockCount' = (IF slide.token # 0 THEN 1 ELSE 0) /\ lockCount' \in Nat
    BY <1>3, <2>1 DEF SlideInv, SlideTypes, TokensHeld
  <2>3. scrollLocked' = (lockCount' > 0) /\ scrollLocked' \in BOOLEAN
    BY <2>1, <2>2 DEF SlideInv, SlideTypes
  <2>4. SlideTypes'
    BY <1>0, <2>0, <2>1, <2>2, <2>3 DEF SlideInv, SlideTypes
  <2>5. slide.token # picker
    BY <1>3 DEF SlideInv, SlideRests, TokensHeld
  <2>6. locks' = {slide.token, 0} \ {0}
    BY <2>1, <2>5 DEF SlideInv, TokensHeld
  <2>7. TokensHeld'
    BY <1>0, <2>0, <2>1, <2>2, <2>3, <2>6 DEF SlideInv, SlideTypes, SlideRests, TokensHeld
  <2> QED BY <1>1, <2>4, <2>7 DEF SlideInv
<1> QED BY <1>2, <1>3

\* What the panel does not read may change.
LEMMA SlideRest ==
  ASSUME SlideInv,
         UNCHANGED <<slide, openSeq, selected, locks, nextToken, lockCount, scrollLocked, picker, chains, focus, inDom, closedRow, late>>
  PROVE  SlideInv'
  BY DEF SlideInv, SlideTypes, SlideRests, TokensHeld, ChainsOrdered, FocusInPanel, SelectionIsShown, FocusComes, Awaited

\* Every step keeps lock, history, selection and focus of the panel in
\* agreement.
LEMMA SlideStepHolds == SlideInv /\ [SlideNext]_slideVars => SlideInv'
<1> SUFFICES ASSUME SlideInv, [SlideNext]_slideVars PROVE SlideInv'
  OBVIOUS
<1>1. CASE \E r \in Rows : open(r)
  BY <1>1, OpenStep
<1>2. CASE UserCloses
  BY <1>2, CloseStep DEF UserCloses
<1>3. CASE PickerToggles
  BY <1>3, PickerStep
<1>4. CASE WindowWidens
  BY <1>4, SlideRest DEF WindowWidens
<1>5. CASE resizeTFires
  <2>1. CASE slide.open /\ wide
    BY <1>5, <2>1, CloseStep DEF resizeTFires
  <2>2. CASE ~(slide.open /\ wide)
    BY <1>5, <2>2, SlideRest DEF resizeTFires
  <2> QED BY <2>1, <2>2
<1>6. CASE \E c \in chains : deferredRecheck(c) \/ observerTimeout(c)
  BY <1>6, RecheckStep, TimeoutStep
<1>7. CASE \E rows \in SUBSET Rows : attachBodyObserver(rows)
  BY <1>7, RedrawStep
<1>8. CASE UNCHANGED slideVars
  BY <1>8, SlideRest DEF slideVars
<1> QED BY <1>1, <1>2, <1>3, <1>4, <1>5, <1>6, <1>7, <1>8 DEF SlideNext

\* The page is locked exactly while a surface is open, the focus stays in an
\* open panel and comes back to the row afterwards (packets.js, SlideOver).
THEOREM SlideThm == SlideInit /\ [][SlideNext]_slideVars => [](ScrollLockExact /\ FocusInPanel /\ SelectionIsShown /\ FocusReturns)
<1>1. SlideInv => ScrollLockExact
  <2> SUFFICES ASSUME SlideInv PROVE ScrollLockExact
    OBVIOUS
  <2>1. scrollLocked = (slide.token # 0 \/ picker # 0)
    BY DEF SlideInv, SlideTypes, TokensHeld
  <2>2. slide.open \in BOOLEAN /\ scrollLocked \in BOOLEAN
    BY DEF SlideInv, SlideTypes
  <2>3. slide.open <=> slide.token # 0
    BY <2>2 DEF SlideInv, SlideRests
  <2> QED BY <2>1, <2>2, <2>3, Zenon DEF ScrollLockExact
<1>2. SlideInv => FocusInPanel /\ SelectionIsShown /\ FocusReturns
  BY DEF SlideInv, FocusComes, Awaited, FocusReturns
<1> QED BY SlideStart, SlideStepHolds, <1>1, <1>2, PTL

PanelsSpec == FitInit /\ [][FitNext]_fitVars /\ SlideInit /\ [][SlideNext]_slideVars

\* Tables and the panel over them, side by side, for any tables, columns,
\* widths and rows.
THEOREM PanelsConsistentThm == PanelsSpec => []PanelsConsistent
<1>1. (CellsFollowHeader /\ FitsTheWindow /\ NoObserverPile) /\ (ScrollLockExact /\ FocusInPanel /\ SelectionIsShown /\ FocusReturns)
         => PanelsConsistent
  BY DEF PanelsConsistent
<1> QED BY <1>1, FitThm, SlideThm, PTL DEF PanelsSpec

-------------------------------------------------------------------------------
(* Dialogs of the channels page (ChanPanel).                                *)

\* While nobody asks for a panel during another's loading, one call at most
\* is under way, and it holds no trap until it is done.
OneAtATime ==
    ~overlapped => /\ \A a, b \in panelAsks : a = b
                   /\ panelAsks # {} => ~trapHeld
                   /\ traps = IF trapHeld THEN 1 ELSE 0
PanelInv == trapHeld \in BOOLEAN /\ overlapped \in BOOLEAN /\ OneAtATime

\* At the start no node panel is open.
LEMMA PanelStarts == PanelInit => PanelInv
  BY DEF PanelInit, PanelInv, OneAtATime

\* Opening a sender's panel keeps one trap at a time, unless openings
\* overlapped.
LEMMA PanelOpens == ASSUME PanelInv, NEW s \in Senders, showNodeDetail(s) PROVE PanelInv'
<1>1. /\ panelAsks' = panelAsks \union {[s |-> s, step |-> 1]} /\ traps' = (IF trapHeld THEN traps - 1 ELSE traps)
      /\ trapHeld' = FALSE /\ overlapped' = (overlapped \/ panelAsks # {})
  BY Zenon DEF showNodeDetail
<1>2. overlapped' \in BOOLEAN
  BY <1>1
<1>3. ~overlapped' => ~overlapped /\ panelAsks = {}
  BY <1>1 DEF PanelInv
<1>4. ~overlapped' => traps' = 0 /\ panelAsks' = {[s |-> s, step |-> 1]}
  <2> SUFFICES ASSUME ~overlapped' PROVE traps' = 0 /\ panelAsks' = {[s |-> s, step |-> 1]}
    OBVIOUS
  <2>1. ~overlapped /\ panelAsks = {}
    BY <1>3
  <2>2. traps = IF trapHeld THEN 1 ELSE 0
    BY <2>1 DEF PanelInv, OneAtATime
  <2>3. panelAsks' = panelAsks \union {[s |-> s, step |-> 1]} /\ traps' = (IF trapHeld THEN traps - 1 ELSE traps)
    BY <1>1
  <2> QED BY <2>1, <2>2, <2>3
<1>5. trapHeld' = FALSE
  BY <1>1
<1> QED BY <1>2, <1>4, <1>5 DEF PanelInv, OneAtATime

\* An answer keeps one trap at a time, unless openings overlapped.
LEMMA PanelLooksUp == ASSUME PanelInv, NEW a \in panelAsks, lookupNode(a) \/ nodeDetailArrives(a) PROVE PanelInv'
<1>1. overlapped' = overlapped
  BY DEF lookupNode, nodeDetailArrives
<1>2. \/ panelAsks' = (panelAsks \ {a}) \union {[a EXCEPT !.step = 2]} /\ traps' = traps /\ trapHeld' = trapHeld
      \/ panelAsks' = panelAsks \ {a} /\ traps' = traps + 1 /\ trapHeld' = TRUE
  BY DEF lookupNode, nodeDetailArrives
<1>3. CASE panelAsks' = (panelAsks \ {a}) \union {[a EXCEPT !.step = 2]} /\ traps' = traps /\ trapHeld' = trapHeld
  <2> DEFINE d == [a EXCEPT !.step = 2]
  <2>1. panelAsks' = (panelAsks \ {a}) \union {d}
    BY <1>3
  <2> HIDE DEF d
  <2> QED BY <1>1, <1>3, <2>1 DEF PanelInv, OneAtATime
<1>4. CASE panelAsks' = panelAsks \ {a} /\ traps' = traps + 1 /\ trapHeld' = TRUE
  BY <1>1, <1>4 DEF PanelInv, OneAtATime
<1> QED BY <1>2, <1>3, <1>4

\* Every step of the node panel keeps one trap at a time, unless openings
\* overlapped.
LEMMA PanelStepHolds == PanelInv /\ [PanelNext]_panelVars => PanelInv'
<1> SUFFICES ASSUME PanelInv, [PanelNext]_panelVars PROVE PanelInv'
  OBVIOUS
<1>0. ASSUME UNCHANGED <<panelAsks, traps, trapHeld, overlapped>> PROVE PanelInv'
  BY <1>0 DEF PanelInv, OneAtATime
<1>1. CASE \E s \in Senders : showNodeDetail(s)
  BY <1>1, PanelOpens
<1>2. CASE \E s \in Senders : mouseover(s) \/ showNodeTooltip(s)
  BY <1>0, <1>2 DEF mouseover, showNodeTooltip
<1>3. CASE \E a \in panelAsks : lookupNode(a) \/ nodeDetailArrives(a)
  BY <1>3, PanelLooksUp
<1>4. CASE closeNodeDetail
  <2>1. /\ traps' = (IF trapHeld THEN traps - 1 ELSE traps) /\ trapHeld' = FALSE /\ UNCHANGED <<panelAsks, overlapped>>
    BY <1>4, Zenon DEF closeNodeDetail
  <2>2. ~overlapped => traps' = 0
    BY <2>1 DEF PanelInv, OneAtATime
  <2> QED BY <2>1, <2>2 DEF PanelInv, OneAtATime
<1>5. CASE mouseout \/ hideNodeTooltip
  BY <1>0, <1>5 DEF mouseout, hideNodeTooltip
<1>6. CASE UNCHANGED panelVars
  BY <1>0, <1>6 DEF panelVars
<1> QED BY <1>1, <1>2, <1>3, <1>4, <1>5, <1>6 DEF PanelNext

\* A popover holds the lock; its listeners are on, or a timer sets them.
PickInv ==
    /\ listenTimers \in Nat /\ lockHeld \in BOOLEAN /\ listening \in BOOLEAN /\ hidEarly \in BOOLEAN
    /\ pickerOf \in Senders \union {Nobody}
    /\ PickerLock
    /\ pickerOf # Nobody => listening \/ listenTimers > 0
    /\ pickerOf = Nobody /\ ~hidEarly => ~listening /\ listenTimers = 0

\* The word for nobody is no sender.
LEMMA NobodyApart == \A c \in Senders : c # Nobody
  BY ChanPanelAssumption DEF ChanPanelAssumption, Nobody

\* At the start no popover is open.
LEMMA PickStarts == PickInit => PickInv
<1> SUFFICES ASSUME PickInit PROVE PickInv
  OBVIOUS
<1>1. PickerLock
  BY Zenon DEF PickInit, PickerLock
<1> QED BY <1>1 DEF PickInit, PickInv

\* Hiding the popover takes its listeners away.
LEMMA PickHides == ASSUME PickInv, Hides PROVE PickInv'
<1>1. /\ pickerOf' = Nobody /\ lockHeld' = FALSE /\ listening' = FALSE /\ hidEarly' = (hidEarly \/ listenTimers > 0)
      /\ listenTimers' = listenTimers
  BY Zenon DEF Hides
<1>2. hidEarly' \in BOOLEAN
  BY <1>1
<1>3. ~hidEarly' => listenTimers' = 0
  <2>1. ~hidEarly' => ~(listenTimers > 0)
    BY <1>1, Zenon
  <2> QED BY <1>1, <2>1 DEF PickInv
<1>4. PickerLock'
  BY <1>1, Zenon DEF PickerLock
<1>5. listenTimers' \in Nat /\ lockHeld' = FALSE /\ listening' = FALSE /\ pickerOf' = Nobody
  BY <1>1 DEF PickInv
<1> QED BY <1>2, <1>3, <1>4, <1>5 DEF PickInv

\* Every step of the colour popover keeps its invariant.
LEMMA PickStepHolds == PickInv /\ [PickNext]_pickVars => PickInv'
<1> SUFFICES ASSUME PickInv, [PickNext]_pickVars PROVE PickInv'
  OBVIOUS
<1>1. CASE \E c \in Senders : showPopover(c)
  <2> PICK c \in Senders : showPopover(c)
    BY <1>1
  <2>1. pickerOf' = c /\ lockHeld' = TRUE /\ listenTimers' = listenTimers + 1 /\ UNCHANGED <<listening, hidEarly>>
    BY Zenon DEF showPopover
  <2>2. c # Nobody
    BY NobodyApart
  <2>3. PickerLock'
    BY <2>1, <2>2, Zenon DEF PickerLock
  <2> QED BY <2>1, <2>2, <2>3 DEF PickInv
<1>2. CASE focusTimerFires \/ arrowKey \/ UNCHANGED pickVars
  <2>1. UNCHANGED <<pickerOf, lockHeld, listenTimers, listening, hidEarly>>
    BY <1>2, Zenon DEF focusTimerFires, arrowKey, pickVars
  <2> QED BY <2>1 DEF PickInv, PickerLock
<1>3. CASE listenTimerFires
  <2>1. listenTimers > 0 /\ listenTimers' = listenTimers - 1 /\ listening' = TRUE /\ UNCHANGED <<pickerOf, lockHeld, hidEarly>>
    BY <1>3, Zenon DEF listenTimerFires
  <2>2. listenTimers # 0
    BY <2>1
  <2> QED BY <2>1, <2>2 DEF PickInv, PickerLock
<1>4. CASE hidePopover \/ onEscape
  BY <1>4, PickHides DEF hidePopover, onEscape
<1> QED BY <1>1, <1>2, <1>3, <1>4 DEF PickNext

\* A timer never takes the focus from where the arrow keys moved it.
LEMMA PickFocusHolds == [PickNext]_pickVars => [pickFocus = "other" => pickFocus' # "first"]_pickVars
<1> SUFFICES ASSUME [PickNext]_pickVars, pickFocus = "other" PROVE pickFocus' # "first"
  OBVIOUS
<1> QED BY DEF PickNext, pickVars, showPopover, focusTimerFires, focusUnlessInside, listenTimerFires, arrowKey, hidePopover, onEscape, Hides

\* However a scan ends, the camera is released.
LEMMA ScanStepHolds == ScanReleases /\ [ScanNext]_scanVars => ScanReleases'
<1> SUFFICES ASSUME ScanReleases, [ScanNext]_scanVars PROVE ScanReleases'
  OBVIOUS
<1>0. ASSUME cleanup, UNCHANGED grantedLate PROVE ScanReleases'
  <2>1. CASE scanDone
    BY <1>0, <2>1 DEF ScanReleases, cleanup
  <2>2. CASE ~scanDone
    BY <1>0, <2>2 DEF ScanReleases, cleanup
  <2> QED BY <2>1, <2>2
<1>1. CASE cancelClick \/ giveUpTimer
  BY <1>0, <1>1 DEF cancelClick, giveUpTimer
<1>2. CASE \E ok \in BOOLEAN : getUserMedia(ok)
  <2> PICK ok \in BOOLEAN : getUserMedia(ok)
    BY <1>2
  <2>1. CASE ok
    BY <2>1 DEF ScanReleases, getUserMedia
  <2>2. CASE ~ok
    BY <2>2 DEF ScanReleases, getUserMedia
  <2> QED BY <2>1, <2>2
<1>3. CASE \E found \in BOOLEAN : tick(found)
  <2> PICK found \in BOOLEAN : tick(found)
    BY <1>3
  <2>1. CASE found
    BY <1>0, <2>1 DEF tick
  <2>2. CASE ~found
    BY <2>2 DEF tick, ScanReleases
  <2> QED BY <2>1, <2>2
<1>4. CASE videoPlays
  BY <1>4, Zenon DEF ScanReleases, videoPlays
<1>5. CASE UNCHANGED scanVars
  BY <1>5 DEF ScanReleases, scanVars
<1> QED BY <1>1, <1>2, <1>3, <1>4, <1>5 DEF ScanNext

\* The share modal is opened from a row and holds the focus while it is open.
ModalInv ==
    /\ addModal \in BOOLEAN /\ ShareTrapExact
    /\ shareModal # "closed" => _shareModalTrigger = "row" /\ focusOn = "share"
    /\ shareModal # "closed" \/ focusOn = "row" => ~addModal

\* At the start no modal is open.
LEMMA ModalStarts == ModalInit => ModalInv
  BY DEF ModalInit, ModalInv, ShareTrapExact

\* Closing the share dialog releases its trap and gives the focus back to the
\* row.
LEMMA ShareCloses == ASSUME ModalInv, shareModal # "closed", closeShareModal, UNCHANGED addModal PROVE ModalInv' /\ focusOn' = "row"
  BY DEF ModalInv, ShareTrapExact, closeShareModal

\* Closing the add dialog leaves the other dialog alone.
LEMMA AddCloses == ASSUME ModalInv, addModal, closeAddModal, UNCHANGED <<shareModal, shareTraps, _shareModalTrigger>> PROVE ModalInv'
  BY DEF ModalInv, ShareTrapExact, closeAddModal

\* Every step keeps one trap per open dialog; closing the share dialog returns
\* the focus.
LEMMA ModalStepHolds ==
  ASSUME ModalInv, [ModalNext]_modalVars PROVE ModalInv' /\ (shareModal # "closed" /\ shareModal' = "closed" => focusOn' = "row")
<1>1. CASE \E how \in {"key", "error"} : openShareModal(how)
  BY <1>1 DEF ModalInv, ShareTrapExact, openShareModal, _trapShareModalFocus
<1>2. CASE openAddModal \/ focusRow
  <2>1. CASE openAddModal
    BY <2>1 DEF ModalInv, ShareTrapExact, openAddModal
  <2>2. CASE focusRow
    <3>1. ~addModal /\ focusOn' = "row" /\ UNCHANGED <<addModal, shareModal, shareTraps, _shareModalTrigger>> /\ shareModal = "closed"
      BY <2>2 DEF focusRow
    <3> QED BY <3>1 DEF ModalInv, ShareTrapExact
  <2> QED BY <1>2, <2>1, <2>2
<1>3. CASE scanClick \/ (\E k \in {"bad", "hex"} : typeKey(k)) \/ (\E res \in {"hex", "cancel", "fail"} : scanAnswers(res))
  <2>1. UNCHANGED <<addModal, shareModal, shareTraps, _shareModalTrigger>> /\ (focusOn' = focusOn \/ (addModal /\ focusOn' = "add"))
    BY <1>3 DEF scanClick, typeKey, scanAnswers
  <2> QED BY <2>1 DEF ModalInv, ShareTrapExact
<1>4. CASE pskAddClick
  <2>1. CASE pskKey = "hex"
    BY <1>4, <2>1, AddCloses DEF pskAddClick
  <2>2. CASE pskKey # "hex"
    BY <1>4, <2>2 DEF ModalInv, ShareTrapExact, pskAddClick
  <2> QED BY <2>1, <2>2
<1>5. CASE clickClose \/ escapeKey
  BY <1>5, ShareCloses, AddCloses DEF clickClose, escapeKey
<1>6. CASE UNCHANGED modalVars
  BY <1>6 DEF ModalInv, ShareTrapExact, modalVars
<1> QED BY <1>1, <1>2, <1>3, <1>4, <1>5, <1>6 DEF ModalNext

\* The focus goes back to the row in every step that closes the share dialog.
LEMMA ModalFocusHolds ==
  ModalInv /\ [ModalNext]_modalVars => [ShareFocusStep]_modalVars
  BY ModalStepHolds DEF ModalInv, ShareFocusStep

DialogsSpec ==
    /\ PanelInit /\ [][PanelNext]_panelVars
    /\ PickInit /\ [][PickNext]_pickVars
    /\ ScanInit /\ [][ScanNext]_scanVars
    /\ ModalInit /\ [][ModalNext]_modalVars

\* Panel, popover, scanner and modals side by side: what they trap and lock
\* is released, they listen while open, and the focus goes back (channels.js,
\* channel-color-picker.js, channel-qr.js).
THEOREM DialogsBehaveThm == DialogsSpec => DialogsBehave
<1>1. PanelInv => TrapsReleased
  BY DEF PanelInv, OneAtATime, TrapsReleased
<1>2. PickInv => PickerLock /\ ListensWhileOpen
  BY DEF PickInv, ListensWhileOpen
<1>3. ScanInit => ScanReleases
  BY DEF ScanInit, ScanReleases
<1>4. ModalInv => ShareTrapExact
  BY DEF ModalInv
<1>5. PanelInit /\ [][PanelNext]_panelVars => []TrapsReleased
  BY PanelStarts, PanelStepHolds, <1>1, PTL
<1>6. PickInit /\ [][PickNext]_pickVars => [](PickerLock /\ ListensWhileOpen) /\ FocusNotStolen
  BY PickStarts, PickStepHolds, PickFocusHolds, <1>2, PTL DEF FocusNotStolen
<1>7. ScanInit /\ [][ScanNext]_scanVars => []ScanReleases
  BY ScanStepHolds, <1>3, PTL
<1>8. ModalInit /\ [][ModalNext]_modalVars => []ShareTrapExact /\ ShareFocusReturns
  <2>1. ModalInv /\ [ModalNext]_modalVars => ModalInv'
    BY ModalStepHolds
  <2> QED BY ModalStarts, ModalFocusHolds, <1>4, <2>1, PTL DEF ShareFocusReturns
<1> QED BY <1>5, <1>6, <1>7, <1>8, PTL DEF DialogsSpec, DialogsBehave

-------------------------------------------------------------------------------
(* The message view of the channels page (ChanView).                        *)

\* A finite set of numbers in order: every number once.
LEMMA InOrderLists ==
  ASSUME NEW I \in SUBSET Nat, IsFiniteSet(I)
  PROVE  /\ Cardinality(I) \in Nat /\ InOrder(I) \in [1..Cardinality(I) -> I]
         /\ \A i \in I : \E k \in 1..Cardinality(I) : InOrder(I)[k] = i
         /\ \A k, l \in 1..Cardinality(I) : InOrder(I)[k] = InOrder(I)[l] => k = l
<1> DEFINE upTo(i) == {j \in I : j <= i}
<1> DEFINE n == Cardinality(I)
<1> DEFINE rank == [i \in I |-> Cardinality(upTo(i))]
<1>1. n \in Nat
  BY FS_CardinalityType
<1>2. \A i \in I : IsFiniteSet(upTo(i)) /\ Cardinality(upTo(i)) \in Nat /\ Cardinality(upTo(i)) <= n /\ Cardinality(upTo(i)) # 0
  <2> TAKE i \in I
  <2>1. upTo(i) \in SUBSET I /\ i \in upTo(i)
    OBVIOUS
  <2>2. IsFiniteSet(upTo(i)) /\ Cardinality(upTo(i)) <= n
    BY <2>1, FS_Subset
  <2>3. Cardinality(upTo(i)) \in Nat /\ Cardinality(upTo(i)) # 0
    BY <2>1, <2>2, FS_CardinalityType, FS_EmptySet
  <2> QED BY <2>2, <2>3
<1>3. \A i, j \in I : Cardinality(upTo(i)) = Cardinality(upTo(j)) => i = j
  <2>1. ASSUME NEW i \in I, NEW j \in I, i < j PROVE Cardinality(upTo(i)) # Cardinality(upTo(j))
    <3>0. \A x \in I : x \in Nat
      OBVIOUS
    <3>1. upTo(i) \in SUBSET upTo(j)
      <4>1. \A x \in I : x <= i => x <= j
        BY <2>1, <3>0
      <4> QED BY <4>1
    <3>3. j \in upTo(j) /\ j \notin upTo(i)
      BY <2>1, <3>0
    <3>2. IsFiniteSet(upTo(j))
      BY <1>2
    <3> HIDE DEF upTo
    <3> QED BY <3>1, <3>2, <3>3, FS_Subset
  <2> HIDE DEF upTo
  <2>2. \A i, j \in I : i # j => i < j \/ j < i
    OBVIOUS
  <2> QED BY <2>1, <2>2
<1>4. rank \in [I -> 1..n]
  BY <1>1, <1>2
<1>5. rank \in Injection(I, 1..n)
  BY <1>3, <1>4 DEF Injection, IsInjective
<1>6. IsFiniteSet(1..n) /\ Cardinality(1..n) = n
  BY <1>1, FS_Interval
<1>7. rank \in Surjection(I, 1..n)
  BY <1>5, <1>6, FS_Injection
<1>8. \A k \in 1..n : \E i \in I : Cardinality(upTo(i)) = k
  BY <1>7 DEF Surjection
<1>9. \A k \in 1..n : InOrder(I)[k] \in I /\ Cardinality(upTo(InOrder(I)[k])) = k
  BY <1>8 DEF InOrder
<1>10. InOrder(I) \in [1..n -> I]
  BY <1>9 DEF InOrder
<1>11. \A i \in I : Cardinality(upTo(i)) \in 1..n
  BY <1>1, <1>2
<1> QED BY <1>1, <1>3, <1>9, <1>10, <1>11

Entries == [m : Nat, obs : Nat, ws : BOOLEAN, via : {"ws", "rest", "cache"}]

\* A list of messages up to a number, each once.
Listed(s, top) ==
    /\ s \in Seq(Entries)
    /\ \A i \in DOMAIN s : s[i].m \in 1..top
    /\ \A i, j \in DOMAIN s : s[i].m = s[j].m => i = j

ViewTypes ==
    /\ chLog \in Seq([c : {"pub", "priv"}, r : {"R", "S"}]) /\ Len(chLog) <= MaxChMsgs
    /\ obsOf \in [MsgIds -> Nat]
    /\ messageRequestId \in Nat /\ selectedHash \in {NoChan, "pub", "priv"} /\ region \in {"all", "R"} /\ keptOld \in BOOLEAN
    /\ Listed(messages, Len(chLog)) /\ Listed(chCache, Len(chLog)) /\ \A i \in DOMAIN chCache : chCache[i].via = "cache"
    /\ \A b \in chBatch : b.m \in 1..Len(chLog)

\* An answer holds messages of its channel and region, each once, and all
\* but those that more newer ones than it can hold came after.
LEMMA AnswerIs ==
  ASSUME ViewTypes, NEW c, NEW r, NEW n \in 0..Len(chLog), NEW via \in {"rest", "cache"}
  PROVE  /\ Listed(OfServer(c, r, n, via), Len(chLog))
         /\ \A k \in DOMAIN OfServer(c, r, n, via) :
              LET e == OfServer(c, r, n, via)[k] IN e.via = via /\ ~e.ws /\ ChanOf(e.m) = c /\ Passes(e.m, r)
         /\ \A m \in 1..n : ChanOf(m) = c /\ Passes(m, r) /\ ~Behind(m) => \E k \in DOMAIN OfServer(c, r, n, via) : OfServer(c, r, n, via)[k].m = m
<1> DEFINE I == {i \in 1..n : ChanOf(i) = c /\ Passes(i, r)}
<1> DEFINE J == LastFew(I)
<1> DEFINE ms == InOrder(J)
<1> DEFINE s == OfServer(c, r, n, via)
<1>1. Len(chLog) \in Nat /\ n \in Nat /\ n <= Len(chLog) /\ Len(chLog) <= MaxChMsgs /\ MaxChMsgs \in Nat /\ AnswerLimit \in Nat
  BY ChanViewAssumption DEF ViewTypes, ChanViewAssumption
<1>2. IsFiniteSet(1..n) /\ IsFiniteSet(I)
  <2>1. I \in SUBSET (1..n)
    OBVIOUS
  <2> HIDE DEF I
  <2>2. 0 + 1 \in Int /\ n \in Int
    BY <1>1
  <2>3. IsFiniteSet(1..n)
    BY <2>2, FS_Interval
  <2> QED BY <2>1, <2>3, FS_Subset
<1>3. J \in SUBSET I
  BY DEF LastFew
<1>4. IsFiniteSet(J) /\ J \in SUBSET Nat
  BY <1>1, <1>2, <1>3, FS_Subset
<1>5. Cardinality(J) \in Nat /\ ms \in [1..Cardinality(J) -> J] /\ (\A i \in J : \E k \in 1..Cardinality(J) : ms[k] = i)
      /\ \A k, l \in 1..Cardinality(J) : ms[k] = ms[l] => k = l
  <2> HIDE DEF J
  <2> QED BY <1>4, InOrderLists
<1> HIDE DEF ms
<1>6. s = [k \in 1..Cardinality(J) |-> Entry(ms[k], obsOf[ms[k]], via)]
  BY <1>5 DEF OfServer, ms
<1>7. \A i \in J : i \in 1..n /\ i \in MsgIds /\ i \in 1..Len(chLog) /\ ChanOf(i) = c /\ Passes(i, r) /\ obsOf[i] \in Nat
  BY <1>1, <1>3 DEF MsgIds, ViewTypes
<1> HIDE DEF J, I, s
<1>8. \A k \in 1..Cardinality(J) : s[k] = [m |-> ms[k], obs |-> obsOf[ms[k]], ws |-> FALSE, via |-> via]
  BY <1>6 DEF Entry
<1>9. \A k \in 1..Cardinality(J) : s[k] \in Entries /\ s[k].m = ms[k] /\ s[k].via = via /\ ~s[k].ws
  <2> TAKE k \in 1..Cardinality(J)
  <2>1. ms[k] \in Nat /\ obsOf[ms[k]] \in Nat
    BY <1>1, <1>5, <1>7
  <2>2. s[k] = [m |-> ms[k], obs |-> obsOf[ms[k]], ws |-> FALSE, via |-> via]
    BY <1>8
  <2>3. s[k] \in Entries
    <3>1. via \in {"ws", "rest", "cache"} /\ FALSE \in BOOLEAN
      OBVIOUS
    <3>2. [m |-> ms[k], obs |-> obsOf[ms[k]], ws |-> FALSE, via |-> via] \in Entries
      BY <2>1, <3>1 DEF Entries
    <3> QED BY <2>2, <3>2, Zenon
  <2> QED BY <2>2, <2>3
<1>10. s \in Seq(Entries) /\ DOMAIN s = 1..Cardinality(J)
  BY <1>5, <1>6, <1>9
<1>11. Listed(s, Len(chLog))
  BY <1>5, <1>7, <1>9, <1>10 DEF Listed
<1>12. \A k \in DOMAIN s : s[k].via = via /\ ~s[k].ws /\ ChanOf(s[k].m) = c /\ Passes(s[k].m, r)
  BY <1>5, <1>7, <1>9, <1>10
<1>13. ASSUME NEW m \in 1..n, ChanOf(m) = c, Passes(m, r), ~Behind(m) PROVE m \in J
  <2> DEFINE newer == {i \in m+1..Len(chLog) : ChanOf(i) = ChanOf(m)}
  <2> DEFINE those == {j \in I : j >= m}
  <2>1. IsFiniteSet(m+1..Len(chLog)) /\ newer \in SUBSET (m+1..Len(chLog))
    <3>1. m + 1 \in Int /\ Len(chLog) \in Int
      BY <1>1
    <3> QED BY <3>1, FS_Interval
  <2>2. IsFiniteSet(newer)
    BY <2>1, FS_Subset
  <2>3. Cardinality(newer) \in Nat /\ Cardinality(newer) < AnswerLimit
    BY <1>1, <1>13, <2>2, FS_CardinalityType DEF Behind
  <2>4. m \notin newer
    BY <1>1
  <2>5. IsFiniteSet(newer \union {m}) /\ Cardinality(newer \union {m}) = Cardinality(newer) + 1
    BY <2>2, <2>4, FS_AddElement
  <2>6. those \in SUBSET (newer \union {m})
    BY <1>1, <1>13 DEF I
  <2>7. Cardinality(those) <= Cardinality(newer) + 1 /\ Cardinality(those) \in Nat
    BY <2>5, <2>6, FS_Subset, FS_CardinalityType
  <2>8. Cardinality(those) <= AnswerLimit
    BY <1>1, <2>3, <2>7
  <2>9. m \in I
    BY <1>13 DEF I
  <2> QED BY <2>8, <2>9 DEF J, LastFew
<1>14. \A m \in 1..n : ChanOf(m) = c /\ Passes(m, r) /\ ~Behind(m) => \E k \in DOMAIN s : s[k].m = m
  BY <1>5, <1>9, <1>10, <1>13
<1> QED BY <1>11, <1>12, <1>14 DEF s

\* What is kept goes behind the answer; only pushed messages are kept, and
\* those that are recent are shown afterwards.
LEMMA MergeIs ==
  ASSUME NEW top \in Nat, NEW cur, NEW rest, Listed(cur, top), Listed(rest, top)
  PROVE  LET s == mergeWsAppendedIntoRest(cur, rest)
         IN  /\ Listed(s, top)
             /\ \A i \in DOMAIN s : (\E k \in DOMAIN rest : s[i] = rest[k]) \/ (\E j \in DOMAIN cur : s[i] = cur[j] /\ cur[j].ws)
             /\ \A k \in DOMAIN rest : \E i \in DOMAIN s : s[i].m = rest[k].m
             /\ \A j \in DOMAIN cur : cur[j].ws /\ cur[j].m \notin aged => \E i \in DOMAIN s : s[i].m = cur[j].m
<1> DEFINE K == {i \in {l \in DOMAIN cur : cur[l].ws /\ cur[l].m \notin aged} : \A k \in DOMAIN rest : rest[k].m # cur[i].m}
<1> DEFINE more == InOrder(K)
<1> DEFINE n == Cardinality(K)
<1> DEFINE r == Len(rest)
<1> DEFINE tail == [k \in DOMAIN more |-> cur[more[k]]]
<1> DEFINE s == rest \o tail
<1>0. s = mergeWsAppendedIntoRest(cur, rest)
  BY DEF mergeWsAppendedIntoRest, KeptAfter
<1>1. cur \in Seq(Entries) /\ rest \in Seq(Entries) /\ Len(cur) \in Nat /\ r \in Nat /\ DOMAIN cur = 1..Len(cur) /\ DOMAIN rest = 1..r
  BY DEF Listed
<1>2. K \in SUBSET (1..Len(cur)) /\ K \in SUBSET Nat
  BY <1>1
<1>3. IsFiniteSet(K)
  <2>1. 1 \in Int /\ Len(cur) \in Int
    BY <1>1
  <2> HIDE DEF K
  <2> QED BY <1>2, <2>1, FS_Interval, FS_Subset
<1>4. n \in Nat /\ more \in [1..n -> K] /\ (\A i \in K : \E k \in 1..n : more[k] = i)
      /\ \A k, l \in 1..n : more[k] = more[l] => k = l
  <2> HIDE DEF K
  <2> QED BY <1>2, <1>3, InOrderLists
<1> HIDE DEF more, n
<1>5. \A i \in K : i \in DOMAIN cur /\ cur[i].ws /\ cur[i] \in Entries /\ \A k \in DOMAIN rest : rest[k].m # cur[i].m
  BY <1>1
<1>6. \A j \in DOMAIN cur : cur[j].ws /\ cur[j].m \notin aged => j \in K \/ \E k \in DOMAIN rest : rest[k].m = cur[j].m
  OBVIOUS
<1> HIDE DEF K
<1>7. tail \in Seq(Entries) /\ DOMAIN tail = 1..n /\ Len(tail) = n
  BY <1>4, <1>5
<1>8. \A k \in 1..n : tail[k] = cur[more[k]] /\ more[k] \in K
  BY <1>4
<1> HIDE DEF tail
<1>9. s \in Seq(Entries) /\ Len(s) = r + n /\ DOMAIN s = 1..(r + n)
      /\ \A i \in 1..(r + n) : s[i] = IF i <= r THEN rest[i] ELSE tail[i - r]
  <2>1. rest \in Seq(Entries) /\ tail \in Seq(Entries) /\ Len(tail) = n
    BY <1>1, <1>7
  <2>2. s \in Seq(Entries) /\ Len(s) = r + n /\ \A i \in 1..(r + Len(tail)) : s[i] = IF i <= r THEN rest[i] ELSE tail[i - r]
    BY <2>1, ConcatProperties
  <2> QED BY <1>7, <2>2
<1>10. \A i \in 1..(r + n) : i \in 1..r \/ (i - r \in 1..n /\ ~(i <= r))
  BY <1>1, <1>4
<1> HIDE DEF s
<1>11. ASSUME NEW i \in DOMAIN s PROVE (i \in DOMAIN rest /\ s[i] = rest[i]) \/ (i - r \in 1..n /\ s[i] = cur[more[i - r]] /\ ~(i <= r))
  BY <1>1, <1>8, <1>9, <1>10, SMTT(60)
<1>12. \A i \in DOMAIN s : s[i].m \in 1..top
  BY <1>5, <1>8, <1>11 DEF Listed
<1>13. ASSUME NEW i \in DOMAIN s, NEW j \in DOMAIN s, s[i].m = s[j].m PROVE i = j
  <2>1. CASE i \in DOMAIN rest /\ s[i] = rest[i] /\ j \in DOMAIN rest /\ s[j] = rest[j]
    BY <1>13, <2>1 DEF Listed
  <2>2. CASE i \in DOMAIN rest /\ s[i] = rest[i] /\ j - r \in 1..n /\ s[j] = cur[more[j - r]]
    BY <1>5, <1>8, <1>13, <2>2
  <2>3. CASE j \in DOMAIN rest /\ s[j] = rest[j] /\ i - r \in 1..n /\ s[i] = cur[more[i - r]]
    BY <1>5, <1>8, <1>13, <2>3
  <2>4. CASE i - r \in 1..n /\ s[i] = cur[more[i - r]] /\ j - r \in 1..n /\ s[j] = cur[more[j - r]]
    <3>1. more[i - r] = more[j - r]
      BY <1>5, <1>8, <1>13, <2>4 DEF Listed
    <3>2. i - r = j - r
      BY <1>4, <2>4, <3>1
    <3> QED BY <1>1, <1>4, <1>9, <3>2
  <2> QED BY <1>11, <2>1, <2>2, <2>3, <2>4
<1>14. Listed(s, top)
  BY <1>9, <1>12, <1>13 DEF Listed
<1>15. \A i \in DOMAIN s : (\E k \in DOMAIN rest : s[i] = rest[k]) \/ (\E j \in DOMAIN cur : s[i] = cur[j] /\ cur[j].ws)
  BY <1>5, <1>8, <1>11
<1>16. \A k \in DOMAIN rest : k \in DOMAIN s /\ s[k].m = rest[k].m
  BY <1>1, <1>4, <1>9
<1>17. \A j \in K : \E i \in DOMAIN s : s[i].m = cur[j].m
  <2> TAKE j \in K
  <2>1. PICK k \in 1..n : more[k] = j
    BY <1>4
  <2>2. r + k \in DOMAIN s /\ s[r + k] = tail[k]
    <3>1. r + k \in 1..(r + n) /\ ~(r + k <= r) /\ (r + k) - r = k
      BY <1>1, <1>4, <2>1
    <3> QED BY <1>9, <3>1
  <2> QED BY <1>8, <2>1, <2>2
<1>18. \A j \in DOMAIN cur : cur[j].ws /\ cur[j].m \notin aged => \E i \in DOMAIN s : s[i].m = cur[j].m
  BY <1>6, <1>16, <1>17
<1> QED BY <1>0, <1>14, <1>15, <1>16, <1>18

\* A pushed message is in the view, marked; the others stay as they were.
LEMMA PushIs ==
  ASSUME NEW top \in Nat, Listed(messages, top), NEW m \in 1..top
  PROVE  LET s == pushed(m)
         IN  /\ Listed(s, top)
             /\ \A i \in DOMAIN s : \/ s[i].m = m /\ s[i].ws /\ (s[i].via = "ws" \/ \E j \in DOMAIN messages : messages[j].m = m /\ s[i].via = messages[j].via)
                                    \/ \E j \in DOMAIN messages : s[i] = messages[j]
             /\ \A j \in DOMAIN messages : \E i \in DOMAIN s : s[i].m = messages[j].m /\ (messages[j].ws => s[i].ws)
             /\ \E i \in DOMAIN s : s[i].m = m /\ s[i].ws
<1> DEFINE new == [m |-> m, obs |-> 1, ws |-> TRUE, via |-> "ws"]
<1> DEFINE s == pushed(m)
<1> DEFINE l == Len(messages)
<1>1. messages \in Seq(Entries) /\ l \in Nat /\ DOMAIN messages = 1..l /\ \A i \in 1..l : messages[i] \in Entries
  BY DEF Listed
<1>2. new = Entry(m, 1, "ws") /\ new \in Entries /\ new.m = m /\ new.ws /\ new.via = "ws"
  <2>1. m \in Nat
    OBVIOUS
  <2> QED BY <2>1 DEF Entry, Entries
<1>3. CASE Known(m) = {}
  <2>1. s = Append(messages, new)
    BY <1>2, <1>3 DEF pushed
  <2> HIDE DEF new
  <2>2. s \in Seq(Entries) /\ Len(s) = l + 1 /\ DOMAIN s = 1..(l + 1) /\ s[l + 1] = new /\ \A i \in 1..l : s[i] = messages[i]
    BY <1>1, <1>2, <2>1
  <2> HIDE DEF s
  <2>3. \A i \in 1..l : messages[i].m # m
    BY <1>1, <1>3 DEF Known
  <2>4. \A i \in 1..(l + 1) : i \in 1..l \/ i = l + 1
    BY <1>1
  <2>5. l + 1 \in DOMAIN s /\ \A i \in 1..l : i \in DOMAIN s
    BY <1>1, <2>2
  <2>6. Listed(s, top)
    BY <1>1, <1>2, <2>2, <2>3, <2>4 DEF Listed
  <2>7. /\ \A i \in DOMAIN s : (s[i].m = m /\ s[i].ws /\ s[i].via = "ws") \/ \E j \in DOMAIN messages : s[i] = messages[j]
        /\ \A j \in DOMAIN messages : s[j].m = messages[j].m /\ s[j].ws = messages[j].ws
        /\ s[l + 1].m = m /\ s[l + 1].ws
    BY <1>1, <1>2, <2>2, <2>4
  <2> QED BY <1>1, <2>5, <2>6, <2>7 DEF s
<1>4. CASE Known(m) # {}
  <2>1. s = [i \in 1..l |-> IF i \in Known(m) THEN [messages[i] EXCEPT !.obs = @ + 1, !.ws = TRUE] ELSE messages[i]]
    BY <1>1, <1>4 DEF pushed
  <2> HIDE DEF s
  <2>2. ASSUME NEW i \in 1..l
        PROVE  /\ s[i] \in Entries /\ s[i].m = messages[i].m /\ s[i].via = messages[i].via /\ (messages[i].ws => s[i].ws)
               /\ messages[i].m = m => s[i].ws
               /\ messages[i].m # m => s[i] = messages[i]
    <3>1. messages[i] \in Entries /\ messages[i].obs + 1 \in Nat
      BY <1>1 DEF Entries
    <3>2. CASE i \in Known(m)
      <4>1. s[i] = [messages[i] EXCEPT !.obs = @ + 1, !.ws = TRUE]
        BY <2>1, <3>2
      <4>2. s[i] \in Entries
        BY <3>1, <4>1, Zenon DEF Entries
      <4> QED BY <3>1, <3>2, <4>1, <4>2 DEF Known, Entries
    <3>3. CASE i \notin Known(m)
      <4>1. s[i] = messages[i] /\ messages[i].m # m
        BY <1>1, <2>1, <3>3 DEF Known
      <4> QED BY <3>1, <4>1
    <3> QED BY <3>2, <3>3
  <2>3. DOMAIN s = 1..l /\ s \in Seq(Entries)
    <3>1. DOMAIN s = 1..l /\ \A i \in 1..l : s[i] \in Entries
      BY <2>1, <2>2
    <3>2. s \in [1..l -> Entries]
      BY <2>1, <3>1
    <3> QED BY <1>1, <3>1, <3>2
  <2>4. PICK j \in 1..l : messages[j].m = m
    BY <1>1, <1>4 DEF Known
  <2>5. Listed(s, top)
    BY <1>1, <2>2, <2>3 DEF Listed
  <2>6. \A i \in DOMAIN s : \/ s[i].m = m /\ s[i].ws /\ (s[i].via = "ws" \/ \E k \in DOMAIN messages : messages[k].m = m /\ s[i].via = messages[k].via)
                            \/ \E k \in DOMAIN messages : s[i] = messages[k]
    BY <1>1, <2>2, <2>3
  <2>7. \A k \in DOMAIN messages : \E i \in DOMAIN s : s[i].m = messages[k].m /\ (messages[k].ws => s[i].ws)
    BY <1>1, <2>2, <2>3
  <2>8. \E i \in DOMAIN s : s[i].m = m /\ s[i].ws
    BY <2>2, <2>3, <2>4
  <2> QED BY <2>5, <2>6, <2>7, <2>8 DEF s
<1> QED BY <1>3, <1>4

AskKinds == {"list", "select", "hash", "decrypt", "refresh"}
Current(a) == a.kind # "list" /\ a.id = messageRequestId

\* Requests are numbered; no two have the same number.
AsksNumbered ==
    /\ \A a \in chAsks : a.kind \in AskKinds /\ a.n \in 0..Len(chLog) /\ (a.kind # "list" => a.id \in Nat /\ a.id <= messageRequestId)
    /\ \A a, b \in chAsks : a.kind # "list" /\ b.kind # "list" /\ a.id = b.id => a = b

\* What was pushed since the channel was opened is of the channel and passes
\* the region.
GotIsOfView == \A m \in got : m \in 1..Len(chLog) /\ m \notin aged /\ ChanOf(m) = selectedHash /\ Passes(m, region)

\* Every request whose answer will be taken asks for what it includes.
Served(m) == \A a \in chAsks : Current(a) => a.kind # "hash" /\ a.n >= m
Stays(m) == \E i \in DOMAIN messages : messages[i].m = m /\ (messages[i].ws \/ Served(m))
PushedStay == \A m \in got \ wiped : Behind(m) \/ Stays(m)

\* Before the first answer the view holds none.
FirstAnswer ==
    \A a \in chAsks : Current(a) /\ a.kind \in {"select", "hash", "decrypt"} => \A i \in DOMAIN messages : messages[i].via # "rest"

\* A change of region is loading, or its refresh is, or the view has settled.
RefreshComes == \E a \in chAsks : a.kind = "list" \/ (a.kind = "refresh" /\ ~isStaleMessageRequest(a))
InRegion == \A i \in DOMAIN messages : messages[i].via = "rest" /\ ~messages[i].ws => Passes(messages[i].m, region)
RegionComes == selectedHash = "pub" /\ ~keptOld => RefreshComes \/ InRegion

ViewInv == ViewTypes /\ AsksNumbered /\ MessagesOfSelected /\ GotIsOfView /\ PushedStay /\ FirstAnswer /\ RegionComes

\* At the start no channel is open and nothing was asked for.
LEMMA ViewStarts == ChanInit => ViewInv
<1> SUFFICES ASSUME ChanInit PROVE ViewInv
  OBVIOUS
<1>1. /\ chLog = <<>> /\ obsOf = [m \in MsgIds |-> 0] /\ selectedHash = NoChan /\ region = "all" /\ messages = <<>>
      /\ messageRequestId = 0 /\ chAsks = {} /\ chBatch = {} /\ chCache = <<>> /\ aged = {} /\ got = {} /\ wiped = {} /\ keptOld = FALSE
  BY Zenon DEF ChanInit
<1>2. Len(chLog) = 0 /\ MaxChMsgs \in Nat
  BY <1>1, ChanViewAssumption DEF ChanViewAssumption
<1>3. Listed(<<>>, Len(chLog))
  BY <1>2 DEF Listed
<1>4. ViewTypes
  <2>1. obsOf \in [MsgIds -> Nat] /\ chLog \in Seq([c : {"pub", "priv"}, r : {"R", "S"}]) /\ Len(chLog) <= MaxChMsgs
    BY <1>1, <1>2
  <2>2. Listed(messages, Len(chLog)) /\ Listed(chCache, Len(chLog)) /\ \A i \in DOMAIN chCache : chCache[i].via = "cache"
    BY <1>1, <1>3
  <2>3. messageRequestId \in Nat /\ selectedHash \in {NoChan, "pub", "priv"} /\ region \in {"all", "R"} /\ keptOld \in BOOLEAN /\ chBatch = {}
    BY <1>1
  <2> QED BY <2>1, <2>2, <2>3, Zenon DEF ViewTypes
<1> QED BY <1>1, <1>4 DEF ViewInv, AsksNumbered, MessagesOfSelected, GotIsOfView, PushedStay, FirstAnswer, RegionComes, NoChan

\* An answer that is taken.
LEMMA TakenStep ==
  ASSUME ViewInv, NEW a \in chAsks, a.kind # "list", ~isStaleMessageRequest(a), NEW rest, Listed(rest, Len(chLog)),
         \A k \in DOMAIN rest : rest[k].via = "cache" \/ (ChanOf(rest[k].m) = selectedHash /\ Passes(rest[k].m, region)),
         \A m \in got : ~Behind(m) /\ Served(m) => \E k \in DOMAIN rest : rest[k].m = m,
         messages' = mergeWsAppendedIntoRest(messages, rest), chAsks' = chAsks \ {a}, keptOld' \in BOOLEAN,
         Listed(chCache', Len(chLog)), \A i \in DOMAIN chCache' : chCache'[i].via = "cache",
         UNCHANGED <<chLog, obsOf, selectedHash, region, messageRequestId, chBatch, aged, got, wiped>>
  PROVE  ViewInv'
<1>1. a.id = messageRequestId /\ a.c = selectedHash /\ a.r = region
  BY DEF isStaleMessageRequest
<1>2. \A b \in chAsks' : ~Current(b)'
  BY <1>1 DEF ViewInv, AsksNumbered, Current
<1>3. Len(chLog) \in Nat /\ Listed(messages, Len(chLog))
  BY DEF ViewInv, ViewTypes
<1>4. /\ Listed(messages', Len(chLog))
      /\ \A i \in DOMAIN messages' : (\E k \in DOMAIN rest : messages'[i] = rest[k]) \/ (\E j \in DOMAIN messages : messages'[i] = messages[j] /\ messages[j].ws)
      /\ \A k \in DOMAIN rest : \E i \in DOMAIN messages' : messages'[i].m = rest[k].m
      /\ \A j \in DOMAIN messages : messages[j].ws /\ messages[j].m \notin aged => \E i \in DOMAIN messages' : messages'[i].m = messages[j].m
  BY <1>3, MergeIs
<1>5. ViewTypes'
  BY <1>4 DEF ViewInv, ViewTypes, MsgIds
<1>6. AsksNumbered'
  BY DEF ViewInv, AsksNumbered
<1>7. MessagesOfSelected'
  <2> SUFFICES ASSUME NEW i \in DOMAIN messages', messages'[i].via # "cache" PROVE chLog'[messages'[i].m].c = selectedHash
    BY DEF MessagesOfSelected, ChanOf
  <2>1. chLog'[messages'[i].m].c = ChanOf(messages'[i].m)
    BY DEF ChanOf
  <2>2. CASE \E k \in DOMAIN rest : messages'[i] = rest[k]
    BY <2>1, <2>2
  <2>3. CASE \E j \in DOMAIN messages : messages'[i] = messages[j]
    BY <2>1, <2>3 DEF ViewInv, MessagesOfSelected
  <2> QED BY <1>4, <2>2, <2>3
<1>8. GotIsOfView'
  BY DEF ViewInv, GotIsOfView, ChanOf, Passes, shouldProcessWSMessageForRegion
<1>9. PushedStay'
  <2> SUFFICES ASSUME NEW m \in got \ wiped, ~Behind(m) PROVE Stays(m)'
    BY DEF PushedStay, Behind, ChanOf
  <2>1. Served(m)'
    BY <1>2 DEF Served
  <2>2. \E i \in DOMAIN messages' : messages'[i].m = m
    <3>1. CASE Served(m)
      BY <1>4, <3>1
    <3>2. CASE ~Served(m)
      BY <1>4, <3>2 DEF ViewInv, PushedStay, Stays, GotIsOfView
    <3> QED BY <3>1, <3>2
  <2> QED BY <2>1, <2>2 DEF Stays
<1>10. FirstAnswer'
  BY <1>2 DEF FirstAnswer
<1>11. InRegion'
  <2> SUFFICES ASSUME NEW i \in DOMAIN messages', messages'[i].via = "rest", ~messages'[i].ws PROVE shouldProcessWSMessageForRegion(chLog[messages'[i].m], region)
    BY DEF InRegion, Passes, shouldProcessWSMessageForRegion
  <2>1. PICK k \in DOMAIN rest : messages'[i] = rest[k]
    BY <1>4
  <2>2. Passes(messages'[i].m, region)
    BY <2>1
  <2> QED BY <2>2 DEF Passes
<1> QED BY <1>5, <1>6, <1>7, <1>8, <1>9, <1>10, <1>11 DEF ViewInv, RegionComes

\* A pushed message, new or known, with the log as it is or grown by it.
LEMMA PushedStep ==
  ASSUME ViewInv, NEW r,
         chLog' \in Seq([c : {"pub", "priv"}, r : {"R", "S"}]), Len(chLog) <= Len(chLog'), Len(chLog') <= MaxChMsgs,
         \A i \in 1..Len(chLog) : chLog'[i] = chLog[i],
         NEW m \in 1..Len(chLog'),
         \/ processWSBatch(m, chLog'[m], r)
         \/ UNCHANGED <<messages, got, aged>>,
         obsOf' \in [MsgIds -> Nat], \A b \in chBatch' : b.m \in 1..Len(chLog'),
         UNCHANGED <<selectedHash, region, messageRequestId, chAsks, chCache, wiped, keptOld>>
  PROVE  ViewInv'
<1>1. Len(chLog) \in Nat /\ Len(chLog') \in Nat
  BY DEF ViewInv, ViewTypes
<1>2. \A i \in 1..Len(chLog) : i \in 1..Len(chLog') /\ ChanOf(i)' = ChanOf(i) /\ Passes(i, region)' = Passes(i, region)
  BY <1>1 DEF ChanOf, Passes, shouldProcessWSMessageForRegion
<1>3. \A s : Listed(s, Len(chLog)) => Listed(s, Len(chLog'))
  BY <1>1 DEF Listed
<1>4. Listed(messages, Len(chLog')) /\ Listed(chCache', Len(chLog')) /\ \A i \in DOMAIN messages : messages[i].m \in 1..Len(chLog)
  BY <1>3 DEF ViewInv, ViewTypes, Listed
<1>5. \A x \in 1..Len(chLog) : Behind(x) => Behind(x)'
  <2> TAKE x \in 1..Len(chLog)
  <2> DEFINE was == {i \in x+1..Len(chLog) : ChanOf(i) = ChanOf(x)}
  <2> DEFINE now == {i \in x+1..Len(chLog') : ChanOf(i)' = ChanOf(x)'}
  <2>1. was \in SUBSET now
    BY <1>1, <1>2
  <2>2. IsFiniteSet(x+1..Len(chLog'))
    <3>1. x + 1 \in Int /\ Len(chLog') \in Int
      BY <1>1
    <3> QED BY <3>1, FS_Interval
  <2>3. now \in SUBSET (x+1..Len(chLog'))
    OBVIOUS
  <2> HIDE DEF was, now
  <2>4. IsFiniteSet(now) /\ IsFiniteSet(was) /\ Cardinality(was) <= Cardinality(now)
    BY <2>1, <2>2, <2>3, FS_Subset
  <2>5. Cardinality(now) \in Nat /\ Cardinality(was) \in Nat /\ AnswerLimit \in Nat
    BY <2>4, FS_CardinalityType, ChanViewAssumption DEF ChanViewAssumption
  <2> QED BY <2>4, <2>5 DEF Behind, was, now
<1>6. AsksNumbered'
  BY <1>1 DEF ViewInv, AsksNumbered
<1>7. \A x : Served(x)' <=> Served(x)
  BY DEF Served, Current
<1>8. CASE UNCHANGED <<messages, got, aged>>
  <2>1. ViewTypes'
    BY <1>1, <1>4, <1>8 DEF ViewInv, ViewTypes
  <2>2. MessagesOfSelected'
    BY <1>2, <1>4, <1>8 DEF ViewInv, MessagesOfSelected
  <2>3. GotIsOfView'
    BY <1>2, <1>8 DEF ViewInv, GotIsOfView
  <2>4. PushedStay'
    BY <1>5, <1>7, <1>8 DEF ViewInv, PushedStay, Stays, GotIsOfView
  <2>5. FirstAnswer'
    BY <1>8 DEF ViewInv, FirstAnswer, Current
  <2>6. RegionComes'
    BY <1>2, <1>4, <1>8 DEF ViewInv, RegionComes, RefreshComes, InRegion, isStaleMessageRequest
  <2> QED BY <1>6, <2>1, <2>2, <2>3, <2>4, <2>5, <2>6 DEF ViewInv
<1>9. CASE processWSBatch(m, chLog'[m], r) /\ ~UNCHANGED <<messages, got, aged>>
  <2>1. /\ selectedHash = chLog'[m].c /\ messages' = pushed(m) /\ aged' = aged \ {m}
        /\ got' = (IF shouldProcessWSMessageForRegion(chLog'[m], region) THEN got \union {m} ELSE got)
    BY <1>9 DEF processWSBatch
  <2>2. /\ Listed(messages', Len(chLog'))
        /\ \A i \in DOMAIN messages' :
             \/ messages'[i].m = m /\ messages'[i].ws /\ (messages'[i].via = "ws" \/ \E j \in DOMAIN messages : messages[j].m = m /\ messages'[i].via = messages[j].via)
             \/ \E j \in DOMAIN messages : messages'[i] = messages[j]
        /\ \A j \in DOMAIN messages : \E i \in DOMAIN messages' : messages'[i].m = messages[j].m /\ (messages[j].ws => messages'[i].ws)
        /\ \E i \in DOMAIN messages' : messages'[i].m = m /\ messages'[i].ws
    <3> DEFINE top == Len(chLog')
    <3>1. top \in Nat /\ Listed(messages, top) /\ m \in 1..top /\ messages' = pushed(m)
      BY <1>1, <1>4, <2>1
    <3> HIDE DEF top
    <3>2. /\ Listed(messages', top)
          /\ \A i \in DOMAIN messages' :
               \/ messages'[i].m = m /\ messages'[i].ws /\ (messages'[i].via = "ws" \/ \E j \in DOMAIN messages : messages[j].m = m /\ messages'[i].via = messages[j].via)
               \/ \E j \in DOMAIN messages : messages'[i] = messages[j]
          /\ \A j \in DOMAIN messages : \E i \in DOMAIN messages' : messages'[i].m = messages[j].m /\ (messages[j].ws => messages'[i].ws)
          /\ \E i \in DOMAIN messages' : messages'[i].m = m /\ messages'[i].ws
      BY <3>1, PushIs
    <3> QED BY <3>2 DEF top
  <2>3. ChanOf(m)' = selectedHash
    BY <2>1 DEF ChanOf
  <2>4. ViewTypes'
    BY <1>1, <1>4, <2>2 DEF ViewInv, ViewTypes
  <2>5. MessagesOfSelected'
    <3> SUFFICES ASSUME NEW i \in DOMAIN messages', messages'[i].via # "cache" PROVE chLog'[messages'[i].m].c = selectedHash
      BY DEF MessagesOfSelected, ChanOf
    <3>1. CASE messages'[i].m = m
      BY <2>1, <3>1
    <3>2. CASE \E j \in DOMAIN messages : messages'[i] = messages[j]
      BY <1>2, <1>4, <3>2 DEF ViewInv, MessagesOfSelected, ChanOf
    <3> QED BY <2>2, <3>1, <3>2
  <2>6. \A x \in got' : x \in got \/ (x = m /\ Passes(m, region)')
    BY <2>1 DEF Passes
  <2>7. GotIsOfView'
    BY <1>2, <2>1, <2>3, <2>6 DEF ViewInv, GotIsOfView
  <2>8. PushedStay'
    <3> SUFFICES ASSUME NEW x \in got' \ wiped, ~Behind(x)' PROVE Stays(x)'
      BY DEF PushedStay
    <3>1. CASE x = m
      BY <2>2, <3>1 DEF Stays
    <3>2. CASE x \in got
      <4>1. Stays(x)
        BY <1>5, <3>2 DEF ViewInv, PushedStay, GotIsOfView
      <4> QED BY <1>7, <2>2, <4>1 DEF Stays
    <3> QED BY <2>6, <3>1, <3>2
  <2>9. FirstAnswer'
    BY <2>2 DEF ViewInv, FirstAnswer, Current
  <2>10. InRegion => InRegion'
    BY <1>2, <1>4, <2>2 DEF InRegion
  <2>11. RegionComes'
    BY <2>10 DEF ViewInv, RegionComes, RefreshComes, isStaleMessageRequest
  <2> QED BY <1>6, <2>4, <2>5, <2>7, <2>8, <2>9, <2>11 DEF ViewInv
<1> QED BY <1>8, <1>9

\* The view is emptied: another channel is opened, or none.
LEMMA EmptiedStep ==
  ASSUME ViewInv, messages' = <<>>, got' = {}, AsksNumbered', messageRequestId' \in Nat, selectedHash' \in {NoChan, "pub", "priv"},
         keptOld' \in BOOLEAN, UNCHANGED <<chLog, obsOf, region, chBatch, chCache>>
  PROVE  ViewInv'
<1>1. Listed(messages', Len(chLog))
  BY DEF Listed
<1>2. ViewTypes'
  BY <1>1 DEF ViewInv, ViewTypes
<1> QED BY <1>2 DEF ViewInv, MessagesOfSelected, GotIsOfView, PushedStay, FirstAnswer, RegionComes, InRegion

\* Something about the requests changes and nothing else.
LEMMA AsksStep ==
  ASSUME ViewInv, AsksNumbered', messageRequestId' \in Nat, keptOld' \in BOOLEAN,
         \A m \in 1..Len(chLog) : Served(m) => Served(m)', FirstAnswer', RegionComes',
         UNCHANGED <<chLog, obsOf, selectedHash, region, messages, chBatch, chCache, aged, got, wiped>>
  PROVE  ViewInv'
<1>1. ViewTypes'
  BY DEF ViewInv, ViewTypes
<1>2. MessagesOfSelected' /\ GotIsOfView'
  BY DEF ViewInv, MessagesOfSelected, GotIsOfView, ChanOf, Passes, shouldProcessWSMessageForRegion
<1>3. PushedStay'
  <2> SUFFICES ASSUME NEW m \in got \ wiped, ~Behind(m) PROVE Stays(m)'
    BY DEF PushedStay, Behind, ChanOf
  <2> QED BY DEF ViewInv, PushedStay, Stays, GotIsOfView
<1> QED BY <1>1, <1>2, <1>3 DEF ViewInv

\* Selecting a channel asks for its messages and overtakes what was asked
\* before.
LEMMA SelectStep == ASSUME ViewInv, NEW c \in {"pub", "priv"}, selectChannel(c) PROVE ViewInv'
<1> DEFINE new == NewAsk(IF c = "pub" THEN "select" ELSE "hash", c)
<1>1. /\ chAsks' = chAsks \union {new} /\ messageRequestId' = messageRequestId + 1 /\ selectedHash' = c
      /\ messages' = <<>> /\ got' = {} /\ wiped' = {} /\ keptOld' = FALSE
      /\ UNCHANGED <<chLog, obsOf, region, chBatch, chCache, aged>>
  BY Zenon DEF selectChannel
<1>2. new.kind \in AskKinds \ {"list"} /\ new.id = messageRequestId + 1 /\ new.n = Len(chLog)
  BY DEF NewAsk, AskKinds
<1>3. messageRequestId \in Nat /\ Len(chLog) \in Nat
  BY DEF ViewInv, ViewTypes
<1> HIDE DEF new
<1>4. AsksNumbered'
  BY <1>1, <1>2, <1>3 DEF ViewInv, AsksNumbered
<1>5. messageRequestId' \in Nat /\ selectedHash' \in {NoChan, "pub", "priv"} /\ keptOld' \in BOOLEAN
  <2>1. selectedHash' = c /\ keptOld' = FALSE /\ messageRequestId' = messageRequestId + 1
    BY <1>1
  <2>2. messageRequestId' \in Nat
    BY <1>3, <2>1
  <2> QED BY <2>1, <2>2
<1> QED BY <1>1, <1>4, <1>5, EmptiedStep

\* What is cached is merged into the view; when the request is stale, the
\* messages pushed since are recorded as wiped.
LEMMA CacheHitStep == ASSUME ViewInv, NEW a \in chAsks, onCacheHit(a) PROVE ViewInv'
<1> DEFINE d == [a EXCEPT !.kind = "decrypt", !.n = Len(chLog)]
<1>1. /\ a.kind = "hash" /\ chAsks' = (chAsks \ {a}) \union {d}
      /\ IF chCache = <<>> THEN UNCHANGED <<messages, wiped>>
         ELSE /\ messages' = mergeWsAppendedIntoRest(messages, chCache)
              /\ wiped' = (IF isStaleMessageRequest(a) THEN wiped \union got ELSE wiped)
      /\ UNCHANGED <<chLog, obsOf, selectedHash, region, messageRequestId, chBatch, chCache, aged, got, keptOld>>
  BY Zenon DEF onCacheHit
<1>2. d.id = a.id /\ d.kind = "decrypt" /\ d.n = Len(chLog)
  PROOF OBVIOUS
<1> HIDE DEF d
<1>3. Len(chLog) \in Nat /\ Listed(messages, Len(chLog)) /\ Listed(chCache, Len(chLog)) /\ \A i \in DOMAIN chCache : chCache[i].via = "cache"
  BY DEF ViewInv, ViewTypes
<1>4. AsksNumbered'
  BY <1>1, <1>2, <1>3 DEF ViewInv, AsksNumbered, AskKinds
<1>5. \A m \in 1..Len(chLog) : Served(m) => Served(m)'
  BY <1>1, <1>2, <1>3 DEF Served, Current
<1>6. RefreshComes => RefreshComes'
  <2> SUFFICES ASSUME NEW b \in chAsks, b.kind = "list" \/ (b.kind = "refresh" /\ ~isStaleMessageRequest(b)) PROVE RefreshComes'
    BY DEF RefreshComes
  <2>1. b \in chAsks' /\ isStaleMessageRequest(b)' = isStaleMessageRequest(b)
    BY <1>1 DEF isStaleMessageRequest
  <2> QED BY <2>1 DEF RefreshComes
<1>7. \A b \in chAsks' : Current(b)' /\ b.kind \in {"select", "hash", "decrypt"} =>
        \E e \in chAsks : Current(e) /\ e.kind \in {"select", "hash", "decrypt"}
  BY <1>1, <1>2 DEF Current
<1>8. CASE chCache = <<>>
  <2>1. messages' = messages /\ wiped' = wiped
    BY <1>1, <1>8
  <2>2. FirstAnswer'
    BY <1>7, <2>1 DEF ViewInv, FirstAnswer
  <2>3. RegionComes'
    BY <1>1, <1>6, <2>1 DEF ViewInv, RegionComes, InRegion, Passes, shouldProcessWSMessageForRegion
  <2>4. messageRequestId' \in Nat /\ keptOld' \in BOOLEAN
    BY <1>1 DEF ViewInv, ViewTypes
  <2> QED BY <1>1, <1>4, <1>5, <2>1, <2>2, <2>3, <2>4, AsksStep
<1>9. CASE chCache # <<>>
  <2>1. messages' = mergeWsAppendedIntoRest(messages, chCache) /\ wiped' = (IF isStaleMessageRequest(a) THEN wiped \union got ELSE wiped)
    BY <1>1, <1>9
  <2>2. /\ Listed(messages', Len(chLog))
        /\ \A i \in DOMAIN messages' : (\E k \in DOMAIN chCache : messages'[i] = chCache[k]) \/ (\E j \in DOMAIN messages : messages'[i] = messages[j] /\ messages[j].ws)
        /\ \A k \in DOMAIN chCache : \E i \in DOMAIN messages' : messages'[i].m = chCache[k].m
        /\ \A j \in DOMAIN messages : messages[j].ws /\ messages[j].m \notin aged => \E i \in DOMAIN messages' : messages'[i].m = messages[j].m
    BY <1>3, <2>1, MergeIs
  <2>3. ViewTypes'
    BY <1>1, <2>2 DEF ViewInv, ViewTypes, MsgIds
  <2>4. MessagesOfSelected'
    BY <1>1, <1>3, <2>2 DEF ViewInv, MessagesOfSelected, ChanOf
  <2>5. GotIsOfView'
    BY <1>1 DEF ViewInv, GotIsOfView, ChanOf, Passes, shouldProcessWSMessageForRegion
  <2>6. PushedStay'
    <3> SUFFICES ASSUME NEW m \in got, m \notin wiped', ~Behind(m) PROVE Stays(m)'
      BY <1>1 DEF PushedStay, Behind, ChanOf
    <3>1. ~isStaleMessageRequest(a) /\ m \notin wiped
      BY <2>1
    <3>2. Current(a)
      BY <1>1, <3>1 DEF isStaleMessageRequest, Current
    <3>3. ~Served(m)
      BY <1>1, <3>2 DEF Served
    <3>4. \E j \in DOMAIN messages : messages[j].m = m /\ messages[j].ws
      BY <3>1, <3>3 DEF ViewInv, PushedStay, Stays
    <3>5. \E i \in DOMAIN messages' : messages'[i].m = m
      BY <2>2, <3>4 DEF ViewInv, GotIsOfView
    <3>6. \A b \in chAsks' : Current(b)' => b = d
      BY <1>1, <3>2 DEF ViewInv, AsksNumbered, Current
    <3>7. m \in 1..Len(chLog)
      BY DEF ViewInv, GotIsOfView
    <3>8. Served(m)'
      BY <1>2, <1>3, <3>6, <3>7 DEF Served
    <3> QED BY <3>5, <3>8 DEF Stays
  <2>7. \A i \in DOMAIN messages' : messages'[i].via = "rest" => \E j \in DOMAIN messages : messages'[i] = messages[j] /\ messages[j].ws
    BY <1>3, <2>2
  <2>8. FirstAnswer'
    BY <1>7, <2>7 DEF ViewInv, FirstAnswer
  <2>9. InRegion'
    BY <2>7 DEF InRegion
  <2> QED BY <1>4, <2>3, <2>4, <2>5, <2>6, <2>8, <2>9 DEF ViewInv, RegionComes
<1> QED BY <1>8, <1>9

\* A request goes without its answer being taken.
LEMMA DroppedStep ==
  ASSUME ViewInv, NEW a \in chAsks, a.kind # "list", a.kind = "refresh" /\ ~isStaleMessageRequest(a) => keptOld',
         chAsks' = chAsks \ {a}, keptOld' \in BOOLEAN, keptOld => keptOld',
         UNCHANGED <<chLog, obsOf, selectedHash, region, messages, messageRequestId, chBatch, aged, got, wiped>>,
         Listed(chCache', Len(chLog)), \A i \in DOMAIN chCache' : chCache'[i].via = "cache"
  PROVE  ViewInv'
<1>1. ViewTypes'
  BY DEF ViewInv, ViewTypes
<1>2. MessagesOfSelected' /\ GotIsOfView'
  BY DEF ViewInv, MessagesOfSelected, GotIsOfView, ChanOf, Passes, shouldProcessWSMessageForRegion
<1>3. AsksNumbered'
  BY DEF ViewInv, AsksNumbered
<1>4. PushedStay'
  <2> SUFFICES ASSUME NEW m \in got \ wiped, ~Behind(m) PROVE Stays(m)'
    BY DEF PushedStay, Behind, ChanOf
  <2>1. Served(m) => Served(m)'
    BY DEF Served, Current
  <2> QED BY <2>1 DEF ViewInv, PushedStay, Stays, GotIsOfView
<1>5. FirstAnswer'
  BY DEF ViewInv, FirstAnswer, Current
<1>6. RegionComes'
  <2> SUFFICES ASSUME selectedHash = "pub", ~keptOld' PROVE RefreshComes' \/ InRegion'
    BY DEF RegionComes
  <2>1. InRegion => InRegion'
    BY DEF InRegion, Passes, shouldProcessWSMessageForRegion
  <2>2. ASSUME NEW b \in chAsks, b.kind = "list" \/ (b.kind = "refresh" /\ ~isStaleMessageRequest(b)) PROVE RefreshComes'
    <3>1. b \in chAsks' /\ isStaleMessageRequest(b)' = isStaleMessageRequest(b)
      BY <2>2 DEF isStaleMessageRequest
    <3> QED BY <2>2, <3>1 DEF RefreshComes
  <2> QED BY <2>1, <2>2 DEF ViewInv, RegionComes, RefreshComes
<1> QED BY <1>1, <1>2, <1>3, <1>4, <1>5, <1>6 DEF ViewInv

\* The arrival of an answer keeps the invariant of the view.
LEMMA ArriveStep == ASSUME ViewInv, NEW a \in chAsks, messagesArrive(a) PROVE ViewInv'
<1> DEFINE fresh(n) == OfServer(a.c, a.r, n, "rest")
<1> DEFINE kept(n) == a.kind = "decrypt" /\ fresh(n) = <<>>
<1>1. PICK n \in a.n..Len(chLog) :
        /\ chCache' = (IF a.kind = "decrypt" /\ ~kept(n) THEN OfServer(a.c, a.r, n, "cache") ELSE chCache)
        /\ messages' = (IF isStaleMessageRequest(a) THEN messages ELSE mergeWsAppendedIntoRest(messages, IF kept(n) THEN chCache ELSE fresh(n)))
  BY Zenon DEF messagesArrive
<1>2. /\ a.kind \in {"select", "decrypt"} /\ chAsks' = chAsks \ {a} /\ keptOld' = (keptOld /\ isStaleMessageRequest(a))
      /\ UNCHANGED <<wiped, chLog, obsOf, selectedHash, region, messageRequestId, chBatch, aged, got>>
  BY Zenon DEF messagesArrive
<1>3. a.n \in 0..Len(chLog) /\ Len(chLog) \in Nat
  BY DEF ViewInv, AsksNumbered, ViewTypes
<1>4. n \in 0..Len(chLog) /\ a.n <= n
  BY <1>3
<1>5. /\ Listed(fresh(n), Len(chLog))
      /\ \A k \in DOMAIN fresh(n) : fresh(n)[k].via = "rest" /\ ~fresh(n)[k].ws /\ ChanOf(fresh(n)[k].m) = a.c /\ Passes(fresh(n)[k].m, a.r)
      /\ \A m \in 1..n : ChanOf(m) = a.c /\ Passes(m, a.r) /\ ~Behind(m) => \E k \in DOMAIN fresh(n) : fresh(n)[k].m = m
  BY <1>4, AnswerIs DEF ViewInv
<1>6. /\ Listed(OfServer(a.c, a.r, n, "cache"), Len(chLog))
      /\ \A k \in DOMAIN OfServer(a.c, a.r, n, "cache") : OfServer(a.c, a.r, n, "cache")[k].via = "cache"
  BY <1>4, AnswerIs DEF ViewInv
<1>7. Listed(chCache', Len(chLog)) /\ \A i \in DOMAIN chCache' : chCache'[i].via = "cache"
  BY <1>1, <1>6 DEF ViewInv, ViewTypes
<1>8. keptOld' \in BOOLEAN /\ keptOld \in BOOLEAN
  BY <1>2 DEF ViewInv, ViewTypes
<1>9. CASE isStaleMessageRequest(a)
  <2>1. keptOld' = keptOld
    BY <1>2, <1>8, <1>9
  <2> QED BY <1>1, <1>2, <1>7, <1>8, <1>9, <2>1, DroppedStep
<1>10. CASE ~isStaleMessageRequest(a)
  <2> DEFINE rest == IF kept(n) THEN chCache ELSE fresh(n)
  <2>1. a.id = messageRequestId /\ a.c = selectedHash /\ a.r = region
    BY <1>10 DEF isStaleMessageRequest
  <2>2. Listed(rest, Len(chLog)) /\ \A k \in DOMAIN rest : rest[k].via = "cache" \/ (ChanOf(rest[k].m) = selectedHash /\ Passes(rest[k].m, region))
    BY <1>5, <2>1 DEF ViewInv, ViewTypes
  <2>3. \A m \in got : ~Behind(m) /\ Served(m) => \E k \in DOMAIN fresh(n) : fresh(n)[k].m = m
    <3> SUFFICES ASSUME NEW m \in got, ~Behind(m), Served(m) PROVE \E k \in DOMAIN fresh(n) : fresh(n)[k].m = m
      OBVIOUS
    <3>1. a.n >= m /\ m \in 1..Len(chLog) /\ ChanOf(m) = a.c /\ Passes(m, a.r)
      BY <1>2, <2>1 DEF Served, Current, ViewInv, GotIsOfView
    <3>2. m \in 1..n
      BY <1>3, <1>4, <3>1
    <3> QED BY <1>5, <3>1, <3>2
  <2>4. \A m \in got : ~Behind(m) /\ Served(m) => \E k \in DOMAIN rest : rest[k].m = m
    <3>1. kept(n) => DOMAIN fresh(n) = {}
      OBVIOUS
    <3> QED BY <2>3, <3>1
  <2>5. messages' = mergeWsAppendedIntoRest(messages, rest) /\ a.kind # "list"
    BY <1>1, <1>2, <1>10
  <2> HIDE DEF rest
  <2> QED BY <1>2, <1>7, <1>8, <1>10, <2>2, <2>4, <2>5, TakenStep
<1> QED BY <1>9, <1>10

\* A refresh merges the answer into the view.
LEMMA RefreshStep == ASSUME ViewInv, NEW a \in chAsks, refreshMessages(a) PROVE ViewInv'
<1> DEFINE new(n) == OfServer(a.c, a.r, n, "rest")
<1>1. PICK n \in a.n..Len(chLog) :
        IF isStaleMessageRequest(a) THEN UNCHANGED <<messages, wiped, keptOld>>
        ELSE IF a.r # "all" /\ new(n) = <<>> THEN messages' = <<>> /\ wiped' = wiped \union got /\ keptOld' = FALSE
        ELSE IF SameCount(new(n)) THEN keptOld' = Differs(messages, new(n)) /\ UNCHANGED <<messages, wiped>>
        ELSE messages' = mergeWsAppendedIntoRest(messages, new(n)) /\ keptOld' = FALSE /\ UNCHANGED wiped
  BY Zenon DEF refreshMessages
<1>2. /\ a.kind = "refresh" /\ chAsks' = chAsks \ {a}
      /\ UNCHANGED <<chLog, obsOf, selectedHash, region, messageRequestId, chBatch, chCache, aged, got>>
  BY Zenon DEF refreshMessages
<1>3. a.n \in 0..Len(chLog) /\ Len(chLog) \in Nat
  BY DEF ViewInv, AsksNumbered, ViewTypes
<1>4. n \in 0..Len(chLog) /\ a.n <= n
  BY <1>3
<1>5. /\ Listed(new(n), Len(chLog))
      /\ \A k \in DOMAIN new(n) : new(n)[k].via = "rest" /\ ~new(n)[k].ws /\ ChanOf(new(n)[k].m) = a.c /\ Passes(new(n)[k].m, a.r)
      /\ \A m \in 1..n : ChanOf(m) = a.c /\ Passes(m, a.r) /\ ~Behind(m) => \E k \in DOMAIN new(n) : new(n)[k].m = m
  BY <1>4, AnswerIs DEF ViewInv
<1>6. Listed(chCache', Len(chLog)) /\ \A i \in DOMAIN chCache' : chCache'[i].via = "cache"
  BY <1>2 DEF ViewInv, ViewTypes
<1>7. keptOld \in BOOLEAN
  BY DEF ViewInv, ViewTypes
<1>8. CASE isStaleMessageRequest(a)
  BY <1>1, <1>2, <1>6, <1>7, <1>8, DroppedStep
<1>9. CASE ~isStaleMessageRequest(a)
  <2>1. a.id = messageRequestId /\ a.c = selectedHash /\ a.r = region
    BY <1>9 DEF isStaleMessageRequest
  <2>2. AsksNumbered'
    BY <1>2 DEF ViewInv, AsksNumbered
  <2>3. \A b \in chAsks' : ~Current(b)'
    BY <1>2, <2>1 DEF ViewInv, AsksNumbered, Current
  <2>4. CASE a.r # "all" /\ new(n) = <<>>
    <3>1. messages' = <<>> /\ wiped' = wiped \union got /\ keptOld' = FALSE
      BY <1>1, <1>9, <2>4
    <3>2. Listed(messages', Len(chLog))
      BY <3>1 DEF Listed
    <3>3. ViewTypes'
      BY <1>2, <3>1, <3>2 DEF ViewInv, ViewTypes
    <3>4. GotIsOfView'
      BY <1>2 DEF ViewInv, GotIsOfView, ChanOf, Passes, shouldProcessWSMessageForRegion
    <3>5. PushedStay'
      BY <1>2, <3>1 DEF PushedStay
    <3> QED BY <2>2, <3>1, <3>3, <3>4, <3>5 DEF ViewInv, MessagesOfSelected, FirstAnswer, RegionComes, InRegion
  <2>5. CASE ~(a.r # "all" /\ new(n) = <<>>) /\ SameCount(new(n))
    <3>1. messages' = messages /\ wiped' = wiped /\ keptOld' = Differs(messages, new(n))
      BY <1>1, <1>9, <2>5
    <3>2. keptOld' \in BOOLEAN
      BY <3>1 DEF Differs
    <3>3. \A m \in 1..Len(chLog) : Served(m) => Served(m)'
      BY <2>3 DEF Served
    <3>4. FirstAnswer'
      BY <2>3 DEF FirstAnswer
    <3>5. ~keptOld' => InRegion'
      <4> SUFFICES ASSUME ~keptOld', NEW i \in DOMAIN messages PROVE Passes(messages[i].m, region)'
        BY <3>1 DEF InRegion
      <4>1. PICK k \in DOMAIN new(n) : new(n)[k].m = messages[i].m
        BY <3>1 DEF Differs
      <4>2. Passes(messages[i].m, region)
        BY <1>5, <2>1, <4>1
      <4> QED BY <1>2, <3>1, <4>2 DEF Passes, shouldProcessWSMessageForRegion
    <3>6. RegionComes'
      BY <3>5 DEF RegionComes
    <3>7. messageRequestId' \in Nat
      BY <1>2 DEF ViewInv, ViewTypes
    <3> QED BY <1>2, <2>2, <3>1, <3>2, <3>3, <3>4, <3>6, <3>7, AsksStep
  <2>6. CASE ~(a.r # "all" /\ new(n) = <<>>) /\ ~SameCount(new(n))
    <3> DEFINE rest == new(n)
    <3>1. messages' = mergeWsAppendedIntoRest(messages, rest) /\ keptOld' = FALSE /\ wiped' = wiped
      BY <1>1, <1>9, <2>6
    <3>2. Listed(rest, Len(chLog)) /\ \A k \in DOMAIN rest : ChanOf(rest[k].m) = selectedHash /\ Passes(rest[k].m, region)
      BY <1>5, <2>1
    <3>3. \A m \in got : ~Behind(m) /\ Served(m) => \E k \in DOMAIN rest : rest[k].m = m
      <4> SUFFICES ASSUME NEW m \in got, ~Behind(m), Served(m) PROVE \E k \in DOMAIN rest : rest[k].m = m
        OBVIOUS
      <4>1. a.n >= m /\ m \in 1..Len(chLog) /\ ChanOf(m) = a.c /\ Passes(m, a.r)
        BY <1>2, <2>1 DEF Served, Current, ViewInv, GotIsOfView
      <4>2. m \in 1..n
        BY <1>3, <1>4, <4>1
      <4> QED BY <1>5, <4>1, <4>2
    <3>4. a.kind # "list" /\ keptOld' \in BOOLEAN
      BY <1>2, <3>1
    <3> HIDE DEF rest
    <3> QED BY <1>2, <1>6, <1>9, <3>1, <3>2, <3>3, <3>4, TakenStep
  <2> QED BY <2>4, <2>5, <2>6
<1> QED BY <1>8, <1>9

\* A refresh of the view is asked for.
LEMMA RefreshAsked ==
  ASSUME ViewInv, NEW a \in chAsks, selectedHash = "pub", chAsks' = (chAsks \ {a}) \union {NewAsk("refresh", selectedHash)},
         messageRequestId' = messageRequestId + 1, keptOld' = keptOld,
         UNCHANGED <<chLog, obsOf, selectedHash, region, messages, chBatch, chCache, aged, got, wiped>>
  PROVE  ViewInv'
<1> DEFINE new == NewAsk("refresh", selectedHash)
<1>1. new.kind = "refresh" /\ new.id = messageRequestId + 1 /\ new.n = Len(chLog) /\ new.c = selectedHash /\ new.r = region
  BY DEF NewAsk
<1>2. messageRequestId \in Nat /\ Len(chLog) \in Nat /\ keptOld \in BOOLEAN
  BY DEF ViewInv, ViewTypes
<1>3. chAsks' = (chAsks \ {a}) \union {new}
  OBVIOUS
<1> HIDE DEF new
<1>4. AsksNumbered'
  BY <1>1, <1>2, <1>3 DEF ViewInv, AsksNumbered, AskKinds
<1>5. \A b \in chAsks' : Current(b)' => b = new
  BY <1>1, <1>2, <1>3 DEF ViewInv, AsksNumbered, Current
<1>6. \A m \in 1..Len(chLog) : Served(m)'
  BY <1>1, <1>2, <1>5 DEF Served
<1>7. FirstAnswer'
  BY <1>1, <1>5 DEF FirstAnswer
<1>8. PICK b \in chAsks' : b.kind = "refresh" /\ b.id = messageRequestId' /\ b.c = selectedHash' /\ b.r = region'
  BY <1>1, <1>3
<1>9. RegionComes'
  BY <1>8 DEF RegionComes, RefreshComes, isStaleMessageRequest
<1>10. messageRequestId' \in Nat /\ keptOld' \in BOOLEAN
  BY <1>2
<1> QED BY <1>4, <1>6, <1>7, <1>9, <1>10, AsksStep

\* A list that has the selected channel keeps its messages; otherwise nothing
\* is selected.
LEMMA ListStep == ASSUME ViewInv, NEW a \in chAsks, loadChannels(a) PROVE ViewInv'
<1>1. PICK keep \in BOOLEAN :
        /\ keep => selectedHash = "pub"
        /\ selectedHash' = (IF keep THEN selectedHash ELSE NoChan)
        /\ messages' = (IF keep THEN messages ELSE <<>>)
        /\ got' = (IF keep THEN got ELSE {}) /\ wiped' = (IF keep THEN wiped ELSE {}) /\ keptOld' = (keptOld /\ keep)
        /\ chAsks' = (IF keep THEN (chAsks \ {a}) \union {NewAsk("refresh", selectedHash)} ELSE chAsks \ {a})
        /\ messageRequestId' = (IF keep THEN messageRequestId + 1 ELSE messageRequestId)
  <2>1. PICK n \in a.n..Len(chLog) :
        LET keep == ListHas(selectedHash, a.r, n)
        IN  /\ selectedHash' = (IF keep THEN selectedHash ELSE NoChan)
            /\ messages' = (IF keep THEN messages ELSE <<>>)
            /\ got' = (IF keep THEN got ELSE {}) /\ wiped' = (IF keep THEN wiped ELSE {}) /\ keptOld' = (keptOld /\ keep)
            /\ chAsks' = (IF keep THEN (chAsks \ {a}) \union {NewAsk("refresh", selectedHash)} ELSE chAsks \ {a})
            /\ messageRequestId' = (IF keep THEN messageRequestId + 1 ELSE messageRequestId)
    BY Zenon DEF loadChannels
  <2>2. ListHas(selectedHash, a.r, n) \in BOOLEAN /\ (ListHas(selectedHash, a.r, n) => selectedHash = "pub")
    BY DEF ListHas
  <2> QED BY <2>1, <2>2, Zenon
<1>2. UNCHANGED <<chLog, obsOf, region, chBatch, chCache, aged>>
  BY Zenon DEF loadChannels
<1>3. keptOld \in BOOLEAN /\ messageRequestId \in Nat
  BY DEF ViewInv, ViewTypes
<1>4. CASE keep
  <2>1. keptOld' = keptOld
    BY <1>1, <1>3, <1>4, Zenon
  <2> QED BY <1>1, <1>2, <1>4, <2>1, RefreshAsked
<1>5. CASE ~keep
  <2>1. selectedHash' = NoChan /\ messages' = <<>> /\ got' = {} /\ keptOld' = FALSE /\ chAsks' = chAsks \ {a} /\ messageRequestId' = messageRequestId
    BY <1>1, <1>5, Zenon
  <2>2. AsksNumbered'
    BY <1>2, <2>1 DEF ViewInv, AsksNumbered
  <2> QED BY <1>2, <1>3, <2>1, <2>2, EmptiedStep
<1> QED BY <1>4, <1>5

\* A request or a load that fails keeps the invariant of the view.
LEMMA FailStep == ASSUME ViewInv, NEW a \in chAsks, chAskFails(a) PROVE ViewInv'
<1>1. /\ keptOld' = (keptOld \/ (a.kind = "refresh" /\ ~isStaleMessageRequest(a)))
      /\ IF a.kind = "list" /\ selectedHash = "pub"
         THEN chAsks' = (chAsks \ {a}) \union {NewAsk("refresh", selectedHash)} /\ messageRequestId' = messageRequestId + 1
         ELSE chAsks' = chAsks \ {a} /\ UNCHANGED messageRequestId
      /\ UNCHANGED <<wiped, chLog, obsOf, selectedHash, region, messages, chBatch, chCache, aged, got>>
  BY Zenon DEF chAskFails
<1>2. keptOld \in BOOLEAN /\ keptOld' \in BOOLEAN /\ messageRequestId \in Nat
  BY <1>1 DEF ViewInv, ViewTypes
<1>3. Listed(chCache', Len(chLog)) /\ \A i \in DOMAIN chCache' : chCache'[i].via = "cache"
  BY <1>1 DEF ViewInv, ViewTypes
<1>4. CASE a.kind = "list" /\ selectedHash = "pub"
  <2>1. keptOld' = keptOld
    BY <1>1, <1>2, <1>4
  <2> QED BY <1>1, <1>4, <2>1, RefreshAsked
<1>5. CASE a.kind = "list" /\ selectedHash # "pub"
  <2>1. chAsks' = chAsks \ {a} /\ messageRequestId' = messageRequestId
    BY <1>1, <1>5
  <2>2. AsksNumbered'
    BY <1>1, <2>1 DEF ViewInv, AsksNumbered
  <2>3. \A m \in 1..Len(chLog) : Served(m) => Served(m)'
    BY <2>1 DEF Served, Current
  <2>4. FirstAnswer'
    BY <1>1, <2>1 DEF ViewInv, FirstAnswer, Current
  <2>5. RegionComes'
    BY <1>1, <1>5 DEF RegionComes
  <2> QED BY <1>1, <1>2, <2>1, <2>2, <2>3, <2>4, <2>5, AsksStep
<1>6. CASE a.kind # "list"
  <2>1. chAsks' = chAsks \ {a} /\ messageRequestId' = messageRequestId
    BY <1>1, <1>6
  <2>2. (keptOld => keptOld') /\ (a.kind = "refresh" /\ ~isStaleMessageRequest(a) => keptOld')
    BY <1>1, <1>2, Zenon
  <2> QED BY <1>1, <1>2, <1>3, <1>6, <2>1, <2>2, DroppedStep
<1> QED BY <1>4, <1>5, <1>6

\* Another region loads the list again, and the view keeps its invariant.
LEMMA RegionStep == ASSUME ViewInv, NEW r \in {"all", "R"}, regionChange(r) PROVE ViewInv'
<1> DEFINE new == [kind |-> "list", id |-> nAct, c |-> NoChan, r |-> r, n |-> Len(chLog)]
<1>1. /\ region' = r /\ got' = {m \in got : Passes(m, r)} /\ chAsks' = chAsks \union {new}
      /\ UNCHANGED <<wiped, chLog, obsOf, selectedHash, messages, messageRequestId, chBatch, chCache, aged, keptOld>>
  BY Zenon DEF regionChange
<1>2. new.kind = "list" /\ new.n = Len(chLog)
  OBVIOUS
<1> HIDE DEF new
<1>3. ViewTypes'
  BY <1>1 DEF ViewInv, ViewTypes
<1>4. Len(chLog) \in Nat
  BY DEF ViewInv, ViewTypes
<1>5. AsksNumbered'
  BY <1>1, <1>2, <1>4 DEF ViewInv, AsksNumbered, AskKinds
<1>6. MessagesOfSelected'
  BY <1>1 DEF ViewInv, MessagesOfSelected, ChanOf
<1>7. GotIsOfView'
  BY <1>1 DEF ViewInv, GotIsOfView, ChanOf, Passes
<1>8. PushedStay'
  <2> SUFFICES ASSUME NEW m \in got \ wiped, ~Behind(m) PROVE Stays(m)'
    BY <1>1 DEF PushedStay, Behind, ChanOf
  <2>1. Served(m) => Served(m)'
    BY <1>1, <1>2 DEF Served, Current
  <2> QED BY <1>1, <2>1 DEF ViewInv, PushedStay, Stays
<1>9. FirstAnswer'
  BY <1>1, <1>2 DEF ViewInv, FirstAnswer, Current
<1>10. RegionComes'
  BY <1>1, <1>2 DEF RegionComes, RefreshComes
<1> QED BY <1>3, <1>5, <1>6, <1>7, <1>8, <1>9, <1>10 DEF ViewInv

\* A message that is pushed goes to the open channel if it is of it.
LEMMA HeardStep == ASSUME ViewInv, NEW c \in {"pub", "priv"}, NEW r \in {"R", "S"}, wsMessage(c, r) PROVE ViewInv'
<1> DEFINE top == Len(chLog) + 1
<1> DEFINE e == [c |-> c, r |-> r]
<1>1. /\ Len(chLog) < MaxChMsgs /\ chLog' = Append(chLog, e) /\ obsOf' = [obsOf EXCEPT ![top] = 1] /\ Delivered(top)
      /\ UNCHANGED <<wiped, selectedHash, region, messageRequestId, chAsks, chCache, keptOld>>
  BY Zenon DEF wsMessage
<1>2. Len(chLog) \in Nat /\ MaxChMsgs \in Nat /\ chLog \in Seq([c : {"pub", "priv"}, r : {"R", "S"}]) /\ e \in [c : {"pub", "priv"}, r : {"R", "S"}]
  BY ChanViewAssumption DEF ViewInv, ViewTypes, ChanViewAssumption
<1> HIDE DEF e
<1>3. chLog' \in Seq([c : {"pub", "priv"}, r : {"R", "S"}]) /\ Len(chLog') = top /\ \A i \in 1..Len(chLog) : chLog'[i] = chLog[i]
  BY <1>1, <1>2
<1>4. Len(chLog) <= Len(chLog') /\ Len(chLog') <= MaxChMsgs /\ top \in 1..Len(chLog') /\ \A i \in 1..Len(chLog) : i \in 1..Len(chLog')
  BY <1>1, <1>2, <1>3
<1>5. obsOf' \in [MsgIds -> Nat]
  BY <1>1, <1>2 DEF ViewInv, ViewTypes
<1>6. \/ processWSBatch(top, chLog'[top], region) /\ chBatch' = chBatch
      \/ UNCHANGED <<messages, got, aged>> /\ chBatch' = chBatch \union {[m |-> top, prior |-> selectedHash, r |-> region]}
  BY <1>1, Zenon DEF Delivered
<1>7. \A b \in chBatch' : b.m \in 1..Len(chLog')
  BY <1>4, <1>6 DEF ViewInv, ViewTypes
<1> HIDE DEF top
<1> QED BY <1>1, <1>3, <1>4, <1>5, <1>6, <1>7, PushedStep

\* Another observation of a message shown is no new message.
LEMMA AgainStep == ASSUME ViewInv, NEW m \in MsgIds, wsObservation(m) PROVE ViewInv'
<1>1. /\ m \in 1..Len(chLog) /\ obsOf' = [obsOf EXCEPT ![m] = @ + 1] /\ chLog' = chLog /\ Delivered(m)
      /\ UNCHANGED <<wiped, selectedHash, region, messageRequestId, chAsks, chCache, keptOld>>
  BY Zenon DEF wsObservation
<1>2. Len(chLog) \in Nat /\ Len(chLog) <= MaxChMsgs /\ chLog' \in Seq([c : {"pub", "priv"}, r : {"R", "S"}])
  BY <1>1 DEF ViewInv, ViewTypes
<1>3. obsOf' \in [MsgIds -> Nat]
  BY <1>1 DEF ViewInv, ViewTypes
<1>4. \/ processWSBatch(m, chLog'[m], region) /\ chBatch' = chBatch
      \/ UNCHANGED <<messages, got, aged>> /\ chBatch' = chBatch \union {[m |-> m, prior |-> selectedHash, r |-> region]}
  BY <1>1, Zenon DEF Delivered
<1>5. \A b \in chBatch' : b.m \in 1..Len(chLog')
  BY <1>1, <1>4 DEF ViewInv, ViewTypes
<1>6. Len(chLog) <= Len(chLog') /\ Len(chLog') <= MaxChMsgs /\ m \in 1..Len(chLog')
  BY <1>1, <1>2
<1> QED BY <1>1, <1>2, <1>3, <1>4, <1>5, <1>6, PushedStep

\* A decrypted batch adds the messages of the open channel.
LEMMA DecryptedStep == ASSUME ViewInv, NEW b \in chBatch, chWsHandler(b) PROVE ViewInv'
<1>1. /\ chBatch' = chBatch \ {b} /\ chLog' = chLog /\ (processWSBatch(b.m, chLog'[b.m], b.r) \/ UNCHANGED <<messages, got, aged>>)
      /\ UNCHANGED <<wiped, obsOf, selectedHash, region, messageRequestId, chAsks, chCache, keptOld>>
  BY Zenon DEF chWsHandler
<1>2. b.m \in 1..Len(chLog') /\ Len(chLog) \in Nat /\ Len(chLog) <= Len(chLog') /\ Len(chLog') <= MaxChMsgs
      /\ chLog' \in Seq([c : {"pub", "priv"}, r : {"R", "S"}])
  BY <1>1 DEF ViewInv, ViewTypes
<1>3. obsOf' \in [MsgIds -> Nat] /\ \A x \in chBatch' : x.m \in 1..Len(chLog')
  BY <1>1 DEF ViewInv, ViewTypes
<1> DEFINE m == b.m
<1>4. m \in 1..Len(chLog') /\ (processWSBatch(m, chLog'[m], b.r) \/ UNCHANGED <<messages, got, aged>>)
  BY <1>1, <1>2
<1> HIDE DEF m
<1> QED BY <1>1, <1>2, <1>3, <1>4, PushedStep

\* Five minutes later a pushed message is no longer owed to the view.
LEMMA AgeStep == ASSUME ViewInv, NEW m \in MsgIds, FiveMinutes(m) PROVE ViewInv'
<1>1. /\ aged' = aged \union {m} /\ got' = got \ {m}
      /\ UNCHANGED <<wiped, chLog, obsOf, selectedHash, region, messages, messageRequestId, chAsks, chBatch, chCache, keptOld>>
  BY Zenon DEF FiveMinutes
<1>2. ViewTypes' /\ AsksNumbered'
  BY <1>1 DEF ViewInv, ViewTypes, AsksNumbered
<1>3. MessagesOfSelected' /\ GotIsOfView'
  BY <1>1 DEF ViewInv, MessagesOfSelected, GotIsOfView, ChanOf, Passes, shouldProcessWSMessageForRegion
<1>4. PushedStay'
  <2> SUFFICES ASSUME NEW x \in got \ wiped, ~Behind(x) PROVE Stays(x)'
    BY <1>1 DEF PushedStay, Behind, ChanOf
  <2> QED BY <1>1 DEF ViewInv, PushedStay, Stays, Served, Current
<1>5. FirstAnswer'
  BY <1>1 DEF ViewInv, FirstAnswer, Current
<1>6. RegionComes'
  BY <1>1 DEF ViewInv, RegionComes, RefreshComes, InRegion, isStaleMessageRequest, Passes, shouldProcessWSMessageForRegion
<1> QED BY <1>2, <1>3, <1>4, <1>5, <1>6 DEF ViewInv

\* Going back keeps the invariant of the view.
LEMMA BackStep == ASSUME ViewInv, chBack PROVE ViewInv'
<1>1. /\ selectedHash' = NoChan /\ messages' = <<>> /\ got' = {} /\ keptOld' = FALSE
      /\ UNCHANGED <<chLog, obsOf, region, messageRequestId, chAsks, chBatch, chCache, aged>>
  BY Zenon DEF chBack
<1>2. AsksNumbered' /\ messageRequestId' \in Nat
  BY <1>1 DEF ViewInv, AsksNumbered, ViewTypes
<1> QED BY <1>1, <1>2, EmptiedStep

\* Nothing changes while nothing happens.
LEMMA ViewRests == ASSUME ViewInv, UNCHANGED chanVars PROVE ViewInv'
<1>1. UNCHANGED <<chLog, obsOf, selectedHash, region, messages, messageRequestId, chAsks, chBatch, chCache, aged, got, wiped, keptOld>>
  BY Zenon DEF chanVars
<1>2. ViewTypes' /\ AsksNumbered'
  BY <1>1 DEF ViewInv, ViewTypes, AsksNumbered
<1>3. MessagesOfSelected' /\ GotIsOfView'
  BY <1>1 DEF ViewInv, MessagesOfSelected, GotIsOfView, ChanOf, Passes, shouldProcessWSMessageForRegion
<1>4. PushedStay'
  <2> SUFFICES ASSUME NEW x \in got \ wiped, ~Behind(x) PROVE Stays(x)'
    BY <1>1 DEF PushedStay, Behind, ChanOf
  <2> QED BY <1>1 DEF ViewInv, PushedStay, Stays, Served, Current
<1>5. FirstAnswer'
  BY <1>1 DEF ViewInv, FirstAnswer, Current
<1>6. RegionComes'
  BY <1>1 DEF ViewInv, RegionComes, RefreshComes, InRegion, isStaleMessageRequest, Passes, shouldProcessWSMessageForRegion
<1> QED BY <1>2, <1>3, <1>4, <1>5, <1>6 DEF ViewInv

\* Every step of the messages pane keeps the invariant of the view.
LEMMA ViewStepHolds == ViewInv /\ [ChanNext]_chanVars => ViewInv'
<1> SUFFICES ASSUME ViewInv, [ChanNext]_chanVars PROVE ViewInv'
  OBVIOUS
<1>1. CASE \E c \in {"pub", "priv"} : selectChannel(c) \/ \E r \in {"R", "S"} : wsMessage(c, r)
  BY <1>1, SelectStep, HeardStep
<1>2. CASE \E a \in chAsks : onCacheHit(a) \/ messagesArrive(a) \/ loadChannels(a) \/ refreshMessages(a) \/ chAskFails(a)
  BY <1>2, CacheHitStep, ArriveStep, ListStep, RefreshStep, FailStep
<1>3. CASE \E r \in {"all", "R"} : regionChange(r)
  BY <1>3, RegionStep
<1>4. CASE \E m \in MsgIds : wsObservation(m) \/ FiveMinutes(m)
  BY <1>4, AgainStep, AgeStep
<1>5. CASE \E b \in chBatch : chWsHandler(b)
  BY <1>5, DecryptedStep
<1>6. CASE chBack
  BY <1>6, BackStep
<1>7. CASE UNCHANGED chanVars
  BY <1>7, ViewRests
<1> QED BY <1>1, <1>2, <1>3, <1>4, <1>5, <1>6, <1>7 DEF ChanNext

\* Pushed messages stay, none is shown twice, those shown are of the open
\* channel, and a change of region settles (channels.js, selectChannel to
\* processWSBatch), for any length of an answer.
THEOREM ViewThm == ChanInit /\ [][ChanNext]_chanVars => [](NoLiveLost /\ NoDup /\ MessagesOfSelected /\ RegionSettled)
<1>1. ViewInv => NoLiveLost
  BY DEF ViewInv, PushedStay, Stays, NoLiveLost, Known
<1>2. ViewInv => NoDup /\ MessagesOfSelected
  BY DEF ViewInv, ViewTypes, Listed, NoDup
<1>3. ViewInv => RegionSettled
  BY DEF ViewInv, RegionComes, RefreshComes, InRegion, RegionSettled
<1> QED BY ViewStarts, ViewStepHolds, <1>1, <1>2, <1>3, PTL

-------------------------------------------------------------------------------
(* The sidebar, the keys and the cache behind it (ChanView).                *)

RowsAll == {"srv", "user"} \X KeyNames

\* Rows marked as the user's are rows; two rows of a name were noticed.
RowsInv ==
    /\ storedKeys \in [KeyNames -> 0..2] /\ chRows \subseteq RowsAll /\ mine \subseteq chRows /\ stamped \subseteq RowsAll
    /\ \A b \in builds : b \in [KeyNames -> 0..2]
    /\ keyMap.map \in [KeyNames -> 0..2]
    /\ Twins(chRows) \subseteq twins /\ twins \subseteq KeyNames
KeyInv == RowsInv /\ MapOfStoredKeys /\ RowForEveryKey /\ MineHasKey /\ SidebarCurrent

\* The sidebar starts with the stored keys.
LEMMA KeyStarts == KeyInit => KeyInv
<1> SUFFICES ASSUME KeyInit PROVE KeyInv
  OBVIOUS
<1>1. storedKeys \in [KeyNames -> 0..2] /\ chRows = {} /\ mine = {} /\ sidebar = Sections({}, {}) /\ stamped = {} /\ builds = {}
      /\ keyMap.map \in [KeyNames -> 0..2] /\ usedMap = <<NoKeys, NoKeys>> /\ reloaded = TRUE /\ twins = {}
  BY DEF KeyInit, NoKeys, NoMap
<1> QED BY <1>1 DEF KeyInv, RowsInv, Twins, RowsOf, MapOfStoredKeys, RowForEveryKey, MineHasKey, SidebarCurrent

\* Merging the keys marks a row of each.
LEMMA MergeKeys ==
  ASSUME NEW ks \in [KeyNames -> 0..2], NEW rs, NEW ms, rs \subseteq RowsAll, ms \subseteq rs, mergeUserChannels(ks, rs, ms)
  PROVE  /\ chRows' \subseteq RowsAll /\ mine' \subseteq chRows' /\ reloaded' = FALSE /\ twins' = twins \union Twins(chRows')
         /\ \A n \in Keyed(ks) : RowsOf(n) \intersect mine' # {}
         /\ \A r \in mine' : r \in ms \/ ks[r[2]] # 0
<1>1. PICK pick \in [Keyed(ks) -> {"srv", "user"}] :
        /\ chRows' = rs \union {<<pick[n], n>> : n \in Keyed(ks)}
        /\ mine' = ms \union {<<pick[n], n>> : n \in Keyed(ks)}
        /\ reloaded' = FALSE /\ twins' = twins \union Twins(chRows')
  BY Zenon DEF mergeUserChannels
<1>2. \A n \in Keyed(ks) : n \in KeyNames /\ ks[n] # 0 /\ <<pick[n], n>> \in RowsAll /\ <<pick[n], n>> \in RowsOf(n)
  BY DEF Keyed, RowsAll, RowsOf
<1>3. \A n \in Keyed(ks) : <<pick[n], n>> \in mine'
  BY <1>1
<1>4. \A n \in Keyed(ks) : RowsOf(n) \intersect mine' # {}
  BY <1>2, <1>3
<1>5. ASSUME NEW r \in mine' PROVE r \in ms \/ ks[r[2]] # 0
  <2>1. r \in ms \/ \E n \in Keyed(ks) : r = <<pick[n], n>>
    BY <1>1
  <2> QED BY <1>2, <2>1
<1>6. chRows' \subseteq RowsAll /\ mine' \subseteq chRows'
  BY <1>1, <1>2
<1> QED BY <1>1, <1>4, <1>5, <1>6

\* Merging the stored keys into the rows gives every key a row and every
\* removable row a key.
LEMMA MergedStep ==
  ASSUME RowsInv, MapOfStoredKeys, NEW rs, NEW ms, storedKeys' \in [KeyNames -> 0..2], rs \subseteq RowsAll, ms \subseteq rs,
         \A r \in ms : storedKeys'[r[2]] # 0 \/ r[2] \in twins,
         mergeUserChannels(storedKeys', rs, ms), renderChannelList,
         keyMap'.map \in [KeyNames -> 0..2], UNCHANGED <<builds, stamped, usedMap>>
  PROVE  KeyInv'
<1> DEFINE ks == storedKeys'
<1>1. /\ chRows' \subseteq RowsAll /\ mine' \subseteq chRows' /\ reloaded' = FALSE /\ twins' = twins \union Twins(chRows')
      /\ \A n \in Keyed(ks) : RowsOf(n) \intersect mine' # {}
      /\ \A r \in mine' : r \in ms \/ ks[r[2]] # 0
  BY MergeKeys
<1>2. Twins(chRows)' = Twins(chRows') /\ Twins(chRows') \subseteq KeyNames
  BY DEF Twins, RowsOf
<1>3. RowsInv'
  BY <1>1, <1>2 DEF RowsInv
<1>4. MapOfStoredKeys' /\ SidebarCurrent'
  BY DEF MapOfStoredKeys, SidebarCurrent, renderChannelList
<1>5. MineHasKey'
  BY <1>1 DEF MineHasKey
<1>6. RowForEveryKey'
  BY <1>1 DEF RowForEveryKey, Keyed, RowsOf
<1> QED BY <1>3, <1>4, <1>5, <1>6 DEF KeyInv

\* Removing a channel takes key, row and map entry together.
LEMMA RemovedStep == ASSUME KeyInv, NEW r \in mine, removeChannel(r) PROVE KeyInv'
<1>1. /\ storedKeys' = [storedKeys EXCEPT ![r[2]] = 0] /\ keyMap' = NoMap
      /\ mine' = mine \ {r} /\ chRows' = (IF r[1] = "user" THEN chRows \ {r} ELSE chRows) /\ renderChannelList
      /\ UNCHANGED <<adding, builds, stamped, usedMap, reloaded, twins>>
  BY Zenon DEF removeChannel
<1>2. r \in RowsAll /\ r[2] \in KeyNames /\ r[1] \in {"srv", "user"} /\ r = <<r[1], r[2]>>
  BY DEF KeyInv, RowsInv, RowsAll
<1>3. storedKeys' \in [KeyNames -> 0..2] /\ \A n \in KeyNames : storedKeys'[n] = (IF n = r[2] THEN 0 ELSE storedKeys[n])
  BY <1>1, <1>2 DEF KeyInv, RowsInv
<1>4. keyMap'.map \in [KeyNames -> 0..2]
  BY <1>1 DEF NoMap, NoKeys
<1>5. chRows' \subseteq chRows /\ mine' \subseteq chRows'
  BY <1>1 DEF KeyInv, RowsInv
<1>6. RowsInv'
  BY <1>1, <1>3, <1>4, <1>5 DEF KeyInv, RowsInv, Twins
<1>7. MapOfStoredKeys' /\ SidebarCurrent'
  BY <1>1 DEF KeyInv, MapOfStoredKeys, SidebarCurrent, renderChannelList
<1>8. RowForEveryKey'
  <2> SUFFICES ASSUME ~reloaded, NEW n \in KeyNames, storedKeys'[n] # 0, n \notin adding PROVE RowsOf(n) \intersect mine' # {}
    BY <1>1 DEF RowForEveryKey, Keyed, RowsOf
  <2>1. n # r[2] /\ RowsOf(n) \intersect mine # {}
    BY <1>3 DEF KeyInv, RowForEveryKey, Keyed
  <2>2. r \notin RowsOf(n)
    BY <1>2, <2>1 DEF RowsOf
  <2> QED BY <1>1, <2>1, <2>2
<1>9. MineHasKey'
  <2> SUFFICES ASSUME NEW q \in mine, q # r PROVE storedKeys'[q[2]] # 0 \/ q[2] \in twins
    BY <1>1 DEF MineHasKey
  <2>1. q[2] \in KeyNames /\ q[1] \in {"srv", "user"} /\ q = <<q[1], q[2]>> /\ q \in chRows /\ r \in chRows
    BY DEF KeyInv, RowsInv, RowsAll
  <2>2. CASE q[2] # r[2]
    BY <1>3, <2>1, <2>2 DEF KeyInv, MineHasKey
  <2>3. CASE q[2] = r[2]
    <3>1. q[1] # r[1]
      BY <1>2, <2>1, <2>3
    <3>2. RowsOf(q[2]) = {q, r}
      BY <1>2, <2>1, <2>3, <3>1 DEF RowsOf
    <3>3. q[2] \in Twins(chRows)
      BY <2>1, <3>2 DEF Twins
    <3> QED BY <3>3 DEF KeyInv, RowsInv
  <2> QED BY <2>2, <2>3
<1> QED BY <1>6, <1>7, <1>8, <1>9 DEF KeyInv

\* The server's rows are rows and none is there twice.
LEMMA ServerRowsAre == ServerRows \subseteq RowsAll /\ Twins(ServerRows) = {} /\ Twins({}) = {}
  BY ChanKeysAssumption DEF ChanKeysAssumption, ServerRows, RowsAll, Twins, RowsOf

\* An answer replaces the server's rows, and the keys are merged into it.
LEMMA LoadedStep == ASSUME KeyInv, NEW a \in listAsks, loadChannelsEnds(a) \/ loadChannelsFails(a) PROVE KeyInv'
<1>1. UNCHANGED <<storedKeys, adding, keyMap, builds, stamped, usedMap>>
  BY DEF loadChannelsEnds, loadChannelsFails
<1>2. storedKeys' \in [KeyNames -> 0..2] /\ keyMap'.map \in [KeyNames -> 0..2]
  BY <1>1 DEF KeyInv, RowsInv
<1>3. CASE loadChannelsEnds(a)
  <2>1. PICK rs \in {ServerRows, {}} :
          IF a.merge THEN mergeUserChannels(storedKeys, rs, {})
          ELSE chRows' = rs /\ mine' = {} /\ reloaded' = TRUE /\ UNCHANGED twins
    BY <1>3, Zenon DEF loadChannelsEnds
  <2>2. renderChannelList /\ rs \subseteq RowsAll /\ Twins(rs) = {}
    BY <1>3, ServerRowsAre DEF loadChannelsEnds
  <2>3. CASE a.merge
    <3>1. mergeUserChannels(storedKeys', rs, {})
      BY <1>1, <2>1, <2>3
    <3> QED BY <1>1, <1>2, <2>2, <3>1, MergedStep DEF KeyInv
  <2>4. CASE ~a.merge
    <3>1. chRows' = rs /\ mine' = {} /\ reloaded' = TRUE /\ twins' = twins
      BY <2>1, <2>4
    <3>2. RowsInv'
      BY <1>1, <2>2, <3>1 DEF KeyInv, RowsInv, Twins
    <3> QED BY <1>1, <2>2, <3>1, <3>2 DEF KeyInv, MapOfStoredKeys, RowForEveryKey, MineHasKey, SidebarCurrent, renderChannelList
  <2> QED BY <2>3, <2>4
<1>4. CASE loadChannelsFails(a)
  <2>1. CASE a.merge
    <3>1. mergeUserChannels(storedKeys', chRows, mine) /\ renderChannelList
      BY <1>1, <1>4, <2>1 DEF loadChannelsFails
    <3>2. chRows \subseteq RowsAll /\ mine \subseteq chRows /\ \A r \in mine : storedKeys'[r[2]] # 0 \/ r[2] \in twins
      BY <1>1 DEF KeyInv, RowsInv, MineHasKey
    <3> QED BY <1>1, <1>2, <3>1, <3>2, MergedStep DEF KeyInv
  <2>2. CASE ~a.merge
    <3>1. UNCHANGED <<chRows, mine, sidebar, reloaded, twins>>
      BY <1>4, <2>2 DEF loadChannelsFails
    <3> QED BY <1>1, <3>1 DEF KeyInv, RowsInv, MapOfStoredKeys, RowForEveryKey, MineHasKey, SidebarCurrent
  <2> QED BY <2>1, <2>2
<1> QED BY <1>3, <1>4

\* Decrypting live packets stamps rows of the sidebar only.
LEMMA StampsAre == ASSUME NEW map \in [KeyNames -> 0..2], stamped \subseteq RowsAll, Decrypts(map) PROVE stamped' \subseteq RowsAll
<1> DEFINE row(n) == IF <<"user", n>> \in chRows THEN <<"user", n>> ELSE <<"srv", n>>
           named == {m \in Keyed(map) : map[m] = 1}
<1>1. \A n \in named : row(n) \in RowsAll
  BY DEF RowsAll, Keyed
<1>2. stamped' = stamped \union {row(n) : n \in named}
  BY Zenon DEF Decrypts
<1> QED BY <1>1, <1>2

\* Every step keeps rows, keys and the key map in agreement.
LEMMA KeyStepHolds == KeyInv /\ [KeyNext]_keyVars => KeyInv'
<1> SUFFICES ASSUME KeyInv, [KeyNext]_keyVars PROVE KeyInv'
  OBVIOUS
<1>1. CASE \E n \in KeyNames : hashByteKnown(n)
  <2> PICK n \in KeyNames : hashByteKnown(n)
    BY <1>1
  <2>1. /\ storedKeys' = storedKeys /\ mergeUserChannels(storedKeys', chRows, mine) /\ renderChannelList
        /\ UNCHANGED <<keyMap, builds, stamped, usedMap>>
    BY Zenon DEF hashByteKnown
  <2>2. chRows \subseteq RowsAll /\ mine \subseteq chRows /\ (\A r \in mine : storedKeys'[r[2]] # 0 \/ r[2] \in twins)
        /\ storedKeys' \in [KeyNames -> 0..2] /\ keyMap'.map \in [KeyNames -> 0..2]
    BY <2>1 DEF KeyInv, RowsInv, MineHasKey
  <2> QED BY <2>1, <2>2, MergedStep DEF KeyInv
<1>2. CASE \E n \in KeyNames : generateKey(n)
  <2> PICK n \in KeyNames : generateKey(n)
    BY <1>2
  <2>1. /\ storedKeys' = [storedKeys EXCEPT ![n] = 2] /\ mergeUserChannels(storedKeys', chRows, mine) /\ renderChannelList
        /\ keyMap' = NoMap /\ UNCHANGED <<builds, stamped, usedMap>>
    BY Zenon DEF generateKey
  <2>2. storedKeys' \in [KeyNames -> 0..2] /\ (\A k \in KeyNames : storedKeys'[k] = (IF k = n THEN 2 ELSE storedKeys[k]))
    BY <2>1 DEF KeyInv, RowsInv
  <2>3. keyMap'.map \in [KeyNames -> 0..2]
    BY <2>1 DEF NoMap, NoKeys
  <2>4. \A r \in mine : r[2] \in KeyNames
    BY DEF KeyInv, RowsInv, RowsAll
  <2>5. chRows \subseteq RowsAll /\ mine \subseteq chRows /\ (\A r \in mine : storedKeys'[r[2]] # 0 \/ r[2] \in twins)
    BY <2>2, <2>4 DEF KeyInv, RowsInv, MineHasKey
  <2> QED BY <2>1, <2>2, <2>3, <2>5, MergedStep DEF KeyInv
<1>3. CASE \E n \in KeyNames : \E k \in 1..2 : addUserChannel(n, k)
  <2> PICK n \in KeyNames, k \in 1..2 : addUserChannel(n, k)
    BY <1>3
  <2>1. /\ storedKeys' = [storedKeys EXCEPT ![n] = k] /\ keyMap' = NoMap /\ adding' = adding \union {n}
        /\ UNCHANGED <<chRows, mine, sidebar, builds, stamped, usedMap, reloaded, twins>>
    BY Zenon DEF addUserChannel
  <2>2. storedKeys' \in [KeyNames -> 0..2] /\ (\A l \in KeyNames : storedKeys'[l] = (IF l = n THEN k ELSE storedKeys[l])) /\ k # 0
    BY <2>1 DEF KeyInv, RowsInv
  <2>3. keyMap'.map \in [KeyNames -> 0..2]
    BY <2>1 DEF NoMap, NoKeys
  <2>4. \A r \in mine : r[2] \in KeyNames
    BY DEF KeyInv, RowsInv, RowsAll
  <2>5. RowsInv' /\ MapOfStoredKeys' /\ SidebarCurrent'
    BY <2>1, <2>2, <2>3 DEF KeyInv, RowsInv, MapOfStoredKeys, SidebarCurrent
  <2>6. MineHasKey'
    BY <2>1, <2>2, <2>4 DEF KeyInv, MineHasKey
  <2>7. RowForEveryKey'
    BY <2>1, <2>2 DEF KeyInv, RowForEveryKey, Keyed
  <2> QED BY <2>5, <2>6, <2>7 DEF KeyInv
<1>4. CASE \E r \in mine : removeChannel(r)
  BY <1>4, RemovedStep
<1>5. CASE \E a \in listAsks : loadChannelsEnds(a) \/ loadChannelsFails(a)
  BY <1>5, LoadedStep
<1>6. CASE \E b \in builds : buildKeyMap(b)
  <2> PICK b \in builds : buildKeyMap(b)
    BY <1>6
  <2>1. /\ builds' = builds \ {b} /\ keyMap' = [map |-> b, valid |-> TRUE] /\ usedMap' = <<b, b>> /\ Decrypts(b)
        /\ UNCHANGED <<storedKeys, chRows, mine, sidebar, adding, reloaded, twins>>
    BY Zenon DEF buildKeyMap
  <2>2. stamped' \subseteq RowsAll
    BY <2>1, StampsAre DEF KeyInv, RowsInv
  <2> QED BY <2>1, <2>2 DEF KeyInv, RowsInv, MapOfStoredKeys, RowForEveryKey, MineHasKey, SidebarCurrent
<1>7. CASE \E r \in stamped : batchEnds(r)
  <2> PICK r \in stamped : batchEnds(r)
    BY <1>7
  <2>1. /\ chRows' = chRows \union {r} /\ twins' = twins \union Twins(chRows') /\ mine' = mine /\ stamped' = stamped \ {r} /\ renderChannelList
        /\ UNCHANGED <<storedKeys, adding, keyMap, builds, usedMap, reloaded>>
    BY Zenon DEF batchEnds
  <2>2. RowsInv'
    BY <2>1 DEF KeyInv, RowsInv, Twins
  <2> QED BY <2>1, <2>2 DEF KeyInv, MapOfStoredKeys, RowForEveryKey, MineHasKey, SidebarCurrent, renderChannelList
<1>8. CASE reload
  <2>1. UNCHANGED <<storedKeys, chRows, mine, sidebar, adding, keyMap, builds, stamped, usedMap, reloaded, twins>>
    BY <1>8, Zenon DEF reload
  <2> QED BY <2>1 DEF KeyInv, RowsInv, MapOfStoredKeys, RowForEveryKey, MineHasKey, SidebarCurrent
<1>9. CASE liveBatch
  <2>1. UNCHANGED <<storedKeys, chRows, mine, sidebar, adding, keyMap, reloaded, twins>>
    BY <1>9, Zenon DEF liveBatch
  <2>2. stamped' \subseteq RowsAll /\ MapOfStoredKeys' /\ \A b \in builds' : b \in [KeyNames -> 0..2]
    <3>1. CASE mapFits
      <4>1. usedMap' = <<storedKeys, keyMap.map>> /\ Decrypts(keyMap.map) /\ builds' = builds /\ keyMap.map = storedKeys
        BY <1>9, <3>1, Zenon DEF liveBatch, mapFits
      <4> QED BY <4>1, StampsAre DEF KeyInv, RowsInv, MapOfStoredKeys
    <3>2. CASE ~mapFits
      <4>1. builds' = builds \union {storedKeys} /\ UNCHANGED <<usedMap, stamped>>
        BY <1>9, <3>2, Zenon DEF liveBatch
      <4> QED BY <4>1 DEF KeyInv, RowsInv, MapOfStoredKeys
    <3> QED BY <3>1, <3>2
  <2> QED BY <2>1, <2>2 DEF KeyInv, RowsInv, RowForEveryKey, MineHasKey, SidebarCurrent
<1>10. CASE UNCHANGED keyVars
  <2>1. UNCHANGED <<storedKeys, chRows, mine, sidebar, adding, keyMap, builds, stamped, usedMap, reloaded, twins>>
    BY <1>10, Zenon DEF keyVars
  <2> QED BY <2>1 DEF KeyInv, RowsInv, MapOfStoredKeys, RowForEveryKey, MineHasKey, SidebarCurrent
<1> QED BY <1>1, <1>2, <1>3, <1>4, <1>5, <1>6, <1>7, <1>8, <1>9, <1>10 DEF KeyNext

\* The sidebar shows the rows there are; every key has a row and every row
\* that can be removed a key, with the exceptions the properties name
\* (channels.js, mergeUserChannels, loadChannels).
THEOREM KeysThm == KeyInit /\ [][KeyNext]_keyVars => [](MapOfStoredKeys /\ RowForEveryKey /\ MineHasKey /\ SidebarCurrent)
<1>1. KeyInv => MapOfStoredKeys /\ RowForEveryKey /\ MineHasKey /\ SidebarCurrent
  BY DEF KeyInv
<1> QED BY KeyStarts, KeyStepHolds, <1>1, PTL

\* A cache counts a set of the packets the server has, and holds those of
\* them that the key opens.
Stored == {p \in Packets : seenAt[p] # 0}
CacheOK(c) == \E C \in SUBSET Stored : c.count = Cardinality(C) /\ C \intersect opened \subseteq c.ms
CacheInv ==
    /\ seenAt \in [Packets -> 0..2]
    /\ ~lostSome => /\ CacheOK(msgCache) /\ \A f \in fetches : CacheOK(f.cached)
                    /\ answered \intersect opened \subseteq shownMsgs

\* At the start nothing is cached that the server has not.
LEMMA CacheStarts == CacheInit => CacheInv
<1> SUFFICES ASSUME CacheInit PROVE CacheInv
  OBVIOUS
<1>1. CacheOK(msgCache)
  <2>1. msgCache.count = 0 /\ Cardinality({}) = 0
    BY FS_EmptySet DEF CacheInit, NoCache
  <2> QED BY <2>1 DEF CacheOK
<1> QED BY <1>1 DEF CacheInit, CacheInv

\* What the server gets makes no cache wrong.
LEMMA CacheGrows ==
  ASSUME NEW c, CacheOK(c), opened' = opened, Stored \subseteq Stored', c' = c PROVE CacheOK(c)'
<1>1. PICK C \in SUBSET Stored : c.count = Cardinality(C) /\ C \intersect opened \subseteq c.ms
  BY DEF CacheOK
<1>2. C \in SUBSET Stored' /\ C \intersect opened' \subseteq c.ms
  BY <1>1
<1> QED BY <1>1, <1>2 DEF CacheOK

\* A set of as many of the server's packets as there are is all of them.
LEMMA AllCounted == ASSUME NEW C \in SUBSET Stored, Cardinality(C) = Cardinality(Stored) PROVE C = Stored
<1>1. IsFiniteSet(Stored)
  BY KeyCacheAssumption, FS_Subset DEF KeyCacheAssumption, Stored
<1> QED BY <1>1, FS_Subset

\* An answer is decrypted with the key and counts what the server had.
LEMMA AnsweredStep == ASSUME CacheInv, NEW f \in fetches, fetchAnswers(f) PROVE CacheInv'
<1> DEFINE needed == needFullDecrypt(f, Stored)
           isDelta == ~needed /\ f.cached.ms # {} /\ f.cached.lastTs # 0
           newer == {p \in Stored : seenAt[p] > f.cached.lastTs} \intersect opened
           mss == IF isDelta THEN f.cached.ms \union newer ELSE IF Stored = {} THEN f.cached.ms ELSE Stored \intersect opened
<1>1. /\ fetches' = fetches \ {f} /\ shownMsgs' = mss /\ answered' = Stored
      /\ msgCache' = (IF Stored = {} \/ (isDelta /\ \A p \in Stored : seenAt[p] <= f.cached.lastTs) THEN msgCache
                      ELSE [ms |-> mss, lastTs |-> Newest(mss), count |-> Cardinality(Stored)])
      /\ UNCHANGED <<seenAt, opened, lostSome>>
  BY Zenon DEF fetchAnswers, Stored
<1>2. Stored' = Stored
  BY <1>1 DEF Stored
<1>3. ASSUME ~lostSome PROVE Stored \intersect opened \subseteq mss
  <2>1. CASE isDelta
    <3>1. PICK C \in SUBSET Stored : f.cached.count = Cardinality(C) /\ C \intersect opened \subseteq f.cached.ms
      BY <1>3 DEF CacheInv, CacheOK
    <3>2. C = Stored
      BY <2>1, <3>1, AllCounted DEF needFullDecrypt
    <3> QED BY <2>1, <3>1, <3>2
  <2>2. CASE ~isDelta
    BY <2>2
  <2> QED BY <2>1, <2>2
<1> HIDE DEF mss, isDelta, newer, needed
<1>4. ASSUME ~lostSome PROVE CacheOK(msgCache)'
  <2>1. CASE msgCache' = msgCache
    BY <1>1, <1>2, <1>4, <2>1 DEF CacheInv, CacheOK
  <2>2. CASE msgCache' # msgCache
    <3>1. msgCache' = [ms |-> mss, lastTs |-> Newest(mss), count |-> Cardinality(Stored)]
      BY <1>1, <2>2
    <3>2. msgCache'.count = Cardinality(Stored) /\ Stored \intersect opened' \subseteq msgCache'.ms /\ Stored \in SUBSET Stored'
      BY <1>1, <1>2, <1>3, <1>4, <3>1
    <3> QED BY <3>2 DEF CacheOK
  <2> QED BY <2>1, <2>2
<1>5. ASSUME ~lostSome, NEW g \in fetches' PROVE CacheOK(g.cached)'
  BY <1>1, <1>2, <1>5 DEF CacheInv, CacheOK
<1> QED BY <1>1, <1>3, <1>4, <1>5 DEF CacheInv

\* Every step keeps a cached list the messages the key opens of those it
\* counts.
LEMMA CacheStepHolds == CacheInv /\ [CacheNext]_cacheVars => CacheInv'
<1> SUFFICES ASSUME CacheInv, [CacheNext]_cacheVars PROVE CacheInv'
  OBVIOUS
<1>1. CASE \E p \in Packets : serverForgets(p)
  <2> PICK p \in Packets : serverForgets(p)
    BY <1>1
  <2>1. seenAt' = [seenAt EXCEPT ![p] = 0] /\ lostSome'
    BY DEF serverForgets
  <2> QED BY <2>1 DEF CacheInv
<1>2. CASE \E p \in Packets : \E t \in 1..2 : serverHears(p, t)
  <2> PICK p \in Packets, t \in 1..2 : serverHears(p, t)
    BY <1>2
  <2>1. seenAt' = [seenAt EXCEPT ![p] = t] /\ UNCHANGED <<opened, msgCache, fetches, shownMsgs, answered, lostSome>>
    BY Zenon DEF serverHears
  <2>2. seenAt' \in [Packets -> 0..2] /\ Stored \subseteq Stored'
    BY <2>1 DEF CacheInv, Stored
  <2>3. ASSUME ~lostSome PROVE CacheOK(msgCache)'
    BY <2>1, <2>2, <2>3 DEF CacheInv, CacheOK
  <2>4. ASSUME ~lostSome, NEW g \in fetches' PROVE CacheOK(g.cached)'
    BY <2>1, <2>2, <2>4 DEF CacheInv, CacheOK
  <2> QED BY <2>1, <2>2, <2>3, <2>4 DEF CacheInv
<1>3. CASE \E f \in fetches : fetchAnswers(f)
  BY <1>3, AnsweredStep
<1>4. CASE \E f \in fetches : fetchFails(f)
  <2>1. UNCHANGED <<seenAt, opened, msgCache, lostSome>> /\ fetches' \subseteq fetches /\ answered' = {}
    BY <1>4 DEF fetchFails
  <2>2. Stored' = Stored
    BY <2>1 DEF Stored
  <2> QED BY <2>1, <2>2 DEF CacheInv, CacheOK
<1>5. CASE fetchAndDecryptChannel
  <2>1. UNCHANGED <<seenAt, opened, msgCache, shownMsgs, answered, lostSome>>
        /\ fetches' = fetches \union {[cached |-> msgCache, id |-> nFetch']}
    BY <1>5, Zenon DEF fetchAndDecryptChannel
  <2>2. Stored' = Stored
    BY <2>1 DEF Stored
  <2>3. ASSUME ~lostSome, NEW g \in fetches' PROVE CacheOK(g.cached)'
    <3>1. CacheOK(g.cached)
      BY <2>1, <2>3 DEF CacheInv
    <3> QED BY <2>1, <2>2, <3>1 DEF CacheOK
  <2> QED BY <2>1, <2>2, <2>3 DEF CacheInv, CacheOK
<1>6. CASE UNCHANGED cacheVars
  <2>1. UNCHANGED <<seenAt, opened, msgCache, fetches, shownMsgs, answered, lostSome>>
    BY <1>6, Zenon DEF cacheVars
  <2>2. Stored' = Stored
    BY <2>1 DEF Stored
  <2> QED BY <2>1, <2>2 DEF CacheInv, CacheOK
<1> QED BY <1>1, <1>2, <1>3, <1>4, <1>5, <1>6 DEF CacheNext

\* As long as the server forgets nothing, every message the key opens is
\* shown, whatever was cached and whichever calls overlap (channels.js,
\* fetchAndDecryptChannel).
THEOREM CacheThm == CacheInit /\ [][CacheNext]_cacheVars => []AllDecrypted
<1>1. CacheInv => AllDecrypted
  BY DEF CacheInv, AllDecrypted
<1> QED BY CacheStarts, CacheStepHolds, <1>1, PTL

KnownInv == knownLoading \in BOOLEAN /\ knownAsked = (IF knownLoading THEN 1 ELSE 0)

\* One request for the catalogue at a time (channels.js, loadKnownChannels).
THEOREM CatalogueThm == KnownInit /\ [][KnownNext]_knownVars => []OneCatalogueLoad
<1>1. KnownInit => KnownInv
  BY DEF KnownInit, KnownInv
<1>2. KnownInv /\ [KnownNext]_knownVars => KnownInv'
  <2> SUFFICES ASSUME KnownInv, [KnownNext]_knownVars PROVE KnownInv'
    OBVIOUS
  <2>1. CASE loadKnownChannels
    <3>1. CASE UNCHANGED <<knownLoading, knownAsked>>
      BY <3>1 DEF KnownInv
    <3>2. CASE ~(knownLoading \/ knownState = "entries" \/ (knownState = "error" /\ ~backedOff))
      <4>1. ~knownLoading /\ knownLoading' = TRUE /\ knownAsked' = knownAsked + 1
        BY <2>1, <3>2, Zenon DEF loadKnownChannels
      <4> QED BY <4>1 DEF KnownInv
    <3> QED BY <2>1, <3>1, <3>2, Zenon DEF loadKnownChannels
  <2>2. CASE knownAnswers
    <3>1. knownLoading /\ knownLoading' = FALSE /\ knownAsked' = knownAsked - 1
      BY <2>2, Zenon DEF knownAnswers
    <3>2. knownAsked = 1
      BY <3>1, Zenon DEF KnownInv
    <3>3. knownAsked' = 0
      BY <3>1, <3>2
    <3> QED BY <3>1, <3>3, Zenon DEF KnownInv
  <2>3. CASE renderKnownChannelsSection \/ knownToggle \/ knownComesUp \/ OneMinute \/ UNCHANGED knownVars
    <3>1. UNCHANGED <<knownLoading, knownAsked>>
      BY <2>3, Zenon DEF knownVars, renderKnownChannelsSection, knownToggle, knownComesUp, OneMinute
    <3> QED BY <3>1 DEF KnownInv
  <2> QED BY <2>1, <2>2, <2>3, Zenon DEF KnownNext
<1>3. KnownInv => OneCatalogueLoad
  BY DEF KnownInv, OneCatalogueLoad
<1> QED BY <1>1, <1>2, <1>3, PTL

-------------------------------------------------------------------------------
\* The messages, the sidebar, the cache and the catalogue side by side.
ChannelsSpec ==
    /\ ChanInit /\ [][ChanNext]_chanVars /\ KeyInit /\ [][KeyNext]_keyVars
    /\ CacheInit /\ [][CacheNext]_cacheVars /\ KnownInit /\ [][KnownNext]_knownVars

\* The channels page shows what the server, the socket and the keys give it,
\* with the exceptions the properties name (channels.js).
THEOREM ChannelsExactThm == ChannelsSpec => []ChannelsExact
<1>1. NoLiveLost /\ NoDup /\ MessagesOfSelected /\ RegionSettled /\ MapOfStoredKeys /\ RowForEveryKey /\ MineHasKey
        /\ SidebarCurrent /\ AllDecrypted /\ OneCatalogueLoad => ChannelsExact
  BY DEF ChannelsExact
<1> QED BY ViewThm, KeysThm, CacheThm, CatalogueThm, <1>1, PTL DEF ChannelsSpec
==============================================================================
