-------------------------- MODULE PaperRun_proofs --------------------------
(***************************************************************************)
(* The safety properties of PaperRun and its refinement of RunLifecycle,   *)
(* for any runs, requests, strategies and bounds.  One invariant carries   *)
(* them all: Sound says where a request stands with its run, Whole what    *)
(* the parts of a run have to do with each other.                          *)
(***************************************************************************)
EXTENDS PaperRun, TLAPS

Rows == {"none", "RUNNING", "STOPPED", "HALTED", "FAILED", "INTERRUPTED", "deleted"}
Places == {"none", "top", "poll", "tick", "tickOrder", "bar", "barEval", "halt", "halting",
           "haltStop", "end", "dead"}
Starting == {"price", "commit", "create", "register", "schedule"}
Stopping == {"unschedule", "stopRunner", "save"}

Typed ==
  /\ row \in [Run -> Rows] /\ saved \in [Run -> Nat]
  /\ up \in BOOLEAN
  /\ runner \in [Run -> {"none", "RUNNING", "STOPPED", "FAILED"}]
  /\ held \in [Run -> BOOLEAN] /\ fills \in [Run -> Nat] /\ late \in [Run -> Nat]
  /\ registry \subseteq Run /\ threads \subseteq Run /\ flag \in [Run -> BOOLEAN]
  /\ loop \in [Run -> Places]
  /\ pc \in [Worker -> {"idle"} \cup Starting \cup Stopping]
  /\ arg \in [Worker -> Run \cup {NoRun}] /\ found \in [Worker -> BOOLEAN]

\* A start has its run for itself, and no row before its commit; a request
\* that stops a run has a row.
Sound(w) ==
  /\ pc[w] # "idle" => arg[w] \in Run
  /\ pc[w] \in {"price", "commit"} => row[arg[w]] = "none"
  /\ pc[w] \in {"create", "register", "schedule"} \cup Stopping => row[arg[w]] # "none"
  /\ pc[w] \in Starting =>
       /\ loop[arg[w]] = "none"
       /\ \A v \in Worker : pc[v] \in Starting /\ arg[v] = arg[w] => v = w
  /\ pc[w] \in {"register", "schedule"} => runner[arg[w]] # "none"
  /\ pc[w] = "schedule" /\ runner[arg[w]] = "RUNNING" => arg[w] \in registry

\* A stop request that found the runner is about to save its figures.
Saving(r) == \E w \in Worker : arg[w] = r /\ pc[w] = "save" /\ found[w]

Whole(r) ==
  /\ loop[r] # "none" => row[r] # "none"
  /\ loop[r] = "none" => fills[r] = 0 /\ ~held[r] /\ late[r] = 0
  /\ Alive(r) => /\ runner[r] # "none"
                 /\ runner[r] = "RUNNING" => r \in registry
                 /\ ~flag[r] => r \in threads
  /\ r \in registry => runner[r] # "none"
  /\ runner[r] # "none" => (held[r] <=> fills[r] % 2 = 1)
  /\ late[r] = 0 \/ (late[r] = 1 /\ runner[r] # "RUNNING" /\ loop[r] \in {"bar", "top", "end", "dead"})
  /\ row[r] = "HALTED" => loop[r] \in {"haltStop", "dead"}
  /\ loop[r] \in {"poll", "halt"} /\ runner[r] # "RUNNING" => row[r] # "RUNNING" \/ Saving(r)
  /\ loop[r] = "halting" =>
       runner[r] = "RUNNING" \/ saved[r] = fills[r] \/ row[r] = "deleted" \/ Saving(r)

\* Nothing runs while the process is down.
Down == ~up => (\A w \in Worker : pc[w] = "idle") /\ (\A r \in Run : ~Alive(r))

RunInv ==
  Typed /\ Down /\ NoPhantomRun /\ (\A w \in Worker : Sound(w)) /\ (\A r \in Run : Whole(r))

-----------------------------------------------------------------------------
(* In the beginning nothing runs.                                          *)
LEMMA InitRun == Init => RunInv
  BY PaperRunAssumption DEF Init, RunInv, Typed, Down, NoPhantomRun, Sound, Whole, Alive, Rows,
     Places, Starting, Stopping

(* A step of the polling thread of r keeps the invariant if it keeps what  *)
(* it says of r.                                                           *)
LEMMA LoopFrame ==
  ASSUME RunInv, NEW r \in Run, Alive(r), UNCHANGED <<strategies, up, tables, requests>>,
         row' \in [Run -> Rows], saved' \in [Run -> Nat], loop' \in [Run -> Places],
         runner' \in [Run -> {"none", "RUNNING", "STOPPED", "FAILED"}],
         held' \in [Run -> BOOLEAN], fills' \in [Run -> Nat], late' \in [Run -> Nat],
         \A q \in Run \ {r} : /\ row'[q] = row[q] /\ saved'[q] = saved[q] /\ loop'[q] = loop[q]
                              /\ runner'[q] = runner[q] /\ held'[q] = held[q]
                              /\ fills'[q] = fills[q] /\ late'[q] = late[q],
         row'[r] \in {row[r], "HALTED"}, runner'[r] # "none", loop'[r] # "none", Whole(r)'
  PROVE  RunInv'
<1>0. UNCHANGED <<registry, threads, flag, pc, arg, found>>
  BY DEF tables, requests
<1>1. Typed'
  BY <1>0 DEF RunInv, Typed
<1>2. Down'
  BY DEF RunInv, Down
<1>3. NoPhantomRun'
  BY <1>0 DEF RunInv, NoPhantomRun, Typed
<1>4. row[r] # "none" /\ row'[r] # "none"
  BY DEF RunInv, Whole, Alive
<1>5. ASSUME NEW w \in Worker PROVE Sound(w)'
  <2>1. CASE arg[w] = r
    BY <1>0, <1>4, <2>1 DEF RunInv, Sound, Alive, Starting, Stopping
  <2>2. CASE arg[w] # r
    BY <1>0, <2>2 DEF RunInv, Sound, Starting, Stopping
  <2> QED
    BY <2>1, <2>2
<1>6. ASSUME NEW q \in Run PROVE Whole(q)'
  <2>1. CASE q # r
    BY <1>0, <2>1 DEF RunInv, Whole, Alive, Saving
  <2> QED
    BY <2>1
<1> QED
  BY <1>1, <1>2, <1>3, <1>5, <1>6 DEF RunInv

(* Every step of a polling thread keeps the invariant.                     *)
LEMMA LoopStep ==
  ASSUME RunInv, NEW r \in Run, Loop(r)
  PROVE  RunInv'
<1>0. Typed /\ Whole(r)
  BY DEF RunInv
<1>1. Alive(r)
  BY DEF Loop, LoopTop, LoopPoll, LoopTick, LoopTickOrder, LoopBar, LoopBarEval, LoopEnd, LoopHalt,
         LoopHalting, LoopHaltStop, Alive
<1> USE DEF LoopTo, records, runners, tables, requests
<1>2. ASSUME NEW place \in Places \ {"none"}, LoopTo(r, place),
             UNCHANGED <<records, up, runners, tables, requests>>,
             place \in {"tick", "tickOrder", "barEval", "poll", "halt", "halting"} => late[r] = 0,
             place = "poll" => runner[r] = "RUNNING",
             place = "halt" => loop[r] = "poll",
             place = "halting" => loop[r] = "halt" /\ row[r] = "RUNNING",
             row[r] = "HALTED" => place \in {"haltStop", "dead"},
             place \in {"bar", "top", "end", "dead"} \/ late[r] = 0
      PROVE  RunInv'
  <2>1. loop'[r] = place
    BY <1>0, <1>2 DEF Typed
  <2>2. Whole(r)'
    BY <1>0, <1>1, <1>2, <2>1 DEF Whole, Alive, Saving
  <2> QED
    BY <1>0, <1>1, <1>2, <2>1, <2>2, LoopFrame DEF Typed, Whole, Alive
<1>3. CASE LoopTop(r)
  BY <1>0, <1>2, <1>3 DEF LoopTop, Whole, Places
<1>4. CASE LoopPoll(r)
  BY <1>0, <1>2, <1>4 DEF LoopPoll, Whole, Places
<1>5. CASE LoopTick(r)
  BY <1>0, <1>2, <1>5 DEF LoopTick, Whole, Places
<1>6. CASE LoopBar(r)
  BY <1>0, <1>2, <1>6 DEF LoopBar, Whole, Places
<1>7. CASE LoopHalt(r)
  <2>1. late[r] = 0 /\ loop[r] = "halt" /\ row[r] # "HALTED"
    BY <1>0, <1>7 DEF LoopHalt, Whole
  <2>2. UNCHANGED <<records, up, runners, tables, requests>>
    BY <1>7 DEF LoopHalt
  <2>3. CASE row[r] = "RUNNING"
    BY <1>2, <1>7, <2>1, <2>2, <2>3 DEF LoopHalt, Places
  <2>4. CASE row[r] # "RUNNING"
    BY <1>2, <1>7, <2>1, <2>2, <2>4 DEF LoopHalt, Places
  <2> QED
    BY <2>3, <2>4
<1>8. ASSUME NEW place \in {"bar", "top"}, loop[r] \in {"tickOrder", "barEval"}, LoopTo(r, place),
             Submit(r), UNCHANGED <<records, up, runner, tables, requests>>
      PROVE  RunInv'
  <2>1. /\ loop' = [loop EXCEPT ![r] = place] /\ loop'[r] = place
        /\ \A q \in Run \ {r} : loop'[q] = loop[q]
    BY <1>0, <1>8 DEF Typed
  <2>2. late[r] = 0 /\ row[r] # "HALTED" /\ row[r] # "none" /\ runner[r] # "none"
    BY <1>0, <1>1, <1>8 DEF Whole, Alive
  <2>3. CASE UNCHANGED <<fills, held, late>>
    BY <1>2, <1>8, <2>2, <2>3 DEF Places
  <2>4. CASE Fill(r)
    <3>1. /\ fills'[r] = fills[r] + 1 /\ held'[r] = ~held[r]
          /\ late'[r] = IF runner[r] # "RUNNING" THEN late[r] + 1 ELSE late[r]
          /\ \A q \in Run \ {r} : fills'[q] = fills[q] /\ held'[q] = held[q] /\ late'[q] = late[q]
      BY <1>0, <2>4 DEF Fill, Typed
    <3>2. fills' \in [Run -> Nat] /\ held' \in [Run -> BOOLEAN] /\ late' \in [Run -> Nat]
      BY <1>0, <2>4 DEF Fill, Typed
    <3>3. held'[r] <=> fills'[r] % 2 = 1
      <4>1. fills[r] \in Nat /\ (held[r] <=> fills[r] % 2 = 1)
        BY <1>0, <2>2 DEF Typed, Whole
      <4>2. (fills[r] + 1) % 2 = 1 <=> ~(fills[r] % 2 = 1)
        BY <4>1
      <4> QED
        BY <3>1, <4>1, <4>2
    <3>4. Whole(r)'
      BY <1>0, <1>1, <1>8, <2>1, <2>2, <3>1, <3>3 DEF Whole, Alive, Saving
    <3> QED
      <4>1. loop' \in [Run -> Places] /\ loop'[r] # "none"
        BY <1>0, <2>1 DEF Typed, Places
      <4>2. UNCHANGED <<row, saved, strategies, up, runner, tables, requests>>
        BY <1>8
      <4> QED
        BY <1>0, <1>1, <2>1, <2>2, <3>1, <3>2, <3>4, <4>1, <4>2, LoopFrame DEF Typed
  <2> QED
    BY <1>8, <2>3, <2>4 DEF Submit
<1>9. CASE LoopTickOrder(r)
  BY <1>8, <1>9 DEF LoopTickOrder
<1>10. ASSUME NEW place \in {"top", "dead"}, NEW state \in {"STOPPED", "FAILED"}, LoopTo(r, place),
              runner' = [runner EXCEPT ![r] = state], loop[r] \in {"barEval", "end", "haltStop"},
              place = "top" => loop[r] = "barEval",
              UNCHANGED <<records, up, held, fills, late, tables, requests>>
       PROVE  RunInv'
  <2>1. /\ loop'[r] = place /\ runner'[r] = state
        /\ \A q \in Run \ {r} : loop'[q] = loop[q] /\ runner'[q] = runner[q]
    BY <1>0, <1>10 DEF Typed
  <2>2. Whole(r)'
    BY <1>0, <1>1, <1>10, <2>1 DEF Whole, Alive, Saving
  <2> QED
    BY <1>0, <1>1, <1>10, <2>1, <2>2, LoopFrame DEF Typed, Places
<1>11. CASE LoopBarEval(r)
  BY <1>8, <1>10, <1>11 DEF LoopBarEval
<1>12. CASE LoopEnd(r)
  <2>1. CASE runner[r] = "RUNNING"
    BY <1>10, <1>12, <2>1 DEF LoopEnd, Stopped
  <2>2. CASE runner[r] # "RUNNING"
    BY <1>0, <1>2, <1>12, <2>2 DEF LoopEnd, Whole, Places
  <2> QED
    BY <2>1, <2>2
<1>13. CASE LoopHaltStop(r)
  BY <1>10, <1>13 DEF LoopHaltStop, Stopped
<1>14. CASE LoopHalting(r)
  <2>1. late[r] = 0 /\ loop[r] = "halting" /\ row[r] # "HALTED"
    BY <1>0, <1>14 DEF LoopHalting, Whole
  <2>2. CASE row[r] = "deleted"
    BY <1>2, <1>14, <2>1, <2>2 DEF LoopHalting, Places
  <2>3. CASE row[r] # "deleted"
    <3>1. /\ loop'[r] = "haltStop" /\ row'[r] = "HALTED"
          /\ \A q \in Run \ {r} : loop'[q] = loop[q] /\ row'[q] = row[q] /\ saved'[q] = saved[q]
          /\ row' \in [Run -> Rows] /\ saved' \in [Run -> Nat] /\ loop' \in [Run -> Places]
      BY <1>0, <1>14, <2>3 DEF LoopHalting, Typed, Rows, Places
    <3>2. UNCHANGED <<strategies, up, runner, held, fills, late, registry, threads, flag, pc, arg, found>>
      BY <1>14 DEF LoopHalting
    <3>3. Whole(r)'
      BY <1>0, <1>1, <2>1, <3>1, <3>2 DEF Whole, Alive, Saving
    <3> QED
      BY <1>0, <1>1, <3>1, <3>2, <3>3, LoopFrame DEF Typed, Whole
  <2> QED
    BY <2>2, <2>3
<1> QED
  BY <1>3, <1>4, <1>5, <1>6, <1>7, <1>9, <1>11, <1>12, <1>13, <1>14 DEF Loop

(* A step of request w changes no other request; it may change the run it  *)
(* works on, and has the invariant to show for that run and itself only.   *)
LEMMA RequestFrame ==
  ASSUME RunInv, up, NEW w \in Worker, NEW r \in Run,
         UNCHANGED <<strategies, up, held, fills, late>>, Typed',
         pc[w] # "idle" => arg[w] = r,
         pc'[w] # "idle" => arg'[w] = r,
         pc'[w] \in Starting => pc[w] \in Starting \/ \A v \in Worker : arg[v] # r,
         \A v \in Worker \ {w} : pc'[v] = pc[v] /\ arg'[v] = arg[v] /\ found'[v] = found[v],
         \A q \in Run \ {r} :
           /\ row'[q] = row[q] /\ saved'[q] = saved[q] /\ loop'[q] = loop[q]
           /\ runner'[q] = runner[q] /\ flag'[q] = flag[q]
           /\ q \in threads' <=> q \in threads
           /\ q \in registry' => q \in registry
           /\ q \in registry /\ runner[q] = "RUNNING" => q \in registry',
         row'[r] = row[r] \/ (row[r] = "none" /\ pc[w] \in Starting) \/ row[r] # "none",
         row[r] # "none" => row'[r] # "none",
         row[r] = "none" /\ row'[r] # "none" => pc[w] = "commit",
         loop'[r] = loop[r] \/ pc[w] = "schedule",
         runner[r] # "none" => runner'[r] # "none",
         runner'[r] = "RUNNING" => runner[r] = "RUNNING" \/ pc[w] = "create",
         r \in registry /\ runner[r] = "RUNNING" => r \in registry',
         pc'[w] # "idle" => Sound(w)',
         row'[r] = "RUNNING" /\ StrategyOf[r] \in strategies =>
           runner'[r] # "none" \/ \E v \in Worker : arg'[v] = r /\ pc'[v] = "create",
         Whole(r)'
  PROVE  RunInv'
<1> USE DEF Starting, Stopping
<1>1. Down'
  BY DEF Down
<1>2. ASSUME NEW v \in Worker PROVE Sound(v)'
  <2>1. CASE v = w /\ pc'[w] = "idle"
    BY <2>1 DEF Sound
  <2>2. CASE v # w /\ pc[v] # "idle" /\ arg[v] # r
    BY <2>2 DEF RunInv, Sound
  <2>3. CASE v # w /\ pc[v] # "idle" /\ arg[v] = r
    <3>1. Sound(v) /\ Sound(w) /\ arg[v] \in Run
      BY <2>3 DEF RunInv, Sound
    <3>2. pc[v] \in Starting => pc[w] \notin Starting /\ pc'[w] \notin Starting
      BY <2>3, <3>1 DEF Sound
    <3> QED
      BY <2>3, <3>1, <3>2 DEF Sound
  <2>4. CASE v # w /\ pc[v] = "idle"
    BY <2>4 DEF Sound
  <2> QED
    BY <2>1, <2>2, <2>3, <2>4
<1>3. ASSUME NEW q \in Run PROVE Whole(q)'
  <2>1. CASE q # r
    <3>1. Saving(q) => Saving(q)'
      BY <2>1 DEF Saving
    <3> QED
      BY <2>1, <3>1 DEF RunInv, Whole, Alive
  <2> QED
    BY <2>1
<1>4. NoPhantomRun'
  <2> SUFFICES ASSUME NEW q \in Run, row'[q] = "RUNNING", StrategyOf[q] \in strategies
               PROVE  runner'[q] # "none" \/ \E v \in Worker : arg'[v] = q /\ pc'[v] = "create"
    BY DEF NoPhantomRun
  <2>1. CASE q # r
    BY <2>1 DEF RunInv, NoPhantomRun
  <2> QED
    BY <2>1
<1> QED
  BY <1>1, <1>2, <1>3, <1>4 DEF RunInv

(* The steps that start a run keep the invariant.                          *)
LEMMA StartStep ==
  ASSUME RunInv, NEW w \in Worker,
         \/ \E r \in Run : Start(w, r)
         \/ StartPrice(w) \/ StartCommit(w) \/ StartCreate(w) \/ StartRegister(w)
         \/ StartSchedule(w)
  PROVE  RunInv'
<1>0. Typed /\ Sound(w) /\ NoRun \notin Run
  BY PaperRunAssumption DEF RunInv
<1> USE DEF Goto, Return, LoopTo, records, runners, tables, polling, requests, Starting, Stopping,
            Rows, Places
<1>1. CASE \E r \in Run : Start(w, r)
  <2>1. PICK r \in Run : Start(w, r)
    BY <1>1
  <2>2. /\ pc'[w] = "price" /\ arg'[w] = r /\ found'[w] = found[w]
        /\ \A v \in Worker \ {w} : pc'[v] = pc[v] /\ arg'[v] = arg[v] /\ found'[v] = found[v]
    BY <1>0, <2>1 DEF Start, Typed
  <2>3. Typed'
    BY <1>0, <2>1 DEF Start, Typed
  <2>4. Whole(r) /\ row[r] = "none" /\ loop[r] = "none"
    BY <2>1 DEF Start, RunInv, Whole
  <2>5. Whole(r)'
    BY <2>1, <2>2, <2>4 DEF Start, Whole, Alive, Saving
  <2>6. Sound(w)'
    BY <2>1, <2>2, <2>4 DEF Start, Sound
  <2> QED
    BY <2>1, <2>2, <2>3, <2>4, <2>5, <2>6, RequestFrame DEF Start
<1>2. CASE StartPrice(w)
  <2>1. PICK r \in Run : arg[w] = r
    BY <1>0, <1>2 DEF StartPrice, Sound
  <2>2. /\ pc'[w] \in {"commit", "idle"} /\ (pc'[w] = "commit" => arg'[w] = r)
        /\ \A v \in Worker \ {w} : pc'[v] = pc[v] /\ arg'[v] = arg[v] /\ found'[v] = found[v]
    BY <1>0, <1>2, <2>1 DEF StartPrice, Typed
  <2>3. Typed'
    BY <1>0, <1>2 DEF StartPrice, Typed
  <2>4. Whole(r) /\ row[r] = "none" /\ loop[r] = "none" /\ pc[w] = "price"
    BY <1>0, <1>2, <2>1 DEF StartPrice, RunInv, Whole, Sound
  <2>5. Whole(r)'
    BY <1>2, <2>2, <2>4 DEF StartPrice, Whole, Alive, Saving
  <2>6. pc'[w] # "idle" => Sound(w)'
    BY <1>0, <1>2, <2>1, <2>2, <2>4 DEF StartPrice, Sound
  <2>7. up
    BY <1>2 DEF StartPrice, RunInv, Down
  <2> QED
    BY <1>2, <2>1, <2>2, <2>3, <2>4, <2>5, <2>6, <2>7, RequestFrame DEF StartPrice
<1>3. CASE StartCommit(w)
  <2>1. PICK r \in Run : arg[w] = r
    BY <1>0, <1>3 DEF StartCommit, Sound
  <2>2. /\ pc'[w] = "create" /\ arg'[w] = r /\ row'[r] = "RUNNING"
        /\ \A v \in Worker \ {w} : pc'[v] = pc[v] /\ arg'[v] = arg[v] /\ found'[v] = found[v]
        /\ \A q \in Run \ {r} : row'[q] = row[q]
    BY <1>0, <1>3, <2>1 DEF StartCommit, Typed
  <2>3. Typed'
    BY <1>0, <1>3 DEF StartCommit, Typed
  <2>4. Whole(r) /\ row[r] = "none" /\ loop[r] = "none" /\ pc[w] = "commit"
    BY <1>0, <1>3, <2>1 DEF StartCommit, RunInv, Whole, Sound
  <2>5. Whole(r)'
    BY <1>3, <2>2, <2>4 DEF StartCommit, Whole, Alive, Saving
  <2>6. Sound(w)'
    BY <1>0, <1>3, <2>1, <2>2, <2>4 DEF StartCommit, Sound
  <2>7. up
    BY <1>3 DEF StartCommit, RunInv, Down
  <2> QED
    BY <1>3, <2>1, <2>2, <2>3, <2>4, <2>5, <2>6, <2>7, RequestFrame DEF StartCommit
<1>4. CASE StartCreate(w)
  <2>1. PICK r \in Run : arg[w] = r
    BY <1>0, <1>4 DEF StartCreate, Sound
  <2>2. /\ \/ pc'[w] = "register" /\ arg'[w] = r /\ runner'[r] = "RUNNING"
           \/ pc'[w] = "idle" /\ StrategyOf[r] \notin strategies /\ runner' = runner
        /\ \A v \in Worker \ {w} : pc'[v] = pc[v] /\ arg'[v] = arg[v] /\ found'[v] = found[v]
        /\ \A q \in Run \ {r} : runner'[q] = runner[q]
    BY <1>0, <1>4, <2>1 DEF StartCreate, Typed
  <2>3. Typed'
    BY <1>0, <1>4 DEF StartCreate, Typed
  <2>4. Whole(r) /\ row[r] # "none" /\ loop[r] = "none" /\ pc[w] = "create"
    BY <1>0, <1>4, <2>1 DEF StartCreate, RunInv, Whole, Sound
  <2>5. UNCHANGED <<row, saved, strategies, up, held, fills, late, registry, threads, flag, loop,
                    failures, found>>
    BY <1>4 DEF StartCreate
  <2>6. fills[r] = 0 /\ ~held[r] /\ late[r] = 0
    BY <2>4 DEF Whole
  <2>7. Whole(r)'
    <3>1. CASE runner' = runner
      BY <2>2, <2>4, <2>5, <3>1 DEF Whole, Alive, Saving
    <3>2. CASE runner'[r] = "RUNNING"
      BY <2>4, <2>5, <2>6, <3>2 DEF Whole, Alive, Saving
    <3> QED
      BY <2>2, <3>1, <3>2
  <2>8. pc'[w] # "idle" => Sound(w)'
    BY <1>0, <2>1, <2>2, <2>4, <2>5 DEF Sound
  <2>9. up
    BY <1>4 DEF StartCreate, RunInv, Down
  <2> QED
    BY <2>1, <2>2, <2>3, <2>4, <2>5, <2>7, <2>8, <2>9, RequestFrame
<1>5. CASE StartRegister(w)
  <2>1. PICK r \in Run : arg[w] = r
    BY <1>0, <1>5 DEF StartRegister, Sound
  <2>2. /\ pc'[w] = "schedule" /\ arg'[w] = r /\ pc[w] = "register"
        /\ \A v \in Worker \ {w} : pc'[v] = pc[v] /\ arg'[v] = arg[v] /\ found'[v] = found[v]
        /\ registry' = {q \in registry : runner[q] \notin Terminal} \cup {r}
        /\ UNCHANGED <<row, saved, strategies, up, runner, held, fills, late, threads, flag, loop>>
    BY <1>0, <1>5, <2>1 DEF StartRegister, Typed
  <2>3. Typed'
    BY <1>0, <1>5, <2>1, <2>2 DEF StartRegister, Typed
  <2>4. Whole(r) /\ row[r] # "none" /\ loop[r] = "none" /\ runner[r] # "none"
    BY <1>0, <2>1, <2>2 DEF RunInv, Whole, Sound
  <2>5. Whole(r)'
    BY <2>2, <2>4 DEF Whole, Alive, Saving
  <2>6. Sound(w)'
    BY <1>0, <2>1, <2>2, <2>4 DEF Sound
  <2>7. up
    BY <2>2 DEF RunInv, Down
  <2> QED
    BY <2>1, <2>2, <2>3, <2>4, <2>5, <2>6, <2>7, RequestFrame DEF Terminal
<1>6. CASE StartSchedule(w)
  <2>1. PICK r \in Run : arg[w] = r
    BY <1>0, <1>6 DEF StartSchedule, Sound
  <2>2. /\ pc'[w] = "idle" /\ pc[w] = "schedule" /\ threads' = threads \cup {r}
        /\ \A v \in Worker \ {w} : pc'[v] = pc[v] /\ arg'[v] = arg[v] /\ found'[v] = found[v]
        /\ loop'[r] \in {"top", "dead"} /\ row'[r] \in {row[r], "FAILED"}
        /\ \A q \in Run \ {r} : loop'[q] = loop[q] /\ row'[q] = row[q]
        /\ UNCHANGED <<saved, strategies, up, runner, held, fills, late, registry, flag>>
    BY <1>0, <1>6, <2>1 DEF StartSchedule, Typed
  <2>3. Typed'
    BY <1>0, <1>6, <2>1 DEF StartSchedule, Typed
  <2>4. Whole(r) /\ row[r] # "none" /\ loop[r] = "none" /\ runner[r] # "none"
        /\ (runner[r] = "RUNNING" => r \in registry)
    BY <1>0, <2>1, <2>2 DEF RunInv, Whole, Sound
  <2>5. Whole(r)'
    BY <2>2, <2>4 DEF Whole, Alive, Saving
  <2>6. up
    BY <2>2 DEF RunInv, Down
  <2> QED
    BY <2>1, <2>2, <2>3, <2>4, <2>5, <2>6, RequestFrame
<1> QED
  BY <1>1, <1>2, <1>3, <1>4, <1>5, <1>6

(* The steps that stop a run keep the invariant.                           *)
LEMMA StopStep ==
  ASSUME RunInv, NEW w \in Worker,
         \/ \E r \in Run : Stop(w, r)
         \/ StopSchedule(w) \/ StopRunner(w) \/ StopSave(w)
  PROVE  RunInv'
<1>0. Typed /\ Sound(w) /\ NoRun \notin Run
  BY PaperRunAssumption DEF RunInv
<1> USE DEF Goto, Return, records, runners, tables, polling, requests, Starting, Stopping,
            Rows, Places
<1>1. CASE \E r \in Run : Stop(w, r)
  <2>1. PICK r \in Run : Stop(w, r)
    BY <1>1
  <2>2. /\ pc'[w] = "unschedule" /\ arg'[w] = r /\ found'[w] = found[w]
        /\ \A v \in Worker \ {w} : pc'[v] = pc[v] /\ arg'[v] = arg[v] /\ found'[v] = found[v]
    BY <1>0, <2>1 DEF Stop, Typed
  <2>3. Typed'
    BY <1>0, <2>1 DEF Stop, Typed
  <2>4. Whole(r) /\ row[r] # "none" /\ pc[w] = "idle"
    BY <2>1 DEF Stop, RunInv
  <2>5. Saving(r) => Saving(r)'
    BY <2>2, <2>4 DEF Saving
  <2>6. Whole(r)'
    BY <2>1, <2>4, <2>5 DEF Stop, Whole, Alive
  <2>7. Sound(w)'
    BY <2>1, <2>2, <2>4 DEF Stop, Sound
  <2>8. row[r] = "RUNNING" /\ StrategyOf[r] \in strategies =>
          runner[r] # "none" \/ \E v \in Worker : arg'[v] = r /\ pc'[v] = "create"
    BY <2>1, <2>2, <2>4 DEF Stop, RunInv, NoPhantomRun
  <2> QED
    BY <2>1, <2>2, <2>3, <2>4, <2>6, <2>7, <2>8, RequestFrame DEF Stop
<1>2. ASSUME NEW r \in Run, arg[w] = r, pc[w] \in Stopping,
             UNCHANGED <<strategies, up, held, fills, late, loop, registry>>, Typed',
             pc'[w] # "idle" => pc'[w] \in Stopping /\ arg'[w] = r,
             \A v \in Worker \ {w} : pc'[v] = pc[v] /\ arg'[v] = arg[v] /\ found'[v] = found[v],
             \A q \in Run \ {r} : /\ row'[q] = row[q] /\ saved'[q] = saved[q]
                                  /\ runner'[q] = runner[q] /\ flag'[q] = flag[q]
                                  /\ q \in threads' <=> q \in threads,
             row'[r] \in {row[r], "STOPPED"},
             runner'[r] = runner[r] \/ (r \in registry /\ runner'[r] = "STOPPED"),
             Whole(r)'
      PROVE  RunInv'
  <2>1. row[r] # "none" /\ up
    BY <1>0, <1>2 DEF RunInv, Down, Sound
  <2>2. runner[r] # "none" => runner'[r] # "none"
    BY <1>2
  <2>3. pc'[w] # "idle" => Sound(w)'
    BY <1>2, <2>1 DEF Sound
  <2>4. row'[r] = "RUNNING" /\ StrategyOf[r] \in strategies =>
          runner'[r] # "none" \/ \E v \in Worker : arg'[v] = r /\ pc'[v] = "create"
    BY <1>2, <2>1, <2>2 DEF RunInv, NoPhantomRun
  <2> QED
    BY <1>2, <2>1, <2>2, <2>3, <2>4, RequestFrame
<1>3. CASE StopSchedule(w)
  <2>1. PICK r \in Run : arg[w] = r
    BY <1>0, <1>3 DEF StopSchedule, Sound
  <2>2. /\ pc'[w] = "stopRunner" /\ arg'[w] = r /\ pc[w] = "unschedule"
        /\ \A v \in Worker \ {w} : pc'[v] = pc[v] /\ arg'[v] = arg[v] /\ found'[v] = found[v]
        /\ threads' = threads \ {r} /\ (r \in threads => flag'[r]) /\ (r \notin threads => flag' = flag)
        /\ \A q \in Run \ {r} : flag'[q] = flag[q]
        /\ UNCHANGED <<row, saved, strategies, up, runner, held, fills, late, registry, loop>>
    BY <1>0, <1>3, <2>1 DEF StopSchedule, Typed
  <2>3. Typed'
    BY <1>0, <1>3 DEF StopSchedule, Typed
  <2>4. Saving(r) => Saving(r)'
    BY <2>2 DEF Saving
  <2>5. Whole(r)
    BY DEF RunInv
  <2>6. Whole(r)'
    BY <2>2, <2>4, <2>5 DEF Whole, Alive
  <2> QED
    BY <1>2, <2>1, <2>2, <2>3, <2>6
<1>4. CASE StopRunner(w)
  <2>1. PICK r \in Run : arg[w] = r
    BY <1>0, <1>4 DEF StopRunner, Sound
  <2>2. /\ pc'[w] = "save" /\ arg'[w] = r /\ pc[w] = "stopRunner" /\ found'[w] = (r \in registry)
        /\ \A v \in Worker \ {w} : pc'[v] = pc[v] /\ arg'[v] = arg[v] /\ found'[v] = found[v]
        /\ (r \in registry => runner'[r] = "STOPPED") /\ (r \notin registry => runner' = runner)
        /\ \A q \in Run \ {r} : runner'[q] = runner[q]
        /\ UNCHANGED <<row, saved, strategies, up, held, fills, late, registry, threads, flag, loop>>
    BY <1>0, <1>4, <2>1 DEF StopRunner, Stopped, Typed
  <2>3. Typed'
    BY <1>0, <1>4, <2>1 DEF StopRunner, Stopped, Typed
  <2>4. (Saving(r) => Saving(r)') /\ (r \in registry => Saving(r)')
    BY <2>2 DEF Saving
  <2>5. Whole(r)
    BY DEF RunInv
  <2>6. Whole(r)'
    BY <2>2, <2>4, <2>5 DEF Whole, Alive
  <2> QED
    BY <1>2, <2>1, <2>2, <2>3, <2>6
<1>5. CASE StopSave(w)
  <2>1. PICK r \in Run : arg[w] = r
    BY <1>0, <1>5 DEF StopSave, Sound
  <2>2. /\ pc'[w] = "idle" /\ pc[w] = "save"
        /\ \A v \in Worker \ {w} : pc'[v] = pc[v] /\ arg'[v] = arg[v] /\ found'[v] = found[v]
        /\ \/ row[r] = "deleted" /\ UNCHANGED <<row, saved>>
           \/ /\ row[r] # "deleted" /\ row'[r] = "STOPPED"
              /\ saved'[r] = IF found[w] THEN fills[r] ELSE saved[r]
        /\ \A q \in Run \ {r} : row'[q] = row[q] /\ saved'[q] = saved[q]
        /\ UNCHANGED <<strategies, up, runner, held, fills, late, registry, threads, flag, loop>>
    BY <1>0, <1>5, <2>1 DEF StopSave, Typed
  <2>3. Typed'
    BY <1>0, <1>5 DEF StopSave, Typed
  <2>4. Saving(r) => found[w] \/ Saving(r)'
    BY <2>2 DEF Saving
  <2>5. Whole(r) /\ row[r] # "none"
    BY <1>0, <2>1, <2>2 DEF RunInv, Sound
  <2>6. Whole(r)'
    <3>1. CASE row[r] = "deleted" /\ UNCHANGED <<row, saved>>
      BY <2>2, <2>5, <3>1 DEF Whole, Alive
    <3>2. CASE /\ row[r] # "deleted" /\ row'[r] = "STOPPED"
               /\ saved'[r] = IF found[w] THEN fills[r] ELSE saved[r]
      <4>1. /\ saved'[r] = fills[r] \/ (saved'[r] = saved[r] /\ (Saving(r) => Saving(r)'))
            /\ row'[r] = "STOPPED" /\ row[r] # "deleted"
        BY <2>4, <3>2
      <4>2. UNCHANGED <<runner, held, fills, late, registry, threads, flag, loop>>
        BY <2>2
      <4> QED
        BY <2>5, <4>1, <4>2 DEF Whole, Alive
    <3> QED
      BY <2>2, <3>1, <3>2
  <2> QED
    BY <1>2, <2>1, <2>2, <2>3, <2>6
<1> QED
  BY <1>1, <1>3, <1>4, <1>5

(* Deletions, crashes and starts of the process keep the invariant.        *)
LEMMA OtherStep ==
  ASSUME RunInv, (\E s \in Strategy : DeleteStrategy(s)) \/ Crash \/ Boot \/ UNCHANGED vars
  PROVE  RunInv'
<1>0. Typed /\ NoRun \notin Run
  BY PaperRunAssumption DEF RunInv
<1> USE DEF records, runners, tables, polling, requests, Starting, Stopping, Rows, Places
<1>1. CASE \E s \in Strategy : DeleteStrategy(s)
  <2>1. PICK s \in Strategy : DeleteStrategy(s)
    BY <1>1
  <2>2. /\ UNCHANGED <<saved, up, runner, held, fills, late, registry, threads, flag, loop, pc, arg, found>>
        /\ strategies' = strategies \ {s} /\ up
        /\ \A r \in Run : row'[r] = IF StrategyOf[r] = s /\ row[r] # "none" THEN "deleted" ELSE row[r]
    BY <2>1 DEF DeleteStrategy
  <2>3. Typed'
    BY <1>0, <2>1 DEF DeleteStrategy, Typed
  <2>4. NoPhantomRun'
    BY <2>2 DEF RunInv, NoPhantomRun
  <2>5. ASSUME NEW w \in Worker PROVE Sound(w)'
    BY <2>2, <2>5 DEF RunInv, Sound
  <2>6. ASSUME NEW r \in Run PROVE Whole(r)'
    <3>1. Saving(r)' <=> Saving(r)
      BY <2>2 DEF Saving
    <3>2. Whole(r) /\ row'[r] \in {row[r], "deleted"} /\ (row[r] # "none" => row'[r] # "none")
      BY <2>2 DEF RunInv
    <3> QED
      BY <2>2, <3>1, <3>2 DEF Whole, Alive
  <2>7. Down'
    BY <2>2 DEF RunInv, Down
  <2> QED
    BY <2>3, <2>4, <2>5, <2>6, <2>7 DEF RunInv
<1>2. CASE Crash
  <2>1. /\ UNCHANGED <<row, saved, strategies, fills, late>> /\ ~up' /\ registry' = {} /\ threads' = {}
        /\ \A w \in Worker : pc'[w] = "idle"
        /\ \A r \in Run : /\ runner'[r] = "none" /\ ~held'[r] /\ ~flag'[r]
                          /\ loop'[r] = IF Alive(r) THEN "dead" ELSE loop[r]
    BY <1>2 DEF Crash
  <2>2. Typed'
    BY <1>0, <1>2 DEF Crash, Typed
  <2>3. Down' /\ NoPhantomRun'
    BY <2>1 DEF Down, NoPhantomRun, Alive
  <2>4. ASSUME NEW w \in Worker PROVE Sound(w)'
    BY <2>1, <2>4 DEF Sound
  <2>5. ASSUME NEW r \in Run PROVE Whole(r)'
    <3>1. Whole(r) /\ loop'[r] \in {"none", "dead"} /\ (loop'[r] = "none" <=> loop[r] = "none")
      BY <1>0, <2>1, <2>5 DEF RunInv, Alive, Typed
    <3> QED
      BY <2>1, <2>5, <3>1 DEF Whole, Alive
  <2> QED
    BY <2>2, <2>3, <2>4, <2>5 DEF RunInv
<1>3. CASE Boot
  <2>1. /\ UNCHANGED <<saved, strategies, runner, held, fills, late, registry, threads, flag, loop,
                      pc, arg, found>>
        /\ up' /\ ~up
        /\ \A r \in Run : row'[r] = IF row[r] = "RUNNING" THEN "INTERRUPTED" ELSE row[r]
    BY <1>3 DEF Boot
  <2>2. Typed'
    BY <1>0, <1>3 DEF Boot, Typed
  <2>3. Down' /\ NoPhantomRun'
    BY <2>1 DEF Down, NoPhantomRun
  <2>4. ASSUME NEW w \in Worker PROVE Sound(w)'
    BY <2>1, <2>4 DEF RunInv, Down, Sound
  <2>5. ASSUME NEW r \in Run PROVE Whole(r)'
    <3>1. Whole(r) /\ ~Alive(r) /\ ~Alive(r)' /\ row'[r] \in {row[r], "INTERRUPTED"}
          /\ (row[r] # "none" => row'[r] # "none")
      BY <2>1, <2>5 DEF RunInv, Down, Alive
    <3> QED
      BY <2>1, <2>5, <3>1 DEF Whole, Alive
  <2> QED
    BY <2>2, <2>3, <2>4, <2>5 DEF RunInv
<1>4. CASE UNCHANGED vars
  BY <1>4 DEF vars, RunInv, Typed, Down, NoPhantomRun, Sound, Whole, Alive, Saving
<1> QED
  BY <1>1, <1>2, <1>3, <1>4

(* Every step keeps the invariant.                                         *)
LEMMA StepRun == RunInv /\ [Next]_vars => RunInv'
<1> SUFFICES ASSUME RunInv, [Next]_vars PROVE RunInv'
  OBVIOUS
<1>1. CASE \E w \in Worker : Request(w) \/ \E r \in Run : Start(w, r) \/ Stop(w, r)
  <2>1. PICK w \in Worker : Request(w) \/ \E r \in Run : Start(w, r) \/ Stop(w, r)
    BY <1>1
  <2>2. CASE Request(w)
    BY <2>2, StartStep, StopStep DEF Request
  <2>3. CASE \E r \in Run : Start(w, r)
    BY <2>3, StartStep
  <2>4. CASE \E r \in Run : Stop(w, r)
    BY <2>4, StopStep
  <2> QED
    BY <2>1, <2>2, <2>3, <2>4
<1>2. CASE \E r \in Run : Loop(r)
  BY <1>2, LoopStep
<1>3. CASE (\E s \in Strategy : DeleteStrategy(s)) \/ Crash \/ Boot \/ UNCHANGED vars
  BY <1>3, OtherStep
<1> QED
  BY <1>1, <1>2, <1>3 DEF Next

(* The invariant holds in every state.                                     *)
THEOREM RunsSound == Spec => []RunInv
  BY InitRun, StepRun, PTL DEF Spec

(* A run that trades and was not told to stop can be reached by the stop   *)
(* request: its runner is in the registry, its flag in the scheduler's     *)
(* table, although RunRegistry.add drops finished runners as others start. *)
THEOREM RunStoppable == Spec => []StoppableRun
<1>1. RunInv => StoppableRun
  BY DEF RunInv, Whole, StoppableRun, Trading
<1> QED
  BY <1>1, RunsSound, PTL

(* A row that claims to run has a runner of this process, or a start under *)
(* way, whatever crashes, stops and deletions came before.                 *)
THEOREM NoPhantoms == Spec => []NoPhantomRun
<1>1. RunInv => NoPhantomRun
  BY DEF RunInv
<1> QED
  BY <1>1, RunsSound, PTL

(* A runner that was stopped or failed under its thread's hands fills at   *)
(* most the order the thread was evaluating already.                       *)
THEOREM AtMostOneLateFill == Spec => []OneFillAfterStop
<1>1. RunInv => OneFillAfterStop
  BY DEF RunInv, Whole, OneFillAfterStop
<1> QED
  BY <1>1, RunsSound, PTL

(* Ticks, bars and late orders together leave the runner flat after every  *)
(* second fill.                                                            *)
THEOREM BuysAndSellsAlternate == Spec => []PositionAlternates
<1>1. RunInv => PositionAlternates
  BY DEF RunInv, Whole, PositionAlternates
<1> QED
  BY <1>1, RunsSound, PTL

(* A halted run fills no more, and the halt itself writes every fill       *)
(* unless a stop request works on the run.                                 *)
THEOREM HaltsKeepFigures == Spec => HaltedKeepsFigures
<1>1. ASSUME RunInv, [Next]_vars, NEW r \in Run
      PROVE  /\ row[r] = "HALTED" => fills'[r] = fills[r]
             /\ row'[r] = "HALTED" /\ row[r] # "HALTED" /\ (\A w \in Worker : arg[w] # r)
                  => saved'[r] = fills[r]
  <2> USE DEF Goto, Return, LoopTo, Stopped, records, runners, tables, polling, requests
  <2>0. Typed /\ Whole(r)
    BY <1>1 DEF RunInv
  <2>1. CASE \E w \in Worker : Request(w) \/ \E q \in Run : Start(w, q) \/ Stop(w, q)
    <3>1. PICK w \in Worker : Request(w) \/ \E q \in Run : Start(w, q) \/ Stop(w, q)
      BY <2>1
    <3>2. fills' = fills
      BY <3>1 DEF Request, StartPrice, StartCommit, StartCreate, StartRegister, StartSchedule,
         StopSchedule, StopRunner, StopSave, Start, Stop
    <3>3. row' = row \/ \E state \in {"RUNNING", "FAILED", "STOPPED"} :
                          row' = [row EXCEPT ![arg[w]] = state]
      BY <3>1 DEF Request, StartPrice, StartCommit, StartCreate, StartRegister, StartSchedule,
         StopSchedule, StopRunner, StopSave, Start, Stop
    <3> QED
      BY <2>0, <3>2, <3>3 DEF Typed
  <2>2. CASE \E q \in Run : Loop(q)
    <3>1. PICK q \in Run : Loop(q)
      BY <2>2
    <3>2. CASE LoopTickOrder(q) \/ LoopBarEval(q)
      <4>1. /\ loop[q] \in {"tickOrder", "barEval"} /\ row' = row
            /\ fills' = fills \/ fills' = [fills EXCEPT ![q] = @ + 1]
        BY <3>2 DEF LoopTickOrder, LoopBarEval, Submit, Fill
      <4>2. row[q] # "HALTED"
        BY <1>1, <4>1 DEF RunInv, Whole
      <4> QED
        BY <2>0, <4>1, <4>2 DEF Typed
    <3>3. CASE LoopHalting(q)
      <4>1. fills' = fills /\ (q # r => row'[r] = row[r])
        BY <2>0, <3>3 DEF LoopHalting, Typed
      <4>2. ASSUME q = r, row'[r] = "HALTED", row[r] # "HALTED", \A w \in Worker : arg[w] # r
            PROVE  saved'[r] = fills[r]
        <5>1. /\ row[r] # "deleted" /\ loop[r] = "halting"
              /\ saved'[r] = IF r \in registry THEN fills[r] ELSE saved[r]
          BY <2>0, <3>3, <4>2 DEF LoopHalting, Typed
        <5>2. ~Saving(r)
          BY <4>2 DEF Saving
        <5> QED
          BY <2>0, <5>1, <5>2 DEF Whole, Alive
      <4> QED
        BY <4>1, <4>2
    <3>4. CASE LoopTop(q) \/ LoopPoll(q) \/ LoopTick(q) \/ LoopBar(q) \/ LoopEnd(q) \/ LoopHalt(q)
               \/ LoopHaltStop(q)
      <4>1. UNCHANGED <<row, fills>>
        BY <3>4 DEF LoopTop, LoopPoll, LoopTick, LoopBar, LoopEnd, LoopHalt, LoopHaltStop
      <4> QED
        BY <4>1
    <3> QED
      BY <3>1, <3>2, <3>3, <3>4 DEF Loop
  <2>3. CASE (\E s \in Strategy : DeleteStrategy(s)) \/ Crash \/ Boot \/ UNCHANGED vars
    BY <2>0, <2>3 DEF DeleteStrategy, Crash, Boot, vars, Typed
  <2> QED
    BY <1>1, <2>1, <2>2, <2>3 DEF Next
<1>2. RunInv /\ [Next]_vars =>
        [\A r \in Run :
           /\ row[r] = "HALTED" => fills'[r] = fills[r]
           /\ row'[r] = "HALTED" /\ row[r] # "HALTED"
              /\ (\A w \in Worker : arg[w] # r)
                => saved'[r] = fills[r]]_vars
  BY <1>1
<1> QED
  BY <1>2, RunsSound, PTL DEF Spec, HaltedKeepsFigures

-----------------------------------------------------------------------------
(* The refinement of RunLifecycle.                                         *)
Visible == [r \in Run |-> Activity(r)]

(* A step that keeps every row and every activity is one nobody sees.      *)
LEMMA Unseen ==
  ASSUME row' = row, \A r \in Run : Activity(r)' = Activity(r)
  PROVE  UNCHANGED <<row, Visible>>
  BY DEF Visible

(* Each step of a polling thread is a step of the lifecycle, or unseen.    *)
LEMMA LoopMapped ==
  ASSUME RunInv, NEW r \in Run, Loop(r)
  PROVE  Lifecycle!Finish(r) \/ Lifecycle!Close(r) \/ UNCHANGED <<row, Visible>>
<1>0. Typed /\ Whole(r)
  BY DEF RunInv
<1> USE DEF LoopTo, records
<1>1. CASE LoopEnd(r) \/ LoopHaltStop(r)
  <2>1. /\ loop[r] \in {"end", "haltStop"} /\ loop'[r] = "dead" /\ row' = row
        /\ \A q \in Run \ {r} : loop'[q] = loop[q]
    BY <1>0, <1>1 DEF LoopEnd, LoopHaltStop, Typed
  <2>2. /\ Activity(r) = "active" /\ Activity(r)' = "over"
        /\ \A q \in Run \ {r} : Activity(q)' = Activity(q)
    BY <2>1 DEF Activity
  <2>3. Visible' = [Visible EXCEPT ![r] = "over"] /\ Visible[r] = "active"
    BY <2>2 DEF Visible
  <2> QED
    BY <2>1, <2>3 DEF Lifecycle!Finish, Visible
<1>2. CASE LoopHalting(r)
  <2>1. /\ loop[r] = "halting" /\ loop'[r] = "haltStop"
        /\ \A q \in Run \ {r} : loop'[q] = loop[q]
    BY <1>0, <1>2 DEF LoopHalting, Typed
  <2>2. Visible' = Visible
    BY <2>1 DEF Activity, Visible
  <2>3. row' = row \/ (row[r] # "deleted" /\ row' = [row EXCEPT ![r] = "HALTED"])
    BY <1>2 DEF LoopHalting
  <2>4. row[r] \in Rows \ {"none"}
    BY <1>0, <2>1 DEF Whole, Typed
  <2> QED
    BY <2>2, <2>3, <2>4 DEF Lifecycle!Close, Lifecycle!Ended, Visible, Rows
<1>3. CASE LoopTop(r) \/ LoopPoll(r) \/ LoopTick(r) \/ LoopTickOrder(r) \/ LoopBar(r)
           \/ LoopBarEval(r) \/ LoopHalt(r)
  <2>1. /\ loop[r] \notin {"none", "dead"} /\ loop'[r] \notin {"none", "dead"} /\ row' = row
        /\ \A q \in Run \ {r} : loop'[q] = loop[q]
    BY <1>0, <1>3
       DEF LoopTop, LoopPoll, LoopTick, LoopTickOrder, LoopBar, LoopBarEval, LoopHalt, Typed
  <2> QED
    BY <2>1, Unseen DEF Activity
<1> QED
  BY <1>1, <1>2, <1>3 DEF Loop

(* Each step of a request is a step of the lifecycle, or unseen.           *)
LEMMA RequestMapped ==
  ASSUME RunInv, NEW w \in Worker, Request(w) \/ \E r \in Run : Start(w, r) \/ Stop(w, r)
  PROVE  \/ UNCHANGED <<row, Visible>>
         \/ \E r \in Run : \/ Lifecycle!Open(r) \/ Lifecycle!Begin(r) \/ Lifecycle!Abort(r)
                           \/ Lifecycle!Close(r)
<1>0. Typed /\ Sound(w)
  BY DEF RunInv
<1> USE DEF Goto, Return, LoopTo, records, polling
<1>1. CASE StartCommit(w)
  <2>1. PICK r \in Run : arg[w] = r /\ row[r] = "none"
    BY <1>0, <1>1 DEF StartCommit, Sound
  <2>2. row' = [row EXCEPT ![r] = "RUNNING"] /\ loop' = loop
    BY <1>1, <2>1 DEF StartCommit
  <2>3. Visible' = Visible
    BY <2>2 DEF Visible, Activity
  <2> QED
    BY <2>1, <2>2, <2>3 DEF Lifecycle!Open, Visible
<1>2. CASE StartSchedule(w)
  <2>1. PICK r \in Run : arg[w] = r /\ row[r] # "none" /\ loop[r] = "none"
    BY <1>0, <1>2 DEF StartSchedule, Sound, Starting, Stopping
  <2>2. Visible[r] = "none"
    BY <2>1 DEF Visible, Activity
  <2>3. CASE loop' = [loop EXCEPT ![r] = "top"] /\ row' = row
    <3>1. Visible' = [Visible EXCEPT ![r] = "active"]
      BY <1>0, <2>3 DEF Visible, Activity, Typed
    <3> QED
      BY <2>1, <2>2, <2>3, <3>1 DEF Lifecycle!Begin, Visible
  <2>4. CASE /\ loop' = [loop EXCEPT ![r] = "dead"]
             /\ row' = IF row[r] = "deleted" THEN row ELSE [row EXCEPT ![r] = "FAILED"]
    <3>1. Visible' = [Visible EXCEPT ![r] = "over"]
      BY <1>0, <2>4 DEF Visible, Activity, Typed
    <3>2. row' = [row EXCEPT ![r] = IF row[r] = "deleted" THEN row[r] ELSE "FAILED"]
      BY <1>0, <2>4 DEF Typed
    <3> QED
      BY <2>1, <2>2, <3>1, <3>2 DEF Lifecycle!Abort, Visible
  <2> QED
    BY <1>2, <2>1, <2>3, <2>4 DEF StartSchedule
<1>3. CASE StopSave(w)
  <2>1. PICK r \in Run : arg[w] = r /\ row[r] # "none"
    BY <1>0, <1>3 DEF StopSave, Sound, Starting, Stopping
  <2>2. Visible' = Visible
    BY <1>3 DEF StopSave, Visible, Activity
  <2>3. row' = row \/ (row[r] # "deleted" /\ row' = [row EXCEPT ![r] = "STOPPED"])
    BY <1>3, <2>1 DEF StopSave
  <2>4. row[r] \in Rows
    BY <1>0 DEF Typed
  <2> QED
    BY <2>1, <2>2, <2>3, <2>4 DEF Lifecycle!Close, Lifecycle!Ended, Visible, Rows
<1>4. CASE \/ StartPrice(w) \/ StartCreate(w) \/ StartRegister(w) \/ StopSchedule(w) \/ StopRunner(w)
           \/ \E r \in Run : Start(w, r) \/ Stop(w, r)
  <2>1. UNCHANGED <<row, loop>>
    BY <1>4 DEF StartPrice, StartCreate, StartRegister, StopSchedule, StopRunner, Start, Stop
  <2> QED
    BY <2>1, Unseen DEF Activity
<1> QED
  BY <1>1, <1>2, <1>3, <1>4 DEF Request

(* Whatever threads, requests, crashes and deletions do, a record is       *)
(* opened once, an activity begins once, for an opened record, and never   *)
(* resumes.                                                                *)
THEOREM RunsFollowTheLifecycle == Spec => RefinesLifecycle
<1>1. Init => Lifecycle!Init
  BY DEF Init, Lifecycle!Init, Activity
<1>2. RunInv /\ [Next]_vars => [Lifecycle!Next]_<<row, Visible>>
  <2> SUFFICES ASSUME RunInv, [Next]_vars, ~UNCHANGED <<row, Visible>> PROVE Lifecycle!Next
    OBVIOUS
  <2>1. CASE \E w \in Worker : Request(w) \/ \E r \in Run : Start(w, r) \/ Stop(w, r)
    BY <2>1, RequestMapped DEF Lifecycle!Next
  <2>2. CASE \E r \in Run : Loop(r)
    BY <2>2, LoopMapped DEF Lifecycle!Next
  <2>3. CASE \E s \in Strategy : DeleteStrategy(s)
    <3>1. PICK s \in Strategy : DeleteStrategy(s)
      BY <2>3
    <3>2. Visible' = Visible
      BY <3>1 DEF DeleteStrategy, polling, Visible, Activity
    <3>3. Lifecycle!Delete({r \in Run : StrategyOf[r] = s})
      BY <3>1, <3>2 DEF DeleteStrategy, Lifecycle!Delete, Visible
    <3> QED
      BY <3>3 DEF Lifecycle!Next
  <2>4. CASE Crash
    <3>1. \A r \in Run : loop'[r] = IF loop[r] \notin {"none", "dead"} THEN "dead" ELSE loop[r]
      BY <2>4 DEF Crash, Alive
    <3>2. Visible' = [r \in Run |-> IF Visible[r] = "active" THEN "over" ELSE Visible[r]]
      BY <3>1 DEF Visible, Activity
    <3> QED
      BY <2>4, <3>2 DEF Crash, records, Lifecycle!Next, Lifecycle!Die, Visible
  <2>5. CASE Boot
    <3>1. Visible' = Visible
      BY <2>5 DEF Boot, polling, Visible, Activity
    <3>2. \A r \in Run : Visible[r] # "active"
      BY <2>5 DEF Boot, RunInv, Down, Alive, Visible, Activity
    <3> QED
      BY <2>5, <3>1, <3>2 DEF Boot, Lifecycle!Next, Lifecycle!Recover, Visible
  <2>6. CASE UNCHANGED vars
    BY <2>6 DEF vars, Visible, Activity
  <2> QED
    BY <2>1, <2>2, <2>3, <2>4, <2>5, <2>6 DEF Next
<1> QED
  BY <1>1, <1>2, RunsSound, PTL DEF Spec, RefinesLifecycle, Lifecycle!Spec, Visible
=============================================================================
