--------------------------- MODULE IntervalLoadProofs ---------------------------
(***************************************************************************)
(* What TLAPS proves of IntervalLoad, for every interval, throttle policy, *)
(* saving rhythm and number of jobs and crashes.                           *)
(***************************************************************************)
EXTENDS IntervalLoad, FiniteSetTheorems, TLAPS

Places == {"new", "storage", "tier", "run", "check", "open", "write",
           "replace", "closing", "failing", "over"}

(* The types the other invariants use, and that a thread is under way      *)
(* exactly while its job says it is running.                               *)
TypeInv ==
  /\ pc \in [Jobs -> Places]
  /\ after \in [Jobs -> {"tier", "run", "closing"}]
  /\ status \in [Jobs -> {"none", "running", "done", "aborted", "error", "crashed"}]
  /\ call \in [Jobs -> [Manifests -> Calls]]
  /\ waiting \in [Jobs -> SUBSET Manifests]
  /\ marked \in [Jobs -> SUBSET Manifests]
  /\ disk \in Files /\ temp \in Files
  /\ open \in [Jobs -> {"tmp", "disk", "gone"}]
  /\ minted \in [Manifests -> Nat]
  /\ \A j \in Jobs : (Running(j) <=> pc[j] \notin {"new", "over"}) /\ (status[j] = "none" <=> pc[j] = "new")

(* What a file may hold after a job has written its marks to it.           *)
LEMMA OverwrittenTyped ==
  ASSUME NEW old, NEW names \in SUBSET Manifests, NEW new \in Overwritten(old, names)
  PROVE  /\ new \in Files
         /\ new = Text(names) \/ (new = Torn /\ old # Torn)
BY DEF Overwritten, Text, Torn, Files

(* Absent and torn files are files.                                        *)
LEMMA ConstantFiles == Absent \in Files /\ Torn \in Files
BY DEF Absent, Torn, Files

(* TypeInv is inductive.                                                   *)
LEMMA TypeInvariant == Spec => []TypeInv
<1>. USE DEF TypeInv, Goto, Emit, SetCall, job, pool, memory, files, service, Running, Places, Calls
<1>1. Init => TypeInv
  BY ConstantFiles DEF Init
<1>2. TypeInv /\ [Next]_vars => TypeInv'
  <2>. SUFFICES ASSUME TypeInv, [Next]_vars PROVE TypeInv'
    OBVIOUS
  <2>1. ASSUME NEW j \in Jobs, Kick(j) PROVE TypeInv'
    <3>1. Loaded \in SUBSET Manifests
      BY DEF Loaded, Files
    <3>. QED  BY <2>1, <3>1 DEF Kick
  <2>2. ASSUME NEW j \in Jobs, RequestAbort(j) PROVE TypeInv'
    BY <2>2 DEF RequestAbort
  <2>3. ASSUME NEW j \in Jobs, Check(j) \/ Close(j) PROVE TypeInv'
    <3>1. CASE Check(j)
      BY <3>1 DEF Check
    <3>2. CASE Close(j)
      <4>1. PICK v \in {"done", "aborted", "error"} : status' = [status EXCEPT ![j] = v]
        BY <3>2 DEF Close
      <4>2. pc[j] \in {"closing", "failing"} /\ pc' = [pc EXCEPT ![j] = "over"]
        BY <3>2 DEF Close
      <4>. QED  BY <3>2, <4>1, <4>2 DEF Close
    <3>. QED  BY <2>3, <3>1, <3>2
  <2>4. ASSUME NEW j \in Jobs, LoadStorage(j) \/ SkipTier(j) PROVE TypeInv'
    <3>1. CASE LoadStorage(j)
      BY <3>1 DEF LoadStorage
    <3>2. CASE SkipTier(j)
      BY <3>2 DEF SkipTier
    <3>. QED  BY <2>4, <3>1, <3>2
  <2>5. ASSUME NEW j \in Jobs, OpenTier(j) PROVE TypeInv'
    BY <2>5 DEF OpenTier, Remaining
  <2>6. ASSUME NEW j \in Jobs, NEW m \in Manifests, Start(j, m) PROVE TypeInv'
    <3>1. call' \in [Jobs -> [Manifests -> Calls]]
      BY <2>6 DEF Start
    <3>. QED  BY <2>6, <3>1 DEF Start
  <2>7. ASSUME NEW j \in Jobs, NEW m \in Manifests, CollectOk(j, m) PROVE TypeInv'
    <3>1. call' \in [Jobs -> [Manifests -> Calls]]
      BY <2>7 DEF CollectOk
    <3>. QED  BY <2>7, <3>1 DEF CollectOk
  <2>8. ASSUME NEW j \in Jobs, NEW m \in Manifests, CollectError(j, m) PROVE TypeInv'
    <3>1. call' \in [Jobs -> [Manifests -> Calls]]
      BY <2>8 DEF CollectError
    <3>. QED  BY <2>8, <3>1 DEF CollectError
  <2>9. ASSUME NEW j \in Jobs, NEW m \in Manifests, CollectRaised(j, m) PROVE TypeInv'
    BY <2>9 DEF CollectRaised
  <2>10. ASSUME NEW j \in Jobs, Drain(j) \/ EndTier(j) PROVE TypeInv'
    <3>1. CASE Drain(j)
      BY <3>1 DEF Drain
    <3>2. CASE EndTier(j)
      BY <3>2 DEF EndTier
    <3>. QED  BY <2>10, <3>1, <3>2
  <2>11. ASSUME NEW j \in Jobs, Truncate(j) PROVE TypeInv'
    BY <2>11, ConstantFiles DEF Truncate
  <2>12. ASSUME NEW j \in Jobs, Write(j) PROVE TypeInv'
    <3>1. disk' \in Files /\ temp' \in Files
      BY <2>12, OverwrittenTyped DEF Write
    <3>. QED  BY <2>12, <3>1 DEF Write
  <2>13. ASSUME NEW j \in Jobs, Replace(j) PROVE TypeInv'
    <3>1. open' \in [Jobs -> {"tmp", "disk", "gone"}]
      BY <2>13 DEF Replace
    <3>. QED  BY <2>13, <3>1, ConstantFiles DEF Replace
  <2>14. ASSUME NEW j \in Jobs, ReplaceMissing(j) PROVE TypeInv'
    BY <2>14 DEF ReplaceMissing
  <2>15. ASSUME NEW j \in Jobs, NEW m \in Manifests, NEW c \in {"ok", "error", "raised"}, Finish(j, m, c)
         PROVE  TypeInv'
    <3>1. call' \in [Jobs -> [Manifests -> Calls]]
      BY <2>15 DEF Finish
    <3>. QED  BY <2>15, <3>1 DEF Finish
  <2>16. ASSUME NEW j \in Jobs, NEW m \in Manifests, Accept(j, m) PROVE TypeInv'
    <3>1. call' \in [Jobs -> [Manifests -> Calls]]
      BY <2>16 DEF Accept
    <3>. QED  BY <2>16, <3>1 DEF Accept
  <2>17. CASE Crash
    BY <2>17 DEF Crash
  <2>18. CASE UNCHANGED vars
    BY <2>18 DEF vars
  <2>. HIDE DEF TypeInv
  <2>19. ASSUME NEW j \in Jobs, Thread(j) PROVE TypeInv'
    BY <2>19, <2>3, <2>4, <2>5, <2>6, <2>7, <2>8, <2>9, <2>10, <2>11, <2>12, <2>13, <2>14 DEF Thread
  <2>20. ASSUME NEW j \in Jobs, Worker(j) PROVE TypeInv'
    BY <2>20, <2>15 DEF Worker
  <2>. QED
    BY <2>1, <2>2, <2>16, <2>17, <2>18, <2>19, <2>20 DEF Next, Quiet
<1>. QED  BY <1>1, <1>2, PTL DEF Spec

-----------------------------------------------------------------------------
(* Whatever claims that a manifest was loaded (an answer, a mark, a file   *)
(* or what is being moved over it) does so after the service took it.      *)
Minted(M) == \A m \in M : minted[m] > 0

MintInv ==
  /\ \A j \in Jobs, m \in Manifests : call[j][m] \in {"accepted", "ok"} => minted[m] > 0
  /\ \A j \in Jobs : Minted(marked[j])
  /\ disk.state = "text" => Minted(disk.names)
  /\ temp.state = "text" => Minted(temp.names)

(* Neither the job's marks nor its file name a manifest that the service   *)
(* has not taken, even when several jobs write the same file.              *)
THEOREM MarksAreTrue == Spec => []MarkedMeansMinted
<1>. USE DEF Goto, Emit, SetCall, job, pool, memory, files, service
<1>1. Init => MintInv
  BY DEF Init, MintInv, Minted, Absent
<1>2. TypeInv /\ MintInv /\ [Next]_vars => MintInv'
  <2>. SUFFICES ASSUME TypeInv, MintInv, [Next]_vars PROVE MintInv'
    OBVIOUS
  <2>1. ASSUME NEW j \in Jobs, Kick(j) PROVE MintInv'
    <3>1. Minted(Loaded)
      BY DEF MintInv, Loaded, Minted
    <3>. QED  BY <2>1, <3>1 DEF Kick, MintInv, Minted, TypeInv
  <2>2. ASSUME NEW j \in Jobs, NEW m \in Manifests, Start(j, m) \/ CollectError(j, m) PROVE MintInv'
    <3>1. \A k \in Jobs, n \in Manifests :
            call'[k][n] \in {"accepted", "ok"} => call[k][n] \in {"accepted", "ok"}
      <4>1. PICK c \in {"running", "collected"} : call' = [call EXCEPT ![j][m] = c]
        BY <2>2 DEF Start, CollectError
      <4>. QED  BY <4>1 DEF TypeInv
    <3>. QED  BY <2>2, <3>1 DEF Start, CollectError, MintInv, Minted
  <2>3. ASSUME NEW j \in Jobs, NEW m \in Manifests, CollectOk(j, m) PROVE MintInv'
    <3>1. \A k \in Jobs, n \in Manifests :
            call'[k][n] \in {"accepted", "ok"} => call[k][n] \in {"accepted", "ok"}
      BY <2>3 DEF CollectOk, TypeInv
    <3>2. minted[m] > 0
      BY <2>3 DEF CollectOk, Succeeded, MintInv
    <3>. QED  BY <2>3, <3>1, <3>2 DEF CollectOk, MintInv, Minted, TypeInv
  <2>4. ASSUME NEW j \in Jobs, NEW m \in Manifests, NEW c \in {"ok", "error", "raised"}, Finish(j, m, c)
        PROVE  MintInv'
    <3>1. \A k \in Jobs, n \in Manifests :
            call'[k][n] \in {"accepted", "ok"} => call[k][n] \in {"accepted", "ok"}
      BY <2>4 DEF Finish, TypeInv
    <3>. QED  BY <2>4, <3>1 DEF Finish, MintInv, Minted
  <2>5. ASSUME NEW j \in Jobs, NEW m \in Manifests, Accept(j, m) PROVE MintInv'
    <3>1. minted'[m] > 0 /\ \A n \in Manifests : minted[n] > 0 => minted'[n] > 0
      BY <2>5 DEF Accept, TypeInv
    <3>2. \A k \in Jobs, n \in Manifests :
            call'[k][n] \in {"accepted", "ok"} => n = m \/ call[k][n] \in {"accepted", "ok"}
      BY <2>5 DEF Accept, TypeInv
    <3>3. /\ UNCHANGED <<marked, disk, temp>> /\ disk.names \subseteq Manifests
          /\ temp.names \subseteq Manifests /\ \A k \in Jobs : marked[k] \subseteq Manifests
      BY <2>5 DEF Accept, TypeInv, Files
    <3>. QED  BY <3>1, <3>2, <3>3 DEF MintInv, Minted
  <2>6. ASSUME NEW j \in Jobs, Write(j) PROVE MintInv'
    <3>1. \A f \in {disk, temp} : \A g \in Overwritten(f, marked[j]) :
            g.state = "text" => Minted(g.names)
      BY DEF Overwritten, Text, Torn, MintInv, TypeInv
    <3>2. UNCHANGED <<call, marked, minted>>
      BY <2>6 DEF Write
    <3>3. (disk'.state = "text" => Minted(disk'.names)) /\ (temp'.state = "text" => Minted(temp'.names))
      BY <2>6, <3>1 DEF Write, MintInv
    <3>. QED  BY <3>2, <3>3 DEF MintInv, Minted
  <2>7. ASSUME NEW j \in Jobs, Truncate(j) \/ Replace(j) PROVE MintInv'
    BY <2>7 DEF Truncate, Replace, MintInv, Minted, Torn, Absent
  <2>8. CASE UNCHANGED <<call, marked, disk, temp, minted>>
    BY <2>8 DEF MintInv, Minted
  <2>. QED
    BY <2>1, <2>2, <2>3, <2>4, <2>5, <2>6, <2>7, <2>8
       DEF Next, Thread, Worker, Quiet, vars, RequestAbort, Check, Close, LoadStorage, SkipTier,
           OpenTier, CollectRaised, Drain, EndTier, ReplaceMissing, Crash
<1>3. MintInv => MarkedMeansMinted
  BY DEF MintInv, Minted, MarkedMeansMinted, Loaded
<1>. QED  BY <1>1, <1>2, <1>3, TypeInvariant, PTL DEF Spec

-----------------------------------------------------------------------------
(* Before its work-product tier is opened a job has submitted nothing.      *)
Early(j) == pc[j] \in {"new", "storage", "tier"} \/ (pc[j] = "check" /\ after[j] = "tier")

(* If jobs follow one another, the file belongs to the one that runs: it   *)
(* grows only by that job's marks, and what the job has still to start is  *)
(* neither marked nor started.                                             *)
SingleInv ==
  /\ \A j, k \in Jobs : Running(j) /\ Running(k) => j = k
  /\ \A j \in Jobs : open[j] # "disk"
  /\ \A j \in Jobs : open[j] = "tmp" => Running(j) /\ pc[j] \in {"write", "replace"}
  /\ \A j \in Jobs : Running(j) =>
       /\ Loaded \subseteq marked[j]
       /\ waiting[j] \cap marked[j] = {}
       /\ \A m \in waiting[j] : call[j][m] = "none"
       /\ pc[j] \in {"run", "open", "write", "replace"} => after[j] # "tier"
       /\ pc[j] = "write" => open[j] = "tmp" /\ temp = Torn
       /\ pc[j] = "replace" => temp = Text(marked[j])
  /\ \A j \in Jobs : Early(j) => waiting[j] = {} /\ \A m \in Manifests : call[j][m] = "none"

(* SingleInv is inductive when jobs follow one another.                    *)
LEMMA SingleInvariant ==
  ASSUME Exclusive
  PROVE  Spec => []SingleInv
<1>. USE DEF Goto, Emit, SetCall, job, pool, memory, files, service
<1>1. Init => SingleInv
  BY DEF Init, SingleInv, Running, Early
<1>2. TypeInv /\ SingleInv /\ [Next]_vars => SingleInv'
  <2>. SUFFICES ASSUME TypeInv, SingleInv, [Next]_vars PROVE SingleInv'
    OBVIOUS
  <2>1. ASSUME NEW j \in Jobs, Kick(j) PROVE SingleInv'
    <3>1. \A k \in Jobs : ~Running(k)
      BY <2>1 DEF Kick
    <3>2. \A k \in Jobs : Running(k)' <=> k = j
      BY <2>1, <3>1 DEF Kick, Running, TypeInv
    <3>3. Early(j)
      BY <2>1 DEF Kick, TypeInv, Early
    <3>4. /\ Loaded' = Loaded /\ marked'[j] = Loaded /\ pc'[j] = "storage"
          /\ UNCHANGED <<waiting, call, open, after>>
          /\ \A k \in Jobs \ {j} : pc'[k] = pc[k]
      BY <2>1 DEF Kick, TypeInv, Loaded
    <3>5. \A k \in Jobs : open[k] # "tmp"
      BY <3>1 DEF SingleInv
    <3>. QED  BY <3>2, <3>3, <3>4, <3>5 DEF SingleInv, Early
  <2>2. ASSUME NEW j \in Jobs, Check(j) \/ LoadStorage(j) \/ SkipTier(j) \/ EndTier(j)
        PROVE  SingleInv'
    <3>1. /\ UNCHANGED <<status, call, waiting, marked, disk, temp, open>>
          /\ pc[j] \notin {"write", "replace"} /\ pc'[j] \notin {"write", "replace"}
          /\ pc'[j] \in {"run", "open"} => after'[j] # "tier"
          /\ \A k \in Jobs \ {j} : pc'[k] = pc[k] /\ after'[k] = after[k]
      BY <2>2 DEF Check, LoadStorage, SkipTier, EndTier, TypeInv
    <3>2. Early(j)' => Early(j)
      BY <2>2 DEF Check, LoadStorage, SkipTier, EndTier, TypeInv, Early
    <3>3. \A k \in Jobs : Early(k)' => Early(k)
      BY <3>1, <3>2 DEF Early
    <3>. QED  BY <3>1, <3>3 DEF SingleInv, Running, Loaded
  <2>3. ASSUME NEW j \in Jobs, Close(j) PROVE SingleInv'
    <3>1. /\ UNCHANGED <<after, call, waiting, marked, disk, temp, open>>
          /\ \A k \in Jobs : Running(k)' => Running(k) /\ pc'[k] = pc[k]
          /\ \A k \in Jobs : Early(k)' => Early(k)
      BY <2>3 DEF Close, Running, TypeInv, Early
    <3>2. \A k \in Jobs \ {j} : (Running(k) => Running(k)') /\ pc'[k] = pc[k]
      BY <2>3 DEF Close, Running, TypeInv
    <3>3. open[j] # "tmp"
      BY <2>3 DEF Close, SingleInv
    <3>. QED  BY <3>1, <3>2, <3>3 DEF SingleInv, Loaded
  <2>4. ASSUME NEW j \in Jobs, OpenTier(j) PROVE SingleInv'
    <3>1. /\ UNCHANGED <<status, call, marked, disk, temp, open>>
          /\ \A k \in Jobs \ {j} : pc'[k] = pc[k] /\ waiting'[k] = waiting[k] /\ after'[k] = after[k]
          /\ waiting'[j] = Remaining(j) /\ pc[j] = "tier" /\ pc'[j] = "check" /\ after'[j] = "run"
      BY <2>4 DEF OpenTier, TypeInv
    <3>2. Early(j)
      BY <2>4 DEF OpenTier, Early
    <3>3. \A m \in Remaining(j) : call[j][m] = "none" /\ m \notin marked[j]
      BY <3>2 DEF Remaining, SingleInv
    <3>4. \A k \in Jobs : Early(k)' => Early(k) /\ k # j
      BY <3>1 DEF Early
    <3>. QED  BY <3>1, <3>3, <3>4 DEF SingleInv, Running, Loaded
  <2>5. ASSUME NEW j \in Jobs, NEW m \in Manifests, Start(j, m) PROVE SingleInv'
    <3>1. /\ UNCHANGED <<pc, after, status, marked, disk, temp, open>>
          /\ waiting' = [waiting EXCEPT ![j] = @ \ {m}]
          /\ call' = [call EXCEPT ![j][m] = "running"]
          /\ pc[j] = "run"
      BY <2>5 DEF Start
    <3>2. \A k \in Jobs : waiting'[k] \subseteq waiting[k] /\ (k # j => call'[k] = call[k])
      BY <3>1 DEF TypeInv
    <3>3. \A n \in waiting'[j] : call'[j][n] = call[j][n]
      BY <3>1 DEF TypeInv
    <3>4. \A k \in Jobs : Early(k)' => Early(k) /\ k # j
      BY <3>1 DEF Early
    <3>5. \A k \in Jobs : Running(k)' => \A n \in waiting'[k] : call'[k][n] = "none"
      BY <3>1, <3>2, <3>3 DEF SingleInv, Running
    <3>6. \A k \in Jobs : Early(k)' => waiting'[k] = {} /\ \A n \in Manifests : call'[k][n] = "none"
      BY <3>2, <3>4 DEF SingleInv
    <3>. QED  BY <3>1, <3>2, <3>5, <3>6 DEF SingleInv, Running, Loaded
  <2>6. ASSUME NEW j \in Jobs, NEW m \in Manifests, CollectOk(j, m) PROVE SingleInv'
    <3>1. /\ UNCHANGED <<status, waiting, disk, temp, open>>
          /\ marked' = [marked EXCEPT ![j] = @ \cup {m}]
          /\ call' = [call EXCEPT ![j][m] = "collected"]
          /\ pc' = [pc EXCEPT ![j] = IF SaveDue(j) THEN "open" ELSE "check"]
          /\ after' = [after EXCEPT ![j] = "run"]
          /\ pc[j] = "run" /\ call[j][m] = "ok" /\ Running(j)
      BY <2>6 DEF CollectOk, Succeeded, TypeInv
    <3>2. m \notin waiting[j]
      BY <3>1 DEF SingleInv
    <3>3. \A k \in Jobs \ {j} : /\ pc'[k] = pc[k] /\ after'[k] = after[k]
                                /\ marked'[k] = marked[k] /\ call'[k] = call[k]
      BY <3>1 DEF TypeInv
    <3>4. /\ pc'[j] \in {"open", "check"} /\ after'[j] = "run" /\ marked'[j] = marked[j] \cup {m}
          /\ \A n \in waiting[j] : call'[j][n] = call[j][n]
      BY <3>1, <3>2 DEF TypeInv
    <3>5. \A k \in Jobs : Early(k)' => Early(k) /\ k # j
      BY <3>3, <3>4 DEF Early
    <3>6. \A k \in Jobs : Early(k)' => waiting'[k] = {} /\ \A n \in Manifests : call'[k][n] = "none"
      BY <3>1, <3>3, <3>5 DEF SingleInv
    <3>7. \A k \in Jobs : Running(k)' => \A n \in waiting'[k] : call'[k][n] = "none"
      BY <3>1, <3>3, <3>4 DEF SingleInv, Running
    <3>8. \A k \in Jobs : Running(k)' => waiting'[k] \cap marked'[k] = {} /\ Loaded' \subseteq marked'[k]
      BY <3>1, <3>2, <3>3, <3>4 DEF SingleInv, Running, Loaded
    <3>9. \A k \in Jobs : Running(k)' =>
            /\ pc'[k] = "write" => open'[k] = "tmp" /\ temp' = Torn
            /\ pc'[k] = "replace" => temp' = Text(marked'[k])
      BY <3>1, <3>3, <3>4 DEF SingleInv, Running
    <3>. QED  BY <3>1, <3>6, <3>7, <3>8, <3>9 DEF SingleInv, Running
  <2>7. ASSUME NEW j \in Jobs, NEW m \in Manifests, CollectError(j, m) PROVE SingleInv'
    <3>1. /\ UNCHANGED <<status, waiting, marked, disk, temp, open>>
          /\ call[j][m] # "none" /\ pc[j] = "run" /\ pc'[j] = "check" /\ after'[j] = "run"
          /\ \A k \in Jobs \ {j} : pc'[k] = pc[k] /\ after'[k] = after[k]
          /\ \A k \in Jobs, n \in Manifests : call[k][n] = "none" => call'[k][n] = "none"
      BY <2>7 DEF CollectError, TypeInv
    <3>2. \A k \in Jobs : Early(k)' => Early(k) /\ k # j
      BY <3>1 DEF Early
    <3>. QED  BY <3>1, <3>2 DEF SingleInv, Running, Loaded, TypeInv
  <2>8. ASSUME NEW j \in Jobs, NEW m \in Manifests,
               Accept(j, m) \/ \E c \in {"ok", "error", "raised"} : Finish(j, m, c)
        PROVE  SingleInv'
    <3>1. /\ UNCHANGED <<pc, after, status, waiting, marked, disk, temp, open>>
          /\ \A k \in Jobs, n \in Manifests : call[k][n] = "none" => call'[k][n] = "none"
      BY <2>8 DEF Accept, Finish, TypeInv
    <3>. QED  BY <3>1 DEF SingleInv, Running, Loaded, TypeInv, Early
  <2>9. ASSUME NEW j \in Jobs, Drain(j) \/ \E m \in Manifests : CollectRaised(j, m)
        PROVE  SingleInv'
    <3>1. /\ UNCHANGED <<after, status, call, marked, disk, temp, open>>
          /\ pc[j] = "run" /\ pc'[j] \in {"run", "failing"}
          /\ \A k \in Jobs : (k # j => pc'[k] = pc[k]) /\ waiting'[k] \subseteq waiting[k]
      BY <2>9 DEF Drain, CollectRaised, TypeInv
    <3>2. \A k \in Jobs : Early(k)' => Early(k) /\ k # j
      BY <3>1 DEF Early
    <3>. QED  BY <3>1, <3>2 DEF SingleInv, Running, Loaded
  <2>10. ASSUME NEW j \in Jobs, Truncate(j) PROVE SingleInv'
    <3>1. /\ UNCHANGED <<after, status, call, waiting, marked, disk>> /\ Running(j) /\ pc[j] = "open"
          /\ temp' = Torn /\ open' = [open EXCEPT ![j] = "tmp"] /\ pc' = [pc EXCEPT ![j] = "write"]
      BY <2>10 DEF Truncate, Running, TypeInv
    <3>2. \A k \in Jobs : Running(k) => k = j
      BY <3>1 DEF SingleInv
    <3>3. \A k \in Jobs : Early(k)' => Early(k)
      BY <3>1 DEF Early, TypeInv
    <3>. QED  BY <3>1, <3>2, <3>3 DEF SingleInv, Running, Loaded, TypeInv
  <2>11. ASSUME NEW j \in Jobs, Write(j) PROVE SingleInv'
    <3>0. Running(j) /\ pc[j] = "write"
      BY <2>11 DEF Write, Running, TypeInv
    <3>1. open[j] = "tmp" /\ temp = Torn
      BY <3>0 DEF SingleInv
    <3>2. /\ UNCHANGED <<after, status, call, waiting, marked, open, disk>>
          /\ temp' = Text(marked[j]) /\ pc' = [pc EXCEPT ![j] = "replace"]
      BY <2>11, <3>1 DEF Write, Overwritten
    <3>3. \A k \in Jobs : Running(k) => k = j
      BY <3>0 DEF SingleInv
    <3>4. \A k \in Jobs : Early(k)' => Early(k)
      BY <3>2 DEF Early, TypeInv
    <3>. QED  BY <3>0, <3>2, <3>3, <3>4 DEF SingleInv, Running, Loaded, TypeInv
  <2>12. ASSUME NEW j \in Jobs, Replace(j) PROVE SingleInv'
    <3>0. Running(j) /\ pc[j] = "replace"
      BY <2>12 DEF Replace, Running, TypeInv
    <3>1. \A k \in Jobs : Running(k) => k = j
      BY <3>0 DEF SingleInv
    <3>2. \A k \in Jobs \ {j} : open[k] = "gone"
      BY <3>0, <3>1 DEF SingleInv, TypeInv
    <3>3. \A k \in Jobs : open'[k] = "gone"
      BY <2>12, <3>2 DEF Replace
    <3>4. /\ UNCHANGED <<after, status, call, waiting, marked>>
          /\ pc' = [pc EXCEPT ![j] = "check"] /\ disk' = Text(marked[j])
      BY <2>12, <3>0 DEF Replace, SingleInv
    <3>5. Loaded' = marked[j]
      BY <3>4 DEF Loaded, Text
    <3>6. \A k \in Jobs : Early(k)' => Early(k) \/ k = j
      BY <3>4 DEF Early, TypeInv
    <3>7. after[j] # "tier"
      BY <3>0 DEF SingleInv
    <3>8. \A k \in Jobs : Early(k)' => Early(k)
      BY <3>4, <3>6, <3>7 DEF Early, TypeInv
    <3>. QED  BY <3>1, <3>3, <3>4, <3>5, <3>8 DEF SingleInv, Running, TypeInv
  <2>13. ASSUME NEW j \in Jobs, ReplaceMissing(j) PROVE FALSE
    <3>1. Running(j) /\ pc[j] = "replace" /\ temp = Absent
      BY <2>13 DEF ReplaceMissing, Running, TypeInv
    <3>2. temp = Text(marked[j])
      BY <3>1 DEF SingleInv
    <3>. QED  BY <3>1, <3>2 DEF Text, Absent
  <2>14. CASE Crash
    <3>1. /\ \A k \in Jobs : ~Running(k)' /\ open'[k] = "gone"
          /\ \A k \in Jobs : Early(k)' => Early(k)
          /\ UNCHANGED <<call, waiting>>
      BY <2>14 DEF Crash, Running, TypeInv, Early
    <3>. QED  BY <3>1 DEF SingleInv
  <2>15. CASE UNCHANGED <<pc, after, status, pool, marked, files>>
    BY <2>15 DEF SingleInv, Running, Loaded, Early
  <2>. QED
    BY <2>1, <2>2, <2>3, <2>4, <2>5, <2>6, <2>7, <2>8, <2>9, <2>10, <2>11, <2>12, <2>13,
       <2>14, <2>15 DEF Next, Thread, Worker, Quiet, vars, RequestAbort
<1>. QED  BY <1>1, <1>2, TypeInvariant, PTL DEF Spec

(* If jobs follow one another, a manifest the file records is not          *)
(* submitted again, through aborts, failures and crashes.                  *)
THEOREM SavedStaysSaved ==
  ASSUME Exclusive
  PROVE  Spec => SavedNeverResent
<1>. USE DEF Goto, Emit, SetCall, job, pool, memory, files, service
<1>1. TypeInv /\ SingleInv /\ [Next]_vars =>
        [\A j \in Jobs : \A m \in Manifests :
           m \in Loaded /\ call[j][m] = "none" => call'[j][m] = "none"]_vars
  <2>. SUFFICES ASSUME TypeInv, SingleInv, Next,
                       NEW j \in Jobs, NEW m \in Manifests, m \in Loaded, call[j][m] = "none"
                PROVE  call'[j][m] = "none"
    OBVIOUS
  <2>1. ASSUME NEW k \in Jobs, NEW n \in Manifests, Start(k, n) PROVE call'[j][m] = "none"
    <3>1. Running(k) /\ n \in waiting[k] /\ call' = [call EXCEPT ![k][n] = "running"]
      BY <2>1 DEF Start, Running, TypeInv
    <3>2. n # m
      BY <3>1 DEF SingleInv
    <3>. QED  BY <3>1, <3>2 DEF TypeInv
  <2>2. ASSUME NEW k \in Jobs, NEW n \in Manifests,
               \/ CollectOk(k, n) \/ CollectError(k, n) \/ Accept(k, n)
               \/ \E c \in {"ok", "error", "raised"} : Finish(k, n, c)
        PROVE  call'[j][m] = "none"
    <3>1. PICK c \in Calls : call' = [call EXCEPT ![k][n] = c]
      BY <2>2 DEF CollectOk, CollectError, Accept, Finish, Calls
    <3>2. call[k][n] # "none"
      <4>1. CASE CollectOk(k, n) \/ CollectError(k, n) \/ Accept(k, n)
        BY <4>1 DEF CollectOk, Succeeded, CollectError, Accept
      <4>2. ASSUME NEW r \in {"ok", "error", "raised"}, Finish(k, n, r)
            PROVE  call[k][n] # "none"
        BY <4>2 DEF Finish
      <4>. QED  BY <2>2, <4>1, <4>2
    <3>. QED  BY <3>1, <3>2 DEF TypeInv
  <2>3. CASE UNCHANGED call
    BY <2>3
  <2>. QED
    BY <2>1, <2>2, <2>3
       DEF Next, Thread, Worker, Quiet, vars, Kick, RequestAbort, Check, Close, LoadStorage, SkipTier,
           OpenTier, CollectRaised, Drain, EndTier, Truncate, Write, Replace, ReplaceMissing, Crash
<1>. QED  BY <1>1, TypeInvariant, SingleInvariant, PTL DEF Spec, SavedNeverResent
-----------------------------------------------------------------------------
(* What a tier has still to start has not been started, and before its tier *)
(* is opened a job has submitted nothing, whichever other jobs run.         *)
PoolInv ==
  \A j \in Jobs :
    /\ \A m \in waiting[j] : call[j][m] = "none"
    /\ pc[j] \in {"run", "open", "write", "replace"} => after[j] # "tier"
    /\ Early(j) => waiting[j] = {} /\ \A m \in Manifests : call[j][m] = "none"

(* PoolInv is inductive.                                                   *)
LEMMA PoolInvariant == Spec => []PoolInv
<1>. USE DEF Goto, Emit, SetCall, job, pool, memory, files, service
<1>1. Init => PoolInv
  BY DEF Init, PoolInv, Early
<1>2. TypeInv /\ PoolInv /\ [Next]_vars => PoolInv'
  <2>. SUFFICES ASSUME TypeInv, PoolInv, [Next]_vars PROVE PoolInv'
    OBVIOUS
  <2>1. ASSUME UNCHANGED pool,
               \A k \in Jobs : /\ Early(k)' => Early(k)
                               /\ pc'[k] \in {"run", "open", "write", "replace"} => after'[k] # "tier"
        PROVE  PoolInv'
    BY <2>1 DEF PoolInv
  <2>2. ASSUME NEW j \in Jobs,
               \/ Kick(j) \/ RequestAbort(j) \/ Check(j) \/ Close(j) \/ LoadStorage(j) \/ SkipTier(j)
               \/ EndTier(j) \/ \E m \in Manifests : CollectRaised(j, m)
        PROVE  PoolInv'
    <3>1. UNCHANGED pool /\ \A k \in Jobs \ {j} : pc'[k] = pc[k] /\ after'[k] = after[k]
      BY <2>2 DEF Kick, RequestAbort, Check, Close, LoadStorage, SkipTier, EndTier, CollectRaised, TypeInv
    <3>2. Early(j)' => Early(j)
      BY <2>2 DEF Kick, RequestAbort, Check, Close, LoadStorage, SkipTier, EndTier, CollectRaised,
                  TypeInv, Early
    <3>3. pc'[j] \in {"run", "open", "write", "replace"} => after'[j] # "tier"
      BY <2>2 DEF Kick, RequestAbort, Check, Close, LoadStorage, SkipTier, EndTier, CollectRaised,
                  TypeInv, PoolInv
    <3>4. \A k \in Jobs : Early(k)' => Early(k)
      BY <3>1, <3>2 DEF Early
    <3>. QED  BY <2>1, <3>1, <3>3, <3>4 DEF PoolInv
  <2>3. ASSUME NEW j \in Jobs, Truncate(j) \/ Write(j) \/ Replace(j) \/ ReplaceMissing(j)
        PROVE  PoolInv'
    <3>1. /\ UNCHANGED <<pool, after>> /\ \A k \in Jobs \ {j} : pc'[k] = pc[k]
          /\ pc[j] \in {"open", "write", "replace"}
          /\ pc'[j] \in {"write", "replace", "check", "failing"}
      BY <2>3 DEF Truncate, Write, Replace, ReplaceMissing, TypeInv
    <3>2. after[j] # "tier"
      BY <3>1 DEF PoolInv
    <3>3. \A k \in Jobs : Early(k)' => Early(k)
      BY <3>1, <3>2 DEF Early
    <3>. QED  BY <2>1, <3>1, <3>2, <3>3 DEF PoolInv
  <2>4. ASSUME NEW j \in Jobs, OpenTier(j) PROVE PoolInv'
    <3>1. /\ UNCHANGED call /\ waiting'[j] \subseteq Manifests
          /\ \A k \in Jobs \ {j} : pc'[k] = pc[k] /\ waiting'[k] = waiting[k] /\ after'[k] = after[k]
          /\ pc[j] = "tier" /\ pc'[j] = "check" /\ after'[j] = "run"
      BY <2>4 DEF OpenTier, Remaining, TypeInv
    <3>2. \A m \in Manifests : call[j][m] = "none"
      BY <3>1 DEF PoolInv, Early
    <3>. QED  BY <3>1, <3>2 DEF PoolInv, Early
  <2>5. ASSUME NEW j \in Jobs, NEW m \in Manifests, Start(j, m) PROVE PoolInv'
    <3>1. /\ UNCHANGED <<pc, after>> /\ pc[j] = "run"
          /\ \A k \in Jobs \ {j} : call'[k] = call[k] /\ waiting'[k] = waiting[k]
          /\ waiting'[j] = waiting[j] \ {m}
          /\ \A n \in Manifests \ {m} : call'[j][n] = call[j][n]
      BY <2>5 DEF Start, TypeInv
    <3>2. waiting[j] \subseteq Manifests
      BY DEF TypeInv
    <3>. QED  BY <3>1, <3>2 DEF PoolInv, Early
  <2>6. ASSUME NEW j \in Jobs, NEW m \in Manifests, CollectOk(j, m) \/ CollectError(j, m)
        PROVE  PoolInv'
    <3>1. /\ UNCHANGED waiting /\ call[j][m] # "none"
          /\ \A k \in Jobs \ {j} : call'[k] = call[k] /\ pc'[k] = pc[k] /\ after'[k] = after[k]
          /\ \A n \in Manifests \ {m} : call'[j][n] = call[j][n]
          /\ pc'[j] \in {"open", "check"} /\ after'[j] = "run"
      BY <2>6 DEF CollectOk, CollectError, Succeeded, TypeInv
    <3>2. waiting[j] \subseteq Manifests \ {m}
      BY <3>1 DEF TypeInv, PoolInv
    <3>. QED  BY <3>1, <3>2 DEF PoolInv, Early
  <2>7. ASSUME NEW j \in Jobs, NEW m \in Manifests,
               Accept(j, m) \/ \E c \in {"ok", "error", "raised"} : Finish(j, m, c)
        PROVE  PoolInv'
    <3>1. /\ UNCHANGED <<pc, after, waiting>>
          /\ \A k \in Jobs, n \in Manifests : call[k][n] = "none" => call'[k][n] = "none"
      BY <2>7 DEF Accept, Finish, TypeInv
    <3>. QED  BY <3>1 DEF PoolInv, Early, TypeInv
  <2>8. ASSUME NEW j \in Jobs, Drain(j) PROVE PoolInv'
    <3>1. UNCHANGED <<pc, after, call>> /\ \A k \in Jobs : waiting'[k] \subseteq waiting[k]
      BY <2>8 DEF Drain, TypeInv
    <3>. QED  BY <3>1 DEF PoolInv, Early
  <2>9. CASE Crash
    <3>1. UNCHANGED <<pool, after>> /\ \A k \in Jobs : pc'[k] \in {pc[k], "over"}
      BY <2>9 DEF Crash, TypeInv
    <3>2. \A k \in Jobs : Early(k)' => Early(k)
      BY <3>1 DEF Early
    <3>. QED  BY <2>1, <3>1, <3>2 DEF PoolInv
  <2>10. CASE UNCHANGED vars
    BY <2>10 DEF vars, PoolInv, Early
  <2>. QED
    BY <2>2, <2>3, <2>4, <2>5, <2>6, <2>7, <2>8, <2>9, <2>10 DEF Next, Thread, Worker, Quiet
<1>. QED  BY <1>1, <1>2, TypeInvariant, PTL DEF Spec

-----------------------------------------------------------------------------
(* Each job has a manifest taken once at most: what the service took is    *)
(* vouched for by as many jobs, and the counter of marks is reset by a     *)
(* save before it outgrows the rhythm.                                     *)
Takers(m) == {j \in Jobs : call[j][m] \notin {"none", "running"}}

CountInv ==
  /\ \A m \in Manifests : minted[m] <= Cardinality(Takers(m))
  /\ abort \in [Jobs -> BOOLEAN] /\ unsaved \in [Jobs -> 0 .. SaveEvery]
  /\ \A j \in Jobs : pc[j] \notin {"open", "over"} => unsaved[j] < SaveEvery
  /\ doubt \in SUBSET Manifests /\ crashed \in 0 .. Crashes

(* A set of jobs is finite, and a larger one has no fewer.                 *)
LEMMA MoreTakers ==
  ASSUME NEW S \in SUBSET Jobs, NEW T \in SUBSET Jobs
  PROVE  /\ Cardinality(S) \in Nat
         /\ S \subseteq T => Cardinality(S) <= Cardinality(T)
         /\ \A j \in T \ S : S \subseteq T => Cardinality(S) + 1 <= Cardinality(T)
<1>1. IsFiniteSet(S) /\ IsFiniteSet(T)
  BY FS_Subset, IntervalAssumption
<1>2. ASSUME NEW j \in T \ S, S \subseteq T PROVE Cardinality(S) + 1 <= Cardinality(T)
  <2>1. IsFiniteSet(S \cup {j}) /\ Cardinality(S \cup {j}) = Cardinality(S) + 1
    BY <1>1, FS_AddElement
  <2>2. S \cup {j} \subseteq T
    BY <1>2
  <2>. QED  BY <1>1, <2>1, <2>2, FS_Subset, FS_CardinalityType
<1>. QED  BY <1>1, <1>2, FS_Subset, FS_CardinalityType

(* No step but that of the service raises what it took, and no step takes  *)
(* a taker away: a manifest is started only if its job never started it.   *)
LEMMA TakersStep ==
  ASSUME TypeInv, PoolInv, CountInv, [Next]_vars
  PROVE  \A m \in Manifests : minted'[m] <= Cardinality(Takers(m)')
<1>. USE DEF Goto, Emit, SetCall, job, pool, memory, files, service
<1>1. ASSUME NEW m \in Manifests, minted'[m] = minted[m], Takers(m) \subseteq Takers(m)'
      PROVE  minted'[m] <= Cardinality(Takers(m)')
  <2>1. Takers(m) \in SUBSET Jobs /\ Takers(m)' \in SUBSET Jobs
    BY DEF Takers
  <2>2. Cardinality(Takers(m)) \in Nat /\ Cardinality(Takers(m)') \in Nat
        /\ Cardinality(Takers(m)) <= Cardinality(Takers(m)')
    BY <1>1, <2>1, MoreTakers
  <2>. QED  BY <1>1, <2>2 DEF CountInv, TypeInv
<1>2. ASSUME NEW j \in Jobs, NEW n \in Manifests, Start(j, n)
      PROVE  UNCHANGED minted /\ \A m \in Manifests : Takers(m) \subseteq Takers(m)'
  <2>1. call[j][n] = "none" /\ call' = [call EXCEPT ![j][n] = "running"] /\ UNCHANGED minted
    BY <1>2 DEF Start, PoolInv
  <2>. QED  BY <2>1 DEF Takers, TypeInv
<1>3. ASSUME NEW j \in Jobs, NEW n \in Manifests,
             CollectOk(j, n) \/ CollectError(j, n) \/ \E c \in {"ok", "error", "raised"} : Finish(j, n, c)
      PROVE  UNCHANGED minted /\ \A m \in Manifests : Takers(m) \subseteq Takers(m)'
  <2>1. PICK c \in {"ok", "error", "raised", "collected"} : call' = [call EXCEPT ![j][n] = c]
    BY <1>3 DEF CollectOk, CollectError, Finish
  <2>2. UNCHANGED minted
    BY <1>3 DEF CollectOk, CollectError, Finish
  <2>. QED  BY <2>1, <2>2 DEF Takers, TypeInv
<1>4. ASSUME NEW j \in Jobs, NEW n \in Manifests, Accept(j, n)
      PROVE  \A m \in Manifests : minted'[m] <= Cardinality(Takers(m)')
  <2>1. /\ call[j][n] = "running" /\ call' = [call EXCEPT ![j][n] = "accepted"]
        /\ minted' = [minted EXCEPT ![n] = @ + 1]
    BY <1>4 DEF Accept
  <2>2. ASSUME NEW m \in Manifests PROVE Takers(m) \subseteq Takers(m)'
    BY <2>1 DEF Takers, TypeInv
  <2>3. j \in Takers(n)' /\ j \notin Takers(n) /\ Takers(n) \in SUBSET Jobs /\ Takers(n)' \in SUBSET Jobs
    BY <2>1 DEF Takers, TypeInv
  <2>4. Cardinality(Takers(n)) \in Nat /\ Cardinality(Takers(n)') \in Nat
        /\ Cardinality(Takers(n)) + 1 <= Cardinality(Takers(n)')
    BY <2>2, <2>3, MoreTakers
  <2>5. minted'[n] <= Cardinality(Takers(n)')
    BY <2>1, <2>4 DEF CountInv, TypeInv
  <2>6. ASSUME NEW m \in Manifests \ {n} PROVE minted'[m] <= Cardinality(Takers(m)')
    <3>1. minted'[m] = minted[m]
      BY <2>1 DEF TypeInv
    <3>. QED  BY <1>1, <2>2, <3>1
  <2>. QED  BY <2>5, <2>6
<1>5. CASE UNCHANGED <<call, minted>>
  BY <1>1, <1>5 DEF Takers
<1>. QED
  BY <1>1, <1>2, <1>3, <1>4, <1>5
     DEF Next, Thread, Worker, Quiet, vars, Kick, RequestAbort, Check, Close, LoadStorage, SkipTier,
         OpenTier, CollectRaised, Drain, EndTier, Truncate, Write, Replace, ReplaceMissing, Crash

(* The counter of unsaved marks, the flags and the bounds.                 *)
LEMMA CountersStep ==
  ASSUME TypeInv, CountInv, [Next]_vars
  PROVE  /\ abort' \in [Jobs -> BOOLEAN] /\ unsaved' \in [Jobs -> 0 .. SaveEvery]
         /\ \A j \in Jobs : pc'[j] \notin {"open", "over"} => unsaved'[j] < SaveEvery
         /\ doubt' \in SUBSET Manifests /\ crashed' \in 0 .. Crashes
<1>. USE IntervalAssumption DEF CountInv, TypeInv, Goto, Emit, job, pool, memory, files, service
<1>1. ASSUME NEW j \in Jobs, NEW p \in Places, pc' = [pc EXCEPT ![j] = p], UNCHANGED <<unsaved, abort, doubt, crashed>>,
             pc[j] \notin {"open", "over"} \/ p \in {"open", "over"}
      PROVE  /\ abort' \in [Jobs -> BOOLEAN] /\ unsaved' \in [Jobs -> 0 .. SaveEvery]
             /\ \A k \in Jobs : pc'[k] \notin {"open", "over"} => unsaved'[k] < SaveEvery
             /\ doubt' \in SUBSET Manifests /\ crashed' \in 0 .. Crashes
  BY <1>1
<1>2. ASSUME NEW j \in Jobs, Kick(j)
      PROVE  pc' = [pc EXCEPT ![j] = "storage"] /\ UNCHANGED <<unsaved, abort, doubt, crashed>> /\ pc[j] = "new"
  BY <1>2 DEF Kick
<1>3. ASSUME NEW j \in Jobs,
             \/ Check(j) \/ Close(j) \/ LoadStorage(j) \/ SkipTier(j) \/ OpenTier(j) \/ EndTier(j)
             \/ Write(j) \/ Replace(j) \/ ReplaceMissing(j)
             \/ \E m \in Manifests : CollectError(j, m) \/ CollectRaised(j, m)
      PROVE  \E p \in Places : /\ pc' = [pc EXCEPT ![j] = p] /\ UNCHANGED <<unsaved, abort, doubt, crashed>>
                               /\ pc[j] \notin {"open", "over"}
  BY <1>3 DEF Check, Close, LoadStorage, SkipTier, OpenTier, EndTier, Write, Replace, ReplaceMissing,
       CollectError, CollectRaised, Places
<1>4. ASSUME NEW j \in Jobs, RequestAbort(j) \/ Drain(j) \/ \E m \in Manifests : Start(j, m) \/ Accept(j, m)
      PROVE  UNCHANGED <<pc, unsaved, doubt, crashed>> /\ abort' \in [Jobs -> BOOLEAN]
  BY <1>4 DEF RequestAbort, Drain, Start, Accept
<1>5. ASSUME NEW j \in Jobs, Worker(j)
      PROVE  UNCHANGED <<pc, unsaved, abort, crashed>> /\ doubt' \in SUBSET Manifests
  BY <1>5 DEF Worker, Finish
<1>6. ASSUME NEW j \in Jobs, NEW m \in Manifests, CollectOk(j, m)
      PROVE  /\ unsaved' \in [Jobs -> 0 .. SaveEvery] /\ UNCHANGED <<abort, doubt, crashed>>
             /\ \A k \in Jobs : pc'[k] \notin {"open", "over"} => unsaved'[k] < SaveEvery
  <2>1. unsaved[j] < SaveEvery /\ unsaved' = [unsaved EXCEPT ![j] = @ + 1]
    BY <1>6 DEF CollectOk
  <2>2. pc' = [pc EXCEPT ![j] = IF SaveDue(j) THEN "open" ELSE "check"] /\ UNCHANGED <<abort, doubt, crashed>>
    BY <1>6 DEF CollectOk
  <2>. QED  BY <2>1, <2>2 DEF SaveDue
<1>7. ASSUME NEW j \in Jobs, Truncate(j)
      PROVE  /\ unsaved' \in [Jobs -> 0 .. SaveEvery] /\ UNCHANGED <<abort, doubt, crashed>>
             /\ \A k \in Jobs : pc'[k] \notin {"open", "over"} => unsaved'[k] < SaveEvery
  BY <1>7 DEF Truncate, ResetCount
<1>8. CASE Crash
  BY <1>8 DEF Crash
<1>9. CASE UNCHANGED vars
  BY <1>9 DEF vars
<1>. HIDE DEF CountInv, TypeInv
<1>10. ASSUME NEW j \in Jobs, Kick(j) \/ RequestAbort(j) \/ Thread(j) \/ Worker(j) \/ \E m \in Manifests : Accept(j, m)
       PROVE  /\ abort' \in [Jobs -> BOOLEAN] /\ unsaved' \in [Jobs -> 0 .. SaveEvery]
              /\ \A k \in Jobs : pc'[k] \notin {"open", "over"} => unsaved'[k] < SaveEvery
              /\ doubt' \in SUBSET Manifests /\ crashed' \in 0 .. Crashes
  <2>1. CASE Kick(j)
    BY <2>1, <1>1, <1>2 DEF Places
  <2>2. CASE \/ Check(j) \/ Close(j) \/ LoadStorage(j) \/ SkipTier(j) \/ OpenTier(j) \/ EndTier(j)
             \/ Write(j) \/ Replace(j) \/ ReplaceMissing(j)
             \/ \E m \in Manifests : CollectError(j, m) \/ CollectRaised(j, m)
    <3>1. PICK p \in Places : /\ pc' = [pc EXCEPT ![j] = p] /\ UNCHANGED <<unsaved, abort, doubt, crashed>>
                              /\ pc[j] \notin {"open", "over"}
      BY <2>2, <1>3
    <3>. QED  BY <3>1, <1>1
  <2>3. CASE \/ RequestAbort(j) \/ Drain(j) \/ \E m \in Manifests : Start(j, m) \/ Accept(j, m)
    BY <2>3, <1>4 DEF CountInv
  <2>4. CASE Worker(j)
    BY <2>4, <1>5 DEF CountInv
  <2>5. CASE Truncate(j) \/ \E m \in Manifests : CollectOk(j, m)
    BY <2>5, <1>6, <1>7 DEF CountInv
  <2>. QED  BY <1>10, <2>1, <2>2, <2>3, <2>4, <2>5 DEF Thread
<1>. QED  BY <1>8, <1>9, <1>10 DEF Next, Quiet

(* Every variable keeps to its type, however many jobs run at once, stop   *)
(* or die; in particular the service never takes a manifest more often     *)
(* than there were jobs, since no job sends one twice.                     *)
THEOREM TypeCorrect == Spec => []TypeOK
<1>1. Init => CountInv
  <2>. SUFFICES ASSUME Init PROVE CountInv
    OBVIOUS
  <2>1. ASSUME NEW m \in Manifests PROVE minted[m] <= Cardinality(Takers(m))
    <3>1. Takers(m) \in SUBSET Jobs /\ minted[m] = 0
      BY DEF Init, Takers
    <3>2. Cardinality(Takers(m)) \in Nat
      BY <3>1, MoreTakers
    <3>. QED  BY <3>1, <3>2
  <2>. QED  BY <2>1, IntervalAssumption DEF Init, CountInv
<1>2. TypeInv /\ PoolInv /\ CountInv /\ [Next]_vars => CountInv'
  BY TakersStep, CountersStep DEF CountInv
<1>3. TypeInv /\ CountInv => TypeOK
  <2>. SUFFICES ASSUME TypeInv, CountInv PROVE TypeOK
    OBVIOUS
  <2>1. ASSUME NEW m \in Manifests PROVE minted[m] \in 0 .. Cardinality(Jobs)
    <3>1. Takers(m) \in SUBSET Jobs /\ Jobs \in SUBSET Jobs
      BY DEF Takers
    <3>2. /\ Cardinality(Takers(m)) \in Nat /\ Cardinality(Jobs) \in Nat
          /\ Cardinality(Takers(m)) <= Cardinality(Jobs)
      BY <3>1, MoreTakers
    <3>. QED  BY <3>2 DEF TypeInv, CountInv
  <2>. QED  BY <2>1 DEF TypeInv, CountInv, TypeOK, Places
<1>. QED  BY <1>1, <1>2, <1>3, TypeInvariant, PoolInvariant, PTL DEF Spec

(* The pool's stage of a manifest, one stage at a time.                    *)
LEMMA StageOf ==
  ASSUME NEW j, NEW m
  PROVE  /\ call[j][m] = "none" => Stage(j, m) = "waiting"
         /\ call[j][m] \in {"running", "accepted"} => Stage(j, m) = "running"
         /\ call[j][m] \in {"ok", "error", "raised"} => Stage(j, m) = "finished"
         /\ call[j][m] = "collected" => Stage(j, m) = "delivered"
BY DEF Stage

Leaving == {"closing", "failing", "over"}

(* What the pool of a job sees of a step: the stages of the manifests and  *)
(* whether the job's thread has left the runner.                           *)
PoolStep(j) == Pool(j)!Next \/ UNCHANGED Pool(j)!poolVars

(* A step that leaves the stages alone is one of the pool.                 *)
LEMMA StageFrame ==
  ASSUME NEW j \in Jobs,
         \A m \in Manifests : Stage(j, m)' = Stage(j, m),
         pc[j] \in Leaving => pc'[j] \in Leaving
  PROVE  PoolStep(j)
<1>1. UNCHANGED [m \in Manifests |-> Stage(j, m)]
  OBVIOUS
<1>2. CASE pc'[j] \in Leaving
  BY <1>1, <1>2 DEF PoolStep, Pool!Next, Pool!Close, Leaving
<1>3. CASE pc'[j] \notin Leaving
  BY <1>1, <1>3 DEF PoolStep, Pool!poolVars, Leaving
<1>. QED  BY <1>2, <1>3

(* A step that changes the stage of one manifest is a move of the pool.    *)
LEMMA StageMove ==
  ASSUME NEW j \in Jobs, NEW m \in Manifests, NEW from, NEW to,
         \A n \in Manifests \ {m} : Stage(j, n)' = Stage(j, n),
         Stage(j, m) = from, Stage(j, m)' = to,
         pc[j] \in Leaving <=> pc'[j] \in Leaving
  PROVE  Pool(j)!Move(m, from, to)
<1>1. \A n \in Manifests : Stage(j, n)' = IF n = m THEN to ELSE Stage(j, n)
  OBVIOUS
<1>2. [n \in Manifests |-> Stage(j, n)]' = [[n \in Manifests |-> Stage(j, n)] EXCEPT ![m] = to]
  BY <1>1
<1>3. UNCHANGED (pc[j] \in {"closing", "failing", "over"})
  BY DEF Leaving
<1>. QED  BY <1>2, <1>3 DEF Pool!Move

(* The counted items of a job's pool are its pending submits.              *)
LEMMA PoolCount ==
  ASSUME TypeInv, NEW j \in Jobs
  PROVE  Pool(j)!At("running") \cup Pool(j)!At("finished") = Pending(j)
<1>1. \A m \in Manifests : m \in Pending(j) <=> Stage(j, m) \in {"running", "finished"}
  <2>. SUFFICES ASSUME NEW m \in Manifests
                PROVE  m \in Pending(j) <=> Stage(j, m) \in {"running", "finished"}
    OBVIOUS
  <2>1. call[j][m] \in Calls
    BY DEF TypeInv
  <2>. QED  BY <2>1, StageOf DEF Pending, Calls
<1>2. Pending(j) \subseteq Manifests
  BY DEF Pending
<1>. QED  BY <1>1, <1>2 DEF Pool!At

(* The submits of every job go through a work pool of the policy's width,  *)
(* however many jobs load the interval at once, aborted, failed or dead.   *)
THEOREM JobsUsePools == Spec => UsesPool
<1>. USE DEF Goto, Emit, SetCall, job, pool, memory, files, service
<1>1. Init => \A j \in Jobs : Pool(j)!Init
  <2>. SUFFICES ASSUME Init, NEW j \in Jobs PROVE Pool(j)!Init
    OBVIOUS
  <2>1. [m \in Manifests |-> Stage(j, m)] = [m \in Manifests |-> "waiting"]
    BY StageOf DEF Init
  <2>2. pc[j] \notin {"closing", "failing", "over"}
    BY DEF Init
  <2>. QED  BY <2>1, <2>2 DEF Pool!Init
<1>2. TypeInv /\ PoolInv /\ [Next]_vars => \A j \in Jobs : PoolStep(j)
  <2>. SUFFICES ASSUME TypeInv, PoolInv, [Next]_vars, NEW j \in Jobs PROVE PoolStep(j)
    OBVIOUS
  <2>1. ASSUME UNCHANGED call[j], pc[j] \in Leaving => pc'[j] \in Leaving
        PROVE  PoolStep(j)
    BY <2>1, StageFrame DEF Stage
  <2>2. ASSUME NEW k \in Jobs,
               \/ Kick(k) \/ RequestAbort(k) \/ Check(k) \/ Close(k) \/ LoadStorage(k) \/ SkipTier(k)
               \/ OpenTier(k) \/ EndTier(k) \/ Drain(k) \/ \E m \in Manifests : CollectRaised(k, m)
        PROVE  PoolStep(j)
    <3>1. UNCHANGED call /\ (pc[j] \in Leaving => pc'[j] \in Leaving)
      BY <2>2 DEF Kick, RequestAbort, Check, Close, LoadStorage, SkipTier, OpenTier, EndTier, Drain,
                  CollectRaised, TypeInv, Leaving
    <3>. QED  BY <3>1, <2>1
  <2>3. ASSUME NEW k \in Jobs, Truncate(k) \/ Write(k) \/ Replace(k) \/ ReplaceMissing(k)
        PROVE  PoolStep(j)
    <3>1. UNCHANGED call /\ (pc[j] \in Leaving => pc'[j] \in Leaving)
      BY <2>3 DEF Truncate, Write, Replace, ReplaceMissing, TypeInv, Leaving
    <3>. QED  BY <3>1, <2>1
  <2>4. ASSUME NEW k \in Jobs \ {j}, NEW m \in Manifests,
               \/ Start(k, m) \/ CollectOk(k, m) \/ CollectError(k, m) \/ Accept(k, m)
               \/ \E c \in {"ok", "error", "raised"} : Finish(k, m, c)
        PROVE  PoolStep(j)
    <3>1. UNCHANGED call[j] /\ pc'[j] = pc[j]
      BY <2>4 DEF Start, CollectOk, CollectError, Accept, Finish, TypeInv
    <3>. QED  BY <3>1, <2>1
  <2>5. ASSUME NEW m \in Manifests, NEW c \in Calls, call' = [call EXCEPT ![j][m] = c]
        PROVE  call'[j][m] = c /\ \A n \in Manifests \ {m} : Stage(j, n)' = Stage(j, n)
    BY <2>5 DEF TypeInv, Stage
  <2>6. ASSUME NEW m \in Manifests, Start(j, m) PROVE PoolStep(j)
    <3>1. /\ pc[j] = "run" /\ pc' = pc /\ m \in waiting[j] /\ Room(j)
          /\ call' = [call EXCEPT ![j][m] = "running"]
      BY <2>6 DEF Start
    <3>2. Stage(j, m) = "waiting"
      BY <3>1, StageOf DEF PoolInv
    <3>3. call'[j][m] = "running" /\ \A n \in Manifests \ {m} : Stage(j, n)' = Stage(j, n)
      BY <3>1, <2>5 DEF Calls
    <3>4. Stage(j, m)' = "running"
      BY <3>3 DEF Stage
    <3>5. Pool(j)!Move(m, "waiting", "running")
      BY <3>1, <3>2, <3>3, <3>4, StageMove DEF Leaving
    <3>6. Pool(j)!Cardinality(Pool(j)!At("running") \cup Pool(j)!At("finished")) < Width
      BY <3>1, PoolCount DEF Room, Pool!Cardinality, Cardinality
    <3>7. pc[j] \notin {"closing", "failing", "over"}
      BY <3>1
    <3>8. Pool(j)!Start(m)
      BY <3>5, <3>6, <3>7 DEF Pool!Start
    <3>. QED  BY <3>8 DEF PoolStep, Pool!Next
  <2>7. ASSUME NEW m \in Manifests, CollectOk(j, m) \/ CollectError(j, m) PROVE PoolStep(j)
    <3>1. /\ pc[j] = "run" /\ pc'[j] \in {"open", "check"} /\ call[j][m] \in {"ok", "error"}
          /\ call' = [call EXCEPT ![j][m] = "collected"]
      BY <2>7 DEF CollectOk, CollectError, Succeeded, TypeInv
    <3>2. Stage(j, m) = "finished"
      BY <3>1, StageOf
    <3>3. call'[j][m] = "collected" /\ \A n \in Manifests \ {m} : Stage(j, n)' = Stage(j, n)
      BY <3>1, <2>5 DEF Calls
    <3>4. Stage(j, m)' = "delivered"
      BY <3>3 DEF Stage
    <3>5. Pool(j)!Move(m, "finished", "delivered")
      BY <3>1, <3>2, <3>3, <3>4, StageMove DEF Leaving
    <3>6. pc[j] \notin {"closing", "failing", "over"}
      BY <3>1
    <3>7. Pool(j)!Deliver(m)
      BY <3>5, <3>6 DEF Pool!Deliver
    <3>. QED  BY <3>7 DEF PoolStep, Pool!Next
  <2>8. ASSUME NEW m \in Manifests, NEW c \in {"ok", "error", "raised"}, Finish(j, m, c)
        PROVE  PoolStep(j)
    <3>1. /\ pc' = pc /\ call[j][m] \in {"running", "accepted"}
          /\ call' = [call EXCEPT ![j][m] = c]
      BY <2>8 DEF Finish
    <3>2. Stage(j, m) = "running"
      BY <3>1, StageOf
    <3>3. call'[j][m] = c /\ \A n \in Manifests \ {m} : Stage(j, n)' = Stage(j, n)
      BY <3>1, <2>5 DEF Calls
    <3>4. Stage(j, m)' = "finished"
      BY <3>3 DEF Stage
    <3>5. Pool(j)!Move(m, "running", "finished")
      BY <3>1, <3>2, <3>3, <3>4, StageMove
    <3>6. Pool(j)!Finish(m)
      BY <3>5 DEF Pool!Finish
    <3>. QED  BY <3>6 DEF PoolStep, Pool!Next
  <2>9. ASSUME NEW m \in Manifests, Accept(j, m) PROVE PoolStep(j)
    <3>1. pc' = pc /\ call[j][m] = "running" /\ call' = [call EXCEPT ![j][m] = "accepted"]
      BY <2>9 DEF Accept
    <3>2. call'[j][m] = "accepted" /\ \A n \in Manifests \ {m} : Stage(j, n)' = Stage(j, n)
      BY <3>1, <2>5 DEF Calls
    <3>3. Stage(j, m)' = Stage(j, m)
      BY <3>1, <3>2 DEF Stage
    <3>. QED  BY <3>1, <3>2, <3>3, StageFrame
  <2>10. CASE Crash
    <3>1. UNCHANGED call /\ pc'[j] \in {pc[j], "over"}
      BY <2>10 DEF Crash, TypeInv
    <3>. QED  BY <3>1, <2>1 DEF Leaving
  <2>11. CASE UNCHANGED vars
    BY <2>11, <2>1 DEF vars
  <2>. QED
    <3>1. ASSUME NEW k \in Jobs, Thread(k) PROVE PoolStep(j)
      BY <3>1, <2>2, <2>3, <2>4, <2>6, <2>7 DEF Thread
    <3>2. ASSUME NEW k \in Jobs, Worker(k) PROVE PoolStep(j)
      BY <3>2, <2>4, <2>8 DEF Worker
    <3>3. ASSUME NEW k \in Jobs, NEW m \in Manifests, Accept(k, m) PROVE PoolStep(j)
      BY <3>3, <2>4, <2>9
    <3>. QED  BY <2>2, <2>10, <2>11, <3>1, <3>2, <3>3 DEF Next, Quiet
<1>3. TypeInv /\ PoolInv /\ [Next]_vars =>
        [\A j \in Jobs : Pool(j)!Next \/ UNCHANGED Pool(j)!poolVars]_vars
  BY <1>2 DEF PoolStep
<1>. QED  BY <1>1, <1>3, TypeInvariant, PoolInvariant, PTL DEF Spec, UsesPool
-----------------------------------------------------------------------------
(* What a job could lose: its marks that its file does not record.         *)
Unsaved(j) == marked[j] \ Loaded

(* While the file is written its old content lacks at most SaveEvery marks *)
(* and one place of the pool is free; else it lacks as many as were counted.*)
ExposedBy(j) ==
  /\ Cardinality(Unsaved(j)) <= IF pc[j] \in {"write", "replace"} THEN SaveEvery ELSE unsaved[j]
  /\ unsaved[j] < SaveEvery \/ (pc[j] = "open" /\ unsaved[j] = SaveEvery)
  /\ Cardinality(Pending(j)) + (IF pc[j] \in {"open", "write", "replace"} THEN 1 ELSE 0) <= Width
  /\ \/ pc[j] = "check" /\ after[j] = "closing"
     \/ pc[j] = "closing" /\ ~abort[j]
     => Unsaved(j) = {}

ExposureInv ==
  /\ unsaved \in [Jobs -> Nat] /\ abort \in [Jobs -> BOOLEAN]
  /\ \A j \in Jobs :
       /\ Running(j) => ExposedBy(j)
       /\ status[j] = "none" => unsaved[j] = 0
       /\ status[j] = "done" => Unsaved(j) = {}

(* A subset of finitely many elements and one more has at most one more.   *)
LEMMA CountGrows ==
  ASSUME NEW S, IsFiniteSet(S), NEW x, NEW T, T \subseteq S \cup {x}
  PROVE  Cardinality(T) \in Nat /\ Cardinality(S) \in Nat /\ Cardinality(T) <= Cardinality(S) + 1
<1>1. Cardinality(S) \in Nat
  BY FS_CardinalityType
<1>2. /\ IsFiniteSet(S \cup {x})
      /\ Cardinality(S \cup {x}) = Cardinality(S) \/ Cardinality(S \cup {x}) = Cardinality(S) + 1
  BY FS_AddElement
<1>3. Cardinality(T) \in Nat /\ Cardinality(T) <= Cardinality(S \cup {x})
  BY <1>2, FS_Subset, FS_CardinalityType
<1>. QED  BY <1>1, <1>2, <1>3

(* A subset of a finite set has no more elements.                          *)
LEMMA CountShrinks ==
  ASSUME NEW S, IsFiniteSet(S), NEW T, T \subseteq S
  PROVE  Cardinality(T) \in Nat /\ Cardinality(S) \in Nat /\ Cardinality(T) <= Cardinality(S)
BY FS_Subset, FS_CardinalityType

(* Marks and submits of one interval are finitely many.                    *)
LEMMA JobFinite ==
  ASSUME TypeInv, NEW j \in Jobs
  PROVE  /\ IsFiniteSet(Unsaved(j)) /\ Cardinality(Unsaved(j)) \in Nat
         /\ IsFiniteSet(Pending(j)) /\ Cardinality(Pending(j)) \in Nat
<1>1. Unsaved(j) \subseteq Manifests /\ Pending(j) \subseteq Manifests
  BY DEF Unsaved, Pending, TypeInv
<1>. QED  BY <1>1, FS_Subset, FS_CardinalityType, IntervalAssumption

(* If jobs follow one another, the file never forgets what it records.     *)
LEMMA LoadedGrows ==
  ASSUME TypeInv, SingleInv, [Next]_vars
  PROVE  Loaded \subseteq Loaded'
<1>. USE DEF Goto, Emit, SetCall, job, pool, memory, files, service
<1>1. ASSUME NEW j \in Jobs, Write(j) PROVE UNCHANGED disk
  <2>1. open[j] # "disk"
    BY DEF SingleInv
  <2>. QED  BY <1>1, <2>1 DEF Write
<1>2. ASSUME NEW j \in Jobs, Replace(j) PROVE Loaded \subseteq Loaded'
  <2>1. Running(j) /\ pc[j] = "replace"
    BY <1>2 DEF Replace, Running, TypeInv
  <2>2. Loaded \subseteq marked[j] /\ disk' = Text(marked[j])
    BY <1>2, <2>1 DEF Replace, SingleInv
  <2>3. Loaded' = marked[j]
    BY <2>2 DEF Loaded, Text
  <2>. QED  BY <2>2, <2>3
<1>3. CASE UNCHANGED disk
  BY <1>3 DEF Loaded
<1>. QED
  BY <1>1, <1>2, <1>3
     DEF Next, Thread, Worker, Quiet, vars, Kick, RequestAbort, Check, Close, LoadStorage, SkipTier,
         OpenTier, Start, CollectOk, CollectError, CollectRaised, Drain, EndTier, Truncate,
         ReplaceMissing, Finish, Accept, Crash

(* Bounds survive a step of another job.                                   *)
LEMMA OthersKeep ==
  ASSUME TypeInv, ExposureInv, Loaded \subseteq Loaded', NEW k \in Jobs,
         pc'[k] = pc[k], after'[k] = after[k], status'[k] = status[k], abort'[k] = abort[k],
         marked'[k] = marked[k], unsaved'[k] = unsaved[k], Pending(k)' = Pending(k)
  PROVE  /\ Running(k)' => ExposedBy(k)'
         /\ status'[k] = "none" => unsaved'[k] = 0
         /\ status'[k] = "done" => Unsaved(k)' = {}
<1>1. Unsaved(k)' \subseteq Unsaved(k)
  BY DEF Unsaved
<1>2. /\ Cardinality(Unsaved(k)') \in Nat /\ Cardinality(Unsaved(k)) \in Nat
      /\ Cardinality(Unsaved(k)') <= Cardinality(Unsaved(k))
  BY <1>1, JobFinite, CountShrinks
<1>3. unsaved[k] \in Nat /\ SaveEvery \in Nat
  BY IntervalAssumption DEF ExposureInv
<1>4. ASSUME Running(k)' PROVE ExposedBy(k)'
  <2>1. ExposedBy(k)
    BY <1>4 DEF ExposureInv, Running
  <2>2. Cardinality(Unsaved(k))' <= IF pc'[k] \in {"write", "replace"} THEN SaveEvery ELSE unsaved'[k]
    BY <1>2, <1>3, <2>1 DEF ExposedBy
  <2>. QED  BY <1>1, <2>1, <2>2 DEF ExposedBy
<1>. QED  BY <1>1, <1>4 DEF ExposureInv

(* What a step of one job must show for the invariant to hold after it.    *)
LEMMA OneJobMoves ==
  ASSUME TypeInv, ExposureInv, Loaded \subseteq Loaded', NEW j \in Jobs,
         unsaved' \in [Jobs -> Nat], abort' \in [Jobs -> BOOLEAN],
         \A k \in Jobs \ {j} :
           /\ pc'[k] = pc[k] /\ after'[k] = after[k] /\ status'[k] = status[k] /\ abort'[k] = abort[k]
           /\ marked'[k] = marked[k] /\ unsaved'[k] = unsaved[k] /\ Pending(k)' = Pending(k),
         Running(j)' => ExposedBy(j)',
         status'[j] = "none" => unsaved'[j] = 0,
         status'[j] = "done" => Unsaved(j)' = {}
  PROVE  ExposureInv'
BY OthersKeep DEF ExposureInv

(* ExposureInv is inductive when jobs follow one another.                  *)
LEMMA ExposureInvariant ==
  ASSUME Exclusive
  PROVE  Spec => []ExposureInv
<1>. USE DEF Goto, Emit, SetCall, job, pool, memory, files, service
<1>1. Init => ExposureInv
  BY DEF Init, ExposureInv, Running
<1>2. TypeInv /\ SingleInv /\ ExposureInv /\ [Next]_vars => ExposureInv'
  <2>. SUFFICES ASSUME TypeInv, SingleInv, ExposureInv, [Next]_vars PROVE ExposureInv'
    OBVIOUS
  <2>0. Loaded \subseteq Loaded'
    BY LoadedGrows
  <2>1. SaveEvery \in Nat \ {0} /\ Width \in Nat \ {0} /\ unsaved \in [Jobs -> Nat] /\ abort \in [Jobs -> BOOLEAN]
    BY IntervalAssumption DEF ExposureInv
  <2>2. ASSUME NEW j \in Jobs, Running(j)
        PROVE  ExposedBy(j) /\ status[j] \notin {"none", "done"}
    BY <2>2 DEF ExposureInv, Running
  <2>3. ASSUME NEW j \in Jobs, Kick(j) PROVE ExposureInv'
    <3>1. /\ Unsaved(j)' = {} /\ pc'[j] = "storage" /\ unsaved'[j] = 0 /\ status'[j] = "running"
          /\ Pending(j)' = {}
      <4>1. pc[j] = "new" /\ unsaved[j] = 0 /\ UNCHANGED <<call, unsaved, disk>>
        BY <2>3 DEF Kick, TypeInv, ExposureInv
      <4>2. \A m \in Manifests : call[j][m] = "none"
        BY <4>1 DEF SingleInv, Early
      <4>3. Loaded' = Loaded /\ marked'[j] = Loaded
        BY <2>3, <4>1 DEF Kick, Loaded, TypeInv
      <4>. QED  BY <2>3, <4>1, <4>2, <4>3 DEF Kick, TypeInv, Unsaved, Pending
    <3>2. ExposedBy(j)'
      BY <3>1, <2>1, FS_EmptySet DEF ExposedBy
    <3>3. \A k \in Jobs \ {j} :
            /\ pc'[k] = pc[k] /\ after'[k] = after[k] /\ status'[k] = status[k] /\ abort'[k] = abort[k]
            /\ marked'[k] = marked[k] /\ unsaved'[k] = unsaved[k] /\ Pending(k)' = Pending(k)
      BY <2>3 DEF Kick, TypeInv, Pending
    <3>4. unsaved' \in [Jobs -> Nat] /\ abort' \in [Jobs -> BOOLEAN]
      BY <2>1, <2>3 DEF Kick
    <3>. QED  BY <2>0, <3>1, <3>2, <3>3, <3>4, OneJobMoves
  <2>4. ASSUME NEW j \in Jobs, Running(j), Running(j)', UNCHANGED <<status, marked, unsaved>>,
               Pending(j)' \subseteq Pending(j), abort' \in [Jobs -> BOOLEAN],
               pc'[j] \notin {"open", "write", "replace"}, pc[j] \notin {"open", "write", "replace"},
               \/ pc'[j] = "check" /\ after'[j] = "closing"
               \/ pc'[j] = "closing" /\ ~abort'[j]
               => Unsaved(j) = {},
               \A k \in Jobs \ {j} :
                 pc'[k] = pc[k] /\ after'[k] = after[k] /\ abort'[k] = abort[k] /\ Pending(k)' = Pending(k)
        PROVE  ExposureInv'
    <3>1. Unsaved(j)' \subseteq Unsaved(j)
      BY <2>0, <2>4 DEF Unsaved
    <3>2. /\ Cardinality(Unsaved(j)') <= Cardinality(Unsaved(j)) /\ Cardinality(Unsaved(j)') \in Nat
          /\ Cardinality(Pending(j)') <= Cardinality(Pending(j)) /\ Cardinality(Pending(j)') \in Nat
          /\ Cardinality(Unsaved(j)) \in Nat /\ Cardinality(Pending(j)) \in Nat
      BY <2>4, <3>1, JobFinite, CountShrinks
    <3>3. unsaved[j] \in Nat /\ unsaved'[j] = unsaved[j] /\ ExposedBy(j)
      BY <2>1, <2>2, <2>4
    <3>4. Cardinality(Unsaved(j))' <= unsaved'[j] /\ unsaved'[j] < SaveEvery
      BY <2>1, <2>4, <3>2, <3>3 DEF ExposedBy
    <3>5. Cardinality(Pending(j))' <= Width
      BY <2>1, <2>4, <3>2, <3>3 DEF ExposedBy
    <3>6. ExposedBy(j)'
      BY <2>1, <2>4, <3>1, <3>2, <3>4, <3>5 DEF ExposedBy
    <3>. QED  BY <2>0, <2>1, <2>2, <2>4, <3>6, OneJobMoves
  <2>5. ASSUME UNCHANGED <<pc, after, status, marked, unsaved, disk>>, abort' \in [Jobs -> BOOLEAN],
               \A k \in Jobs : Pending(k)' = Pending(k) /\ (abort[k] => abort'[k])
        PROVE  ExposureInv'
    <3>1. \A k \in Jobs : Unsaved(k)' = Unsaved(k)
      BY <2>5 DEF Unsaved, Loaded
    <3>2. \A k \in Jobs : Running(k)' => ExposedBy(k)'
      BY <2>2, <2>5, <3>1 DEF ExposedBy, Running
    <3>. QED  BY <2>1, <2>5, <3>1, <3>2 DEF ExposureInv
  <2>6. ASSUME NEW j \in Jobs,
               \/ Check(j) \/ LoadStorage(j) \/ SkipTier(j) \/ OpenTier(j)
               \/ \E m \in Manifests : CollectRaised(j, m)
        PROVE  ExposureInv'
    <3>1. /\ Running(j) /\ Running(j)' /\ UNCHANGED <<status, abort, call, marked, unsaved>>
          /\ pc'[j] \notin {"open", "write", "replace"} /\ pc[j] \notin {"open", "write", "replace"}
          /\ \A k \in Jobs \ {j} : pc'[k] = pc[k] /\ after'[k] = after[k]
      BY <2>6 DEF Check, LoadStorage, SkipTier, OpenTier, CollectRaised, TypeInv, Running
    <3>2. \/ pc'[j] = "check" /\ after'[j] = "closing"
          \/ pc'[j] = "closing" /\ ~abort[j]
          => pc[j] = "check" /\ after[j] = "closing"
      BY <2>6 DEF Check, LoadStorage, SkipTier, OpenTier, CollectRaised, TypeInv
    <3>3. ExposedBy(j)
      BY <3>1, <2>2
    <3>4. \A k \in Jobs : Pending(k)' = Pending(k)
      BY <3>1 DEF Pending
    <3>5. \/ pc'[j] = "check" /\ after'[j] = "closing"
          \/ pc'[j] = "closing" /\ ~abort'[j]
          => Unsaved(j) = {}
      BY <3>1, <3>2, <3>3 DEF ExposedBy
    <3>. QED  BY <2>1, <2>4, <3>1, <3>4, <3>5
  <2>7. ASSUME NEW j \in Jobs, NEW m \in Manifests, CollectError(j, m) PROVE ExposureInv'
    <3>1. /\ Running(j) /\ Running(j)' /\ UNCHANGED <<status, abort, marked, unsaved>>
          /\ pc[j] = "run" /\ pc'[j] = "check" /\ after'[j] = "run"
          /\ \A k \in Jobs \ {j} : pc'[k] = pc[k] /\ after'[k] = after[k] /\ call'[k] = call[k]
      BY <2>7 DEF CollectError, TypeInv, Running
    <3>2. Pending(j)' \subseteq Pending(j) /\ \A k \in Jobs \ {j} : Pending(k)' = Pending(k)
      BY <2>7, <3>1 DEF CollectError, TypeInv, Pending
    <3>. QED  BY <2>1, <2>4, <3>1, <3>2
  <2>8. ASSUME NEW j \in Jobs, NEW m \in Manifests, Start(j, m) PROVE ExposureInv'
    <3>1. /\ UNCHANGED <<pc, after, status, abort, marked, unsaved, disk>> /\ pc[j] = "run" /\ Running(j)
          /\ \A k \in Jobs \ {j} : call'[k] = call[k]
      BY <2>8 DEF Start, TypeInv, Running
    <3>2. Pending(j)' \subseteq Pending(j) \cup {m} /\ \A k \in Jobs \ {j} : Pending(k)' = Pending(k)
      BY <2>8, <3>1 DEF Start, TypeInv, Pending
    <3>3. /\ Cardinality(Pending(j)) < Width /\ Cardinality(Pending(j)) \in Nat
          /\ Cardinality(Pending(j)') <= Cardinality(Pending(j)) + 1 /\ Cardinality(Pending(j)') \in Nat
      BY <2>8, <3>2, JobFinite, CountGrows DEF Start, Room
    <3>4. Cardinality(Pending(j))' + 0 <= Width
      BY <2>1, <3>3
    <3>5. Unsaved(j)' = Unsaved(j)
      BY <3>1 DEF Unsaved, Loaded
    <3>6. ExposedBy(j)'
      BY <2>2, <3>1, <3>4, <3>5 DEF ExposedBy
    <3>7. status'[j] \notin {"none", "done"}
      BY <2>2, <3>1
    <3>. QED  BY <2>0, <2>1, <3>1, <3>2, <3>6, <3>7, OneJobMoves
  <2>9. ASSUME NEW j \in Jobs, NEW m \in Manifests, CollectOk(j, m) PROVE ExposureInv'
    <3>1. /\ UNCHANGED <<status, abort, disk>> /\ pc[j] = "run" /\ Running(j)
          /\ call[j][m] = "ok" /\ after'[j] = "run"
          /\ unsaved' = [unsaved EXCEPT ![j] = @ + 1]
          /\ marked' = [marked EXCEPT ![j] = @ \cup {m}]
          /\ pc'[j] = IF unsaved[j] + 1 >= SaveEvery THEN "open" ELSE "check"
          /\ \A k \in Jobs \ {j} : pc'[k] = pc[k] /\ after'[k] = after[k] /\ call'[k] = call[k]
      BY <2>9 DEF CollectOk, Succeeded, SaveDue, TypeInv, Running
    <3>2. Pending(j)' = Pending(j) \ {m} /\ m \in Pending(j)
          /\ \A k \in Jobs \ {j} : Pending(k)' = Pending(k)
      BY <2>9, <3>1 DEF CollectOk, TypeInv, Pending
    <3>3. Cardinality(Pending(j)') = Cardinality(Pending(j)) - 1 /\ Cardinality(Pending(j)) \in Nat
      BY <3>2, JobFinite, FS_RemoveElement
    <3>4. Unsaved(j)' \subseteq Unsaved(j) \cup {m}
      BY <3>1 DEF Unsaved, Loaded, TypeInv
    <3>5. /\ Cardinality(Unsaved(j)') <= Cardinality(Unsaved(j)) + 1
          /\ Cardinality(Unsaved(j)') \in Nat /\ Cardinality(Unsaved(j)) \in Nat
      BY <3>4, JobFinite, CountGrows
    <3>6. /\ unsaved[j] \in Nat /\ unsaved[j] < SaveEvery /\ Cardinality(Unsaved(j)) <= unsaved[j]
          /\ Cardinality(Pending(j)) + 0 <= Width
      BY <2>1, <2>2, <3>1 DEF ExposedBy
    <3>7. unsaved'[j] = unsaved[j] + 1
      BY <2>1, <3>1
    <3>8. Cardinality(Unsaved(j))' <= unsaved'[j]
      BY <3>5, <3>6, <3>7
    <3>9. unsaved'[j] < SaveEvery \/ (pc'[j] = "open" /\ unsaved'[j] = SaveEvery)
      BY <2>1, <3>1, <3>6, <3>7
    <3>10. Cardinality(Pending(j))' + (IF pc'[j] \in {"open", "write", "replace"} THEN 1 ELSE 0) <= Width
      BY <2>1, <3>3, <3>6
    <3>11. pc'[j] \in {"open", "check"}
      BY <3>1
    <3>12. ExposedBy(j)'
      BY <3>1, <3>8, <3>9, <3>10, <3>11 DEF ExposedBy
    <3>13. /\ unsaved' \in [Jobs -> Nat] /\ status'[j] \notin {"none", "done"}
           /\ \A k \in Jobs \ {j} : marked'[k] = marked[k] /\ unsaved'[k] = unsaved[k]
      BY <2>1, <2>2, <3>1 DEF TypeInv
    <3>. QED  BY <2>0, <2>1, <3>1, <3>2, <3>12, <3>13, OneJobMoves
  <2>10. ASSUME NEW j \in Jobs, Close(j) PROVE ExposureInv'
    <3>1. /\ UNCHANGED <<after, abort, call, marked, unsaved, disk>> /\ Running(j) /\ ~Running(j)'
          /\ status'[j] # "none" /\ (status'[j] = "done" => pc[j] = "closing" /\ ~abort[j])
          /\ \A k \in Jobs \ {j} : pc'[k] = pc[k] /\ status'[k] = status[k]
      BY <2>10 DEF Close, TypeInv, Running
    <3>2. status'[j] = "done" => Unsaved(j)' = {}
      BY <2>2, <3>1 DEF ExposedBy, Unsaved, Loaded
    <3>3. \A k \in Jobs : Pending(k)' = Pending(k)
      BY <3>1 DEF Pending
    <3>. QED  BY <2>0, <2>1, <3>1, <3>2, <3>3, OneJobMoves
  <2>11. ASSUME NEW j \in Jobs, Running(j), UNCHANGED <<status, abort, call, marked>>,
                unsaved' \in [Jobs -> Nat], ExposedBy(j)',
                \A k \in Jobs \ {j} : pc'[k] = pc[k] /\ after'[k] = after[k] /\ unsaved'[k] = unsaved[k]
         PROVE  ExposureInv'
    <3>1. \A k \in Jobs : Pending(k)' = Pending(k)
      BY <2>11 DEF Pending
    <3>2. status'[j] \notin {"none", "done"}
      BY <2>2, <2>11
    <3>. QED  BY <2>0, <2>1, <2>11, <3>1, <3>2, OneJobMoves
  <2>12. ASSUME NEW j \in Jobs, EndTier(j) PROVE ExposureInv'
    <3>1. /\ UNCHANGED <<status, abort, call, marked, unsaved, disk>> /\ Running(j)
          /\ pc[j] = "run" /\ pc'[j] = "open" /\ Pending(j) = {}
          /\ \A k \in Jobs \ {j} : pc'[k] = pc[k] /\ after'[k] = after[k]
      BY <2>12 DEF EndTier, TypeInv, Running
    <3>2. Unsaved(j)' = Unsaved(j) /\ Pending(j)' = {}
      BY <3>1 DEF Unsaved, Loaded, Pending
    <3>3. Cardinality(Pending(j))' = 0 /\ Cardinality(Unsaved(j))' = Cardinality(Unsaved(j))
      BY <3>2, FS_EmptySet
    <3>4. Cardinality(Unsaved(j)) <= unsaved[j] /\ unsaved[j] < SaveEvery
      BY <2>2, <3>1 DEF ExposedBy
    <3>5. Cardinality(Pending(j))' + 1 <= Width
      BY <2>1, <3>3
    <3>6. ExposedBy(j)'
      BY <3>1, <3>3, <3>4, <3>5 DEF ExposedBy
    <3>. QED  BY <2>1, <2>11, <3>1, <3>6
  <2>13. ASSUME NEW j \in Jobs, Truncate(j) PROVE ExposureInv'
    <3>1. /\ UNCHANGED <<status, abort, call, marked, disk, after>> /\ Running(j)
          /\ pc[j] = "open" /\ pc'[j] = "write" /\ unsaved' = [unsaved EXCEPT ![j] = 0]
          /\ \A k \in Jobs \ {j} : pc'[k] = pc[k]
      BY <2>13 DEF Truncate, ResetCount, TypeInv, Running
    <3>2. Unsaved(j)' = Unsaved(j) /\ Pending(j)' = Pending(j)
      BY <3>1 DEF Unsaved, Loaded, Pending
    <3>3. /\ Cardinality(Pending(j))' = Cardinality(Pending(j))
          /\ Cardinality(Unsaved(j))' = Cardinality(Unsaved(j)) /\ Cardinality(Unsaved(j)) \in Nat
      BY <3>2, JobFinite
    <3>4. Cardinality(Unsaved(j)) <= unsaved[j] /\ (unsaved[j] < SaveEvery \/ unsaved[j] = SaveEvery)
      BY <2>2, <3>1 DEF ExposedBy
    <3>5. Cardinality(Unsaved(j))' <= SaveEvery
      <4>1. unsaved[j] \in Nat
        BY <2>1
      <4>. QED  BY <2>1, <3>3, <3>4, <4>1
    <3>6. Cardinality(Pending(j))' + 1 <= Width
      BY <2>2, <3>1, <3>3 DEF ExposedBy
    <3>7. unsaved' \in [Jobs -> Nat] /\ unsaved'[j] = 0 /\ \A k \in Jobs \ {j} : unsaved'[k] = unsaved[k]
      BY <2>1, <3>1
    <3>8. unsaved'[j] < SaveEvery
      BY <2>1, <3>7
    <3>9. ExposedBy(j)'
      BY <3>1, <3>5, <3>6, <3>8 DEF ExposedBy
    <3>. QED  BY <2>11, <3>1, <3>7, <3>9
  <2>14. ASSUME NEW j \in Jobs, Write(j) PROVE ExposureInv'
    <3>1. open[j] # "disk"
      BY DEF SingleInv
    <3>2. /\ UNCHANGED <<status, abort, call, marked, unsaved, disk, after>> /\ Running(j)
          /\ pc[j] = "write" /\ pc'[j] = "replace"
          /\ \A k \in Jobs \ {j} : pc'[k] = pc[k]
      BY <2>14, <3>1 DEF Write, TypeInv, Running
    <3>3. Unsaved(j)' = Unsaved(j) /\ Pending(j)' = Pending(j)
      BY <3>2 DEF Unsaved, Loaded, Pending
    <3>4. /\ Cardinality(Pending(j))' = Cardinality(Pending(j))
          /\ Cardinality(Unsaved(j))' = Cardinality(Unsaved(j))
      BY <3>3
    <3>5. /\ Cardinality(Unsaved(j)) <= SaveEvery /\ unsaved[j] < SaveEvery
          /\ Cardinality(Pending(j)) + 1 <= Width
      BY <2>2, <3>2 DEF ExposedBy
    <3>6. ExposedBy(j)'
      BY <3>2, <3>4, <3>5 DEF ExposedBy
    <3>. QED  BY <2>1, <2>11, <3>2, <3>6
  <2>15. ASSUME NEW j \in Jobs, Replace(j) PROVE ExposureInv'
    <3>1. /\ UNCHANGED <<status, abort, call, marked, unsaved, after>> /\ Running(j)
          /\ pc[j] = "replace" /\ pc'[j] = "check"
          /\ \A k \in Jobs \ {j} : pc'[k] = pc[k]
      BY <2>15 DEF Replace, TypeInv, Running
    <3>2. disk' = Text(marked[j])
      BY <2>15, <3>1 DEF Replace, SingleInv
    <3>3. Unsaved(j)' = {} /\ Pending(j)' = Pending(j)
      BY <3>1, <3>2 DEF Unsaved, Loaded, Text, Pending
    <3>4. Cardinality(Unsaved(j))' = 0 /\ Cardinality(Pending(j))' = Cardinality(Pending(j))
      BY <3>3, FS_EmptySet
    <3>5. /\ Cardinality(Pending(j)) + 1 <= Width /\ Cardinality(Pending(j)) \in Nat
          /\ unsaved[j] < SaveEvery /\ unsaved[j] \in Nat
      BY <2>1, <2>2, <3>1, JobFinite DEF ExposedBy
    <3>6. Cardinality(Pending(j))' + 0 <= Width
      BY <2>1, <3>4, <3>5
    <3>7. Cardinality(Unsaved(j))' <= unsaved'[j]
      BY <3>1, <3>4, <3>5
    <3>8. ExposedBy(j)'
      BY <3>1, <3>3, <3>5, <3>6, <3>7 DEF ExposedBy
    <3>. QED  BY <2>1, <2>11, <3>1, <3>8
  <2>16. ASSUME NEW j \in Jobs, ReplaceMissing(j) PROVE FALSE
    <3>1. Running(j) /\ pc[j] = "replace" /\ temp = Absent
      BY <2>16 DEF ReplaceMissing, Running, TypeInv
    <3>2. temp = Text(marked[j])
      BY <3>1 DEF SingleInv
    <3>. QED  BY <3>1, <3>2 DEF Text, Absent
  <2>17. ASSUME NEW j \in Jobs, NEW m \in Manifests,
                Accept(j, m) \/ \E c \in {"ok", "error", "raised"} : Finish(j, m, c)
         PROVE  ExposureInv'
    <3>1. UNCHANGED <<pc, after, status, abort, marked, unsaved, disk>>
      BY <2>17 DEF Accept, Finish
    <3>2. PICK c \in {"accepted", "ok", "error", "raised"} : call' = [call EXCEPT ![j][m] = c]
      BY <2>17 DEF Accept, Finish
    <3>3. call[j][m] \in {"running", "accepted"}
      <4>1. CASE Accept(j, m)
        BY <4>1 DEF Accept
      <4>2. ASSUME NEW r \in {"ok", "error", "raised"}, Finish(j, m, r)
            PROVE  call[j][m] \in {"running", "accepted"}
        BY <4>2 DEF Finish
      <4>. QED  BY <2>17, <4>1, <4>2
    <3>4. \A k \in Jobs : Pending(k)' = Pending(k)
      BY <3>2, <3>3 DEF Pending, TypeInv
    <3>. QED  BY <2>1, <2>5, <3>1, <3>4
  <2>18. ASSUME NEW j \in Jobs, RequestAbort(j) \/ Drain(j) PROVE ExposureInv'
    <3>1. /\ UNCHANGED <<pc, after, status, call, marked, unsaved, disk>> /\ abort' \in [Jobs -> BOOLEAN]
          /\ \A k \in Jobs : abort[k] => abort'[k]
      BY <2>1, <2>18 DEF RequestAbort, Drain
    <3>2. \A k \in Jobs : Pending(k)' = Pending(k)
      BY <3>1 DEF Pending
    <3>. QED  BY <2>5, <3>1, <3>2
  <2>19. CASE Crash
    <3>1. /\ UNCHANGED <<abort, marked, unsaved, disk>>
          /\ \A k \in Jobs : /\ ~Running(k)'
                             /\ status'[k] = "none" => status[k] = "none"
                             /\ status'[k] = "done" => status[k] = "done"
      BY <2>19 DEF Crash, Running, TypeInv
    <3>2. ASSUME NEW k \in Jobs
          PROVE  /\ Running(k)' => ExposedBy(k)'
                 /\ status'[k] = "none" => unsaved'[k] = 0
                 /\ status'[k] = "done" => Unsaved(k)' = {}
      <4>1. Unsaved(k)' = Unsaved(k)
        BY <3>1 DEF Unsaved, Loaded
      <4>2. (status[k] = "none" => unsaved[k] = 0) /\ (status[k] = "done" => Unsaved(k) = {})
        BY DEF ExposureInv
      <4>3. unsaved'[k] = unsaved[k]
        BY <3>1
      <4>. QED  BY <3>1, <4>1, <4>2, <4>3
    <3>3. unsaved' \in [Jobs -> Nat] /\ abort' \in [Jobs -> BOOLEAN]
      BY <2>1, <3>1
    <3>. QED  BY <3>2, <3>3 DEF ExposureInv
  <2>20. CASE UNCHANGED vars
    <3>1. \A k \in Jobs : Pending(k)' = Pending(k)
      BY <2>20 DEF vars, Pending
    <3>. QED  BY <2>1, <2>5, <2>20, <3>1 DEF vars
  <2>. QED
    <3>1. ASSUME NEW j \in Jobs, Thread(j) PROVE ExposureInv'
      BY <3>1, <2>6, <2>7, <2>8, <2>9, <2>10, <2>16, <2>18, <2>12, <2>13, <2>14, <2>15 DEF Thread
    <3>2. ASSUME NEW j \in Jobs, Worker(j) PROVE ExposureInv'
      BY <3>2, <2>17 DEF Worker
    <3>. QED  BY <2>3, <2>17, <2>18, <2>19, <2>20, <3>1, <3>2 DEF Next, Quiet
<1>. QED  BY <1>1, <1>2, TypeInvariant, SingleInvariant, PTL DEF Spec

(* If jobs follow one another, an interruption repeats at most the marks   *)
(* since the last save and what the pool holds, and done means saved.      *)
THEOREM ExposureStaysBounded ==
  ASSUME Exclusive
  PROVE  Spec => []ExposureBounded
<1>1. TypeInv /\ ExposureInv => ExposureBounded
  <2>. SUFFICES ASSUME TypeInv, ExposureInv, NEW j \in Jobs
                PROVE  /\ Running(j) => Cardinality(AtRisk(j)) <= SaveEvery + Width - 1
                       /\ status[j] = "done" => marked[j] \subseteq Loaded
    BY DEF ExposureBounded
  <2>1. ASSUME Running(j) PROVE Cardinality(AtRisk(j)) <= SaveEvery + Width - 1
    <3>1. SaveEvery \in Nat /\ Width \in Nat /\ unsaved[j] \in Nat /\ ExposedBy(j)
      BY <2>1, IntervalAssumption DEF ExposureInv
    <3>2. AtRisk(j) \subseteq Unsaved(j) \cup Pending(j)
      BY DEF AtRisk, Unsaved, Pending
    <3>3. /\ IsFiniteSet(Unsaved(j)) /\ Cardinality(Unsaved(j)) \in Nat
          /\ IsFiniteSet(Pending(j)) /\ Cardinality(Pending(j)) \in Nat
      BY JobFinite
    <3>4. IsFiniteSet(Unsaved(j) \cup Pending(j)) /\ IsFiniteSet(Unsaved(j) \cap Pending(j))
      BY <3>3, FS_Union, FS_Intersection
    <3>5. /\ Cardinality(Unsaved(j) \cup Pending(j)) =
               Cardinality(Unsaved(j)) + Cardinality(Pending(j)) - Cardinality(Unsaved(j) \cap Pending(j))
          /\ Cardinality(Unsaved(j) \cap Pending(j)) \in Nat
      BY <3>3, <3>4, FS_Union, FS_CardinalityType
    <3>6. /\ Cardinality(AtRisk(j)) <= Cardinality(Unsaved(j) \cup Pending(j))
          /\ Cardinality(AtRisk(j)) \in Nat
      BY <3>2, <3>4, CountShrinks
    <3>7. Cardinality(Unsaved(j)) + Cardinality(Pending(j)) <= SaveEvery + Width - 1
      <4>1. CASE pc[j] \in {"open", "write", "replace"}
        BY <3>1, <3>3, <4>1 DEF ExposedBy
      <4>2. CASE pc[j] \notin {"open", "write", "replace"}
        BY <3>1, <3>3, <4>2 DEF ExposedBy
      <4>. QED  BY <4>1, <4>2
    <3>. QED  BY <3>1, <3>3, <3>5, <3>6, <3>7
  <2>2. status[j] = "done" => marked[j] \subseteq Loaded
    BY DEF ExposureInv, Unsaved
  <2>. QED  BY <2>1, <2>2
<1>. QED  BY <1>1, TypeInvariant, ExposureInvariant, PTL
-----------------------------------------------------------------------------
(* A job that comes to the end of its tier, or ends as done, has answered  *)
(* all it submitted.                                                       *)
EndInv ==
  /\ abort \in [Jobs -> BOOLEAN]
  /\ \A j \in Jobs :
       \/ after[j] = "closing" /\ pc[j] \in {"open", "write", "replace", "check"}
       \/ pc[j] = "closing" /\ ~abort[j]
       \/ status[j] = "done"
       => Pending(j) = {}

(* EndInv is inductive.                                                    *)
LEMMA EndInvariant == Spec => []EndInv
<1>. USE DEF Goto, Emit, SetCall, job, pool, memory, files, service
<1>1. Init => EndInv
  BY DEF Init, EndInv, Pending
<1>2. TypeInv /\ EndInv /\ [Next]_vars => EndInv'
  <2>. SUFFICES ASSUME TypeInv, EndInv, [Next]_vars PROVE EndInv'
    OBVIOUS
  <2>1. ASSUME NEW j \in Jobs,
               \/ Kick(j) \/ Check(j) \/ LoadStorage(j) \/ SkipTier(j) \/ OpenTier(j) \/ Close(j)
               \/ EndTier(j) \/ \E m \in Manifests : CollectRaised(j, m)
        PROVE  EndInv'
    <3>1. UNCHANGED <<call, abort>>
      BY <2>1 DEF Kick, Check, LoadStorage, SkipTier, OpenTier, Close, EndTier, CollectRaised
    <3>2. \A k \in Jobs \ {j} : pc'[k] = pc[k] /\ after'[k] = after[k] /\ status'[k] = status[k]
      BY <2>1 DEF Kick, Check, LoadStorage, SkipTier, OpenTier, Close, EndTier, CollectRaised, TypeInv
    <3>3. \/ after'[j] = "closing" /\ pc'[j] \in {"open", "write", "replace", "check"}
          \/ pc'[j] = "closing" /\ ~abort[j]
          \/ status'[j] = "done"
          => \/ Pending(j) = {}
             \/ after[j] = "closing" /\ pc[j] \in {"open", "write", "replace", "check"}
             \/ pc[j] = "closing" /\ ~abort[j]
      BY <2>1 DEF Kick, Check, LoadStorage, SkipTier, OpenTier, Close, EndTier, CollectRaised, TypeInv,
                  Running
    <3>4. \A k \in Jobs : Pending(k)' = Pending(k)
      BY <3>1 DEF Pending
    <3>. QED  BY <3>1, <3>2, <3>3, <3>4 DEF EndInv
  <2>2. ASSUME NEW j \in Jobs, Truncate(j) \/ Write(j) \/ Replace(j) \/ ReplaceMissing(j)
        PROVE  EndInv'
    <3>1. /\ UNCHANGED <<after, status, abort, call>> /\ \A k \in Jobs \ {j} : pc'[k] = pc[k]
          /\ pc[j] \in {"open", "write", "replace"}
          /\ pc'[j] \in {"write", "replace", "check", "failing"}
      BY <2>2 DEF Truncate, Write, Replace, ReplaceMissing, TypeInv
    <3>2. \A k \in Jobs : Pending(k)' = Pending(k)
      BY <3>1 DEF Pending
    <3>. QED  BY <3>1, <3>2 DEF EndInv
  <2>3. ASSUME NEW j \in Jobs, NEW m \in Manifests,
               Start(j, m) \/ CollectOk(j, m) \/ CollectError(j, m)
        PROVE  EndInv'
    <3>1. /\ UNCHANGED <<status, abort>> /\ pc[j] = "run" /\ status[j] # "done"
          /\ pc'[j] = "run" \/ (pc'[j] \in {"open", "check"} /\ after'[j] = "run")
          /\ \A k \in Jobs \ {j} : pc'[k] = pc[k] /\ after'[k] = after[k] /\ call'[k] = call[k]
      BY <2>3 DEF Start, CollectOk, CollectError, TypeInv, Running
    <3>2. \A k \in Jobs \ {j} : Pending(k)' = Pending(k)
      BY <3>1 DEF Pending
    <3>. QED  BY <3>1, <3>2 DEF EndInv
  <2>4. ASSUME UNCHANGED <<pc, after, status>>, abort' \in [Jobs -> BOOLEAN],
               \A k \in Jobs : Pending(k)' = Pending(k) /\ (abort[k] => abort'[k])
        PROVE  EndInv'
    BY <2>4 DEF EndInv
  <2>5. ASSUME NEW j \in Jobs, NEW m \in Manifests,
               Accept(j, m) \/ \E c \in {"ok", "error", "raised"} : Finish(j, m, c)
        PROVE  EndInv'
    <3>1. UNCHANGED <<pc, after, status, abort>>
      BY <2>5 DEF Accept, Finish
    <3>2. PICK c \in {"accepted", "ok", "error", "raised"} : call' = [call EXCEPT ![j][m] = c]
      BY <2>5 DEF Accept, Finish
    <3>3. call[j][m] \in {"running", "accepted"}
      <4>1. CASE Accept(j, m)
        BY <4>1 DEF Accept
      <4>2. ASSUME NEW r \in {"ok", "error", "raised"}, Finish(j, m, r)
            PROVE  call[j][m] \in {"running", "accepted"}
        BY <4>2 DEF Finish
      <4>. QED  BY <2>5, <4>1, <4>2
    <3>4. \A k \in Jobs : Pending(k)' = Pending(k)
      BY <3>2, <3>3 DEF Pending, TypeInv
    <3>. QED  BY <2>4, <3>1, <3>4 DEF EndInv
  <2>6. ASSUME NEW j \in Jobs, RequestAbort(j) \/ Drain(j) PROVE EndInv'
    <3>1. UNCHANGED <<pc, after, status, call>>
      BY <2>6 DEF RequestAbort, Drain
    <3>2. abort' \in [Jobs -> BOOLEAN] /\ \A k \in Jobs : abort[k] => abort'[k]
      BY <2>6 DEF RequestAbort, Drain, EndInv
    <3>3. \A k \in Jobs : Pending(k)' = Pending(k)
      BY <3>1 DEF Pending
    <3>. QED  BY <2>4, <3>1, <3>2, <3>3
  <2>7. CASE Crash
    <3>1. /\ UNCHANGED <<after, abort, call>>
          /\ \A k \in Jobs : pc'[k] \in {pc[k], "over"} /\ (status'[k] = "done" => status[k] = "done")
      BY <2>7 DEF Crash, TypeInv
    <3>2. \A k \in Jobs : Pending(k)' = Pending(k)
      BY <3>1 DEF Pending
    <3>. QED  BY <3>1, <3>2 DEF EndInv
  <2>8. CASE UNCHANGED vars
    BY <2>8 DEF vars, EndInv, Pending
  <2>. QED
    <3>1. ASSUME NEW j \in Jobs, Thread(j) PROVE EndInv'
      BY <3>1, <2>1, <2>2, <2>3, <2>6 DEF Thread
    <3>2. ASSUME NEW j \in Jobs, Worker(j) PROVE EndInv'
      BY <3>2, <2>5 DEF Worker
    <3>. QED  BY <2>1, <2>5, <2>6, <2>7, <2>8, <3>1, <3>2 DEF Next, Quiet
<1>. QED  BY <1>1, <1>2, TypeInvariant, PTL DEF Spec

(* Nothing has happened that excuses a second submit.                      *)
NoCause == \A j \in Jobs : status[j] \in {"none", "running", "done"}

(* Somebody who is still heard knows that the manifest was taken.          *)
Vouched(m) ==
  \/ m \in Loaded
  \/ \E j \in Jobs : Running(j) /\ (m \in marked[j] \/ call[j][m] \in {"accepted", "ok"})

(* What was taken once is vouched for, and nobody is submitting it.        *)
OnceInv ==
  NoCause =>
    \A m \in Manifests \ doubt :
      /\ minted[m] <= 1
      /\ minted[m] # 0 => Vouched(m)
      /\ \A j \in Jobs : call[j][m] = "running" => minted[m] = 0

(* An interruption, once there, stays a cause.                             *)
LEMMA CausesStay ==
  ASSUME TypeInv, [Next]_vars, NoCause'
  PROVE  NoCause
<1>. USE DEF Goto, Emit, SetCall, job, pool, memory, files, service
<1>1. ASSUME NEW j \in Jobs, Kick(j) \/ Close(j) PROVE NoCause
  <2>1. status[j] \in {"none", "running"} /\ \A k \in Jobs \ {j} : status'[k] = status[k]
    BY <1>1 DEF Kick, Close, Running, TypeInv
  <2>. QED  BY <2>1 DEF NoCause
<1>2. CASE Crash
  <2>1. PICK j \in Jobs : Running(j)
    BY <1>2 DEF Crash
  <2>2. status'[j] = "crashed"
    BY <1>2, <2>1 DEF Crash
  <2>. QED  BY <2>2 DEF NoCause
<1>3. CASE UNCHANGED status
  BY <1>3 DEF NoCause
<1>. QED
  BY <1>1, <1>2, <1>3
     DEF Next, Thread, Worker, Quiet, vars, RequestAbort, Check, LoadStorage, SkipTier, OpenTier,
         Start, CollectOk, CollectError, CollectRaised, Drain, EndTier, Truncate, Write, Replace,
         ReplaceMissing, Finish, Accept

(* If jobs follow one another, a manifest is taken a second time only after *)
(* an interruption or an answer that went missing.                         *)
THEOREM DuplicatesStayExplained ==
  ASSUME Exclusive
  PROVE  Spec => []DuplicatesHaveACause
<1>. USE DEF Goto, Emit, SetCall, job, pool, memory, files, service
<1>1. Init => OnceInv
  BY DEF Init, OnceInv
<1>2. TypeInv /\ SingleInv /\ ExposureInv /\ EndInv /\ OnceInv /\ [Next]_vars => OnceInv'
  <2>. SUFFICES ASSUME TypeInv, SingleInv, ExposureInv, EndInv, OnceInv, [Next]_vars, NoCause',
                       NEW m \in Manifests, m \notin doubt'
                PROVE  /\ minted'[m] <= 1
                       /\ minted'[m] # 0 => Vouched(m)'
                       /\ \A j \in Jobs : call'[j][m] = "running" => minted'[m] = 0
    BY DEF OnceInv
  <2>. DEFINE Once == /\ minted'[m] <= 1
                      /\ minted'[m] # 0 => Vouched(m)'
                      /\ \A j \in Jobs : call'[j][m] = "running" => minted'[m] = 0
  <2>1. doubt \subseteq doubt'
    <3>1. ASSUME NEW j \in Jobs, Thread(j) PROVE UNCHANGED doubt
      <4>1. CASE Check(j) \/ Close(j) \/ LoadStorage(j) \/ SkipTier(j) \/ OpenTier(j) \/ Drain(j) \/ EndTier(j)
        BY <4>1 DEF Check, Close, LoadStorage, SkipTier, OpenTier, Drain, EndTier
      <4>2. CASE Truncate(j) \/ Write(j) \/ Replace(j) \/ ReplaceMissing(j)
        BY <4>2 DEF Truncate, Write, Replace, ReplaceMissing
      <4>3. ASSUME NEW n \in Manifests,
                   Start(j, n) \/ CollectOk(j, n) \/ CollectError(j, n) \/ CollectRaised(j, n)
            PROVE  UNCHANGED doubt
        BY <4>3 DEF Start, CollectOk, CollectError, CollectRaised
      <4>. QED  BY <3>1, <4>1, <4>2, <4>3 DEF Thread
    <3>2. ASSUME NEW j \in Jobs, Worker(j) PROVE doubt \subseteq doubt'
      BY <3>2 DEF Worker, Finish
    <3>. QED  BY <3>1, <3>2 DEF Next, Quiet, vars, Kick, RequestAbort, Accept, Crash
  <2>2. /\ minted[m] <= 1 /\ minted[m] \in Nat
        /\ minted[m] # 0 => Vouched(m)
        /\ \A j \in Jobs : call[j][m] = "running" => minted[m] = 0
    BY <2>1, CausesStay DEF OnceInv, TypeInv
  <2>3. Loaded \subseteq Loaded'
    BY LoadedGrows
  <2>4. ASSUME NEW j \in Jobs, call[j][m] # "none" /\ call[j][m] # "collected" PROVE Running(j)
    <3>1. m \in Pending(j)
      BY <2>4 DEF Pending, TypeInv, Calls
    <3>2. status[j] # "done"
      BY <3>1 DEF EndInv
    <3>3. status[j] # "none"
      BY <2>4 DEF SingleInv, Early, TypeInv
    <3>. QED  BY <3>2, <3>3, CausesStay DEF NoCause, Running
  <2>5. ASSUME UNCHANGED minted, Vouched(m) => Vouched(m)',
               \A j \in Jobs : call'[j][m] = "running" => call[j][m] = "running"
        PROVE  Once
    BY <2>2, <2>5
  <2>6. ASSUME UNCHANGED <<minted, call>>,
               \A j \in Jobs : Running(j) => Running(j)' /\ marked[j] \subseteq marked'[j]
        PROVE  Once
    <3>1. Vouched(m) => Vouched(m)'
      BY <2>3, <2>6 DEF Vouched
    <3>. QED  BY <2>5, <2>6, <3>1
  <2>7. ASSUME NEW j \in Jobs, Kick(j) PROVE Once
    <3>1. \A k \in Jobs : ~Running(k)
      BY <2>7 DEF Kick
    <3>. QED  BY <2>6, <2>7, <3>1 DEF Kick
  <2>8. ASSUME NEW j \in Jobs, Close(j) PROVE Once
    <3>1. UNCHANGED <<call, marked, minted, disk>> /\ \A k \in Jobs \ {j} : status'[k] = status[k]
      BY <2>8 DEF Close, TypeInv
    <3>2. status'[j] = "done"
      BY <2>8 DEF Close, NoCause, TypeInv
    <3>3. pc[j] = "closing" /\ ~abort[j] /\ Running(j)
      BY <2>8, <3>2 DEF Close, TypeInv, Running
    <3>4. Unsaved(j) = {} /\ Pending(j) = {}
      BY <3>3 DEF ExposureInv, ExposedBy, EndInv
    <3>5. Loaded' = Loaded /\ marked[j] \subseteq Loaded /\ call[j][m] \notin {"accepted", "ok"}
      BY <3>1, <3>4 DEF Unsaved, Pending, Loaded
    <3>6. Vouched(m) => Vouched(m)'
      BY <3>1, <3>5 DEF Vouched, Running
    <3>. QED  BY <2>5, <3>1, <3>6
  <2>9. ASSUME NEW j \in Jobs, NEW n \in Manifests, Start(j, n) PROVE Once
    <3>1. /\ UNCHANGED <<status, marked, disk, minted>> /\ n \in waiting[j] /\ Running(j)
          /\ call' = [call EXCEPT ![j][n] = "running"]
      BY <2>9 DEF Start, Running, TypeInv
    <3>2. call[j][n] = "none" /\ n \notin marked[j] /\ Loaded \subseteq marked[j]
      BY <3>1 DEF SingleInv
    <3>3. ASSUME n = m PROVE minted[m] = 0
      <4>1. ~Vouched(m)
        BY <3>1, <3>2, <3>3 DEF Vouched, SingleInv
      <4>. QED  BY <2>2, <4>1
    <3>4. \A k \in Jobs : call'[k][m] = call[k][m] \/ (n = m /\ call[k][m] = "none" /\ k = j)
      BY <3>1, <3>2 DEF TypeInv
    <3>5. Vouched(m) => Vouched(m)'
      BY <3>1, <3>4 DEF Vouched, Running, Loaded
    <3>. QED  BY <2>2, <3>1, <3>3, <3>4, <3>5 DEF TypeInv
  <2>10. ASSUME NEW j \in Jobs, NEW n \in Manifests, CollectOk(j, n) \/ CollectError(j, n) PROVE Once
    <3>1. /\ UNCHANGED <<status, disk, minted>> /\ pc[j] = "run"
          /\ call' = [call EXCEPT ![j][n] = "collected"]
      BY <2>10 DEF CollectOk, CollectError
    <3>2. /\ call[j][n] = "ok" => n \in marked'[j]
          /\ \A k \in Jobs : marked[k] \subseteq marked'[k]
      <4>1. CASE CollectOk(j, n)
        BY <4>1 DEF CollectOk, TypeInv
      <4>2. CASE CollectError(j, n)
        BY <4>2 DEF CollectError
      <4>. QED  BY <2>10, <4>1, <4>2
    <3>3. call[j][n] \in {"ok", "error"}
      BY <2>10 DEF CollectOk, CollectError, Succeeded
    <3>4. \A k \in Jobs : call'[k][m] = call[k][m] \/ (n = m /\ k = j /\ call'[k][m] = "collected")
      BY <3>1 DEF TypeInv
    <3>5. Running(j)
      BY <3>1 DEF Running, TypeInv
    <3>6. Vouched(m) => Vouched(m)'
      BY <3>1, <3>2, <3>3, <3>4, <3>5 DEF Vouched, Running, Loaded
    <3>. QED  BY <2>5, <3>1, <3>4, <3>6
  <2>11. ASSUME NEW j \in Jobs, NEW n \in Manifests, NEW c \in {"ok", "error", "raised"}, Finish(j, n, c)
         PROVE  Once
    <3>1. /\ UNCHANGED <<status, marked, disk, minted>>
          /\ call' = [call EXCEPT ![j][n] = c]
          /\ call[j][n] = "accepted" /\ c # "ok" => n \in doubt'
      BY <2>11 DEF Finish
    <3>2. \A k \in Jobs : call'[k][m] = call[k][m] \/ (n = m /\ k = j /\ call'[k][m] = c)
      BY <3>1 DEF TypeInv
    <3>3. call[j][n] \in {"running", "accepted"}
      BY <2>11 DEF Finish
    <3>4. Vouched(m) => Vouched(m)'
      BY <3>1, <3>2, <3>3 DEF Vouched, Running, Loaded
    <3>. QED  BY <2>5, <3>1, <3>2, <3>4
  <2>12. ASSUME NEW j \in Jobs, NEW n \in Manifests, Accept(j, n) PROVE Once
    <3>1. /\ UNCHANGED <<status, marked, disk>> /\ call[j][n] = "running"
          /\ call' = [call EXCEPT ![j][n] = "accepted"] /\ minted' = [minted EXCEPT ![n] = @ + 1]
      BY <2>12 DEF Accept
    <3>2. CASE n # m
      <4>1. minted'[m] = minted[m] /\ \A k \in Jobs : call'[k][m] = call[k][m]
        BY <3>1, <3>2 DEF TypeInv
      <4>2. Vouched(m) => Vouched(m)'
        BY <3>1, <4>1 DEF Vouched, Running, Loaded
      <4>. QED  BY <2>2, <4>1, <4>2
    <3>3. CASE n = m
      <4>1. Running(j) /\ minted[m] = 0
        BY <2>2, <2>4, <3>1, <3>3
      <4>2. call'[j][m] = "accepted" /\ minted'[m] = 1
        BY <3>1, <3>3, <4>1 DEF TypeInv
      <4>3. Vouched(m)'
        BY <3>1, <4>1, <4>2 DEF Vouched, Running
      <4>4. \A k \in Jobs : call'[k][m] # "running"
        <5>. SUFFICES ASSUME NEW k \in Jobs, call'[k][m] = "running" PROVE FALSE
          OBVIOUS
        <5>1. k # j /\ call[k][m] = "running"
          BY <3>1, <4>2 DEF TypeInv
        <5>2. Running(k)
          BY <2>4, <5>1
        <5>. QED  BY <4>1, <5>1, <5>2 DEF SingleInv
      <4>. QED  BY <4>2, <4>3, <4>4
    <3>. QED  BY <3>2, <3>3
  <2>13. CASE Crash
    <3>1. PICK j \in Jobs : Running(j)
      BY <2>13 DEF Crash
    <3>2. status'[j] = "crashed"
      BY <2>13, <3>1 DEF Crash
    <3>. QED  BY <3>2 DEF NoCause
  <2>14. ASSUME UNCHANGED <<status, call, marked, minted>> PROVE Once
    BY <2>14, <2>6 DEF Running
  <2>. QED
    <3>1. ASSUME NEW j \in Jobs, Thread(j) PROVE Once
      BY <3>1, <2>8, <2>9, <2>10, <2>14
         DEF Thread, Check, LoadStorage, SkipTier, OpenTier, CollectRaised, Drain, EndTier, Truncate,
             Write, Replace, ReplaceMissing
    <3>2. ASSUME NEW j \in Jobs, Worker(j) PROVE Once
      BY <3>2, <2>11 DEF Worker
    <3>3. ASSUME NEW j \in Jobs, RequestAbort(j) PROVE Once
      BY <3>3, <2>14 DEF RequestAbort
    <3>4. CASE UNCHANGED vars
      BY <3>4, <2>14 DEF vars
    <3>. QED  BY <2>7, <2>12, <2>13, <3>1, <3>2, <3>3, <3>4 DEF Next, Quiet
<1>3. OnceInv => DuplicatesHaveACause
  BY DEF OnceInv, NoCause, DuplicatesHaveACause
<1>. QED
  BY <1>1, <1>2, <1>3, TypeInvariant, SingleInvariant, ExposureInvariant, EndInvariant, PTL DEF Spec
=============================================================================
