---------------------------- MODULE ExtensionProofs ----------------------------
(***************************************************************************)
(* What Extension guarantees for every number of episodes and commands and *)
(* every length of a second, against every interleaving of the loader, the *)
(* game thread, the listener and the dispatch threads.  What the code says *)
(* of one sample after another (the reports and the GNSS poses) is proved  *)
(* for a host that dispatches on one thread, and only for such a host:     *)
(* with two the poses do come too close.                                   *)
(***************************************************************************)
EXTENDS Extension, TLAPS

(* What stands in which phase, and who can be at work.                     *)
LoadInv ==
  /\ phase \in {"create", "register", "loaded", "down"} => allocated
  /\ phase \in {"register", "loaded"} => made = Inits
  /\ made # {} => phase \in {"create", "register", "loaded"}
  /\ observer => phase \in {"register", "loaded"}
  /\ \A d \in Threads : at[d] # "idle" => observer \/ phase \in {"down", "gone"}
  /\ "control_cmd" \in made => "host_" \in made
  /\ listener # NoControl => "control_cmd" \in made

(* The ego is the last that registered, and no control names a later one.  *)
EgoInv ==
  /\ arrived = listener
  /\ listener # NoControl => listener.ego # 0
  /\ ego \in {0, lastEgo}
  /\ ego # 0 => episode > 0
  /\ listener.ego <= lastEgo /\ due.ego <= lastEgo
  /\ NewestCommandDrives

(* A thread's inputs lag the caches, and the caches the commands.          *)
LagInv ==
  /\ \A c \in Caches : cache[c] <= sent
  /\ \A d \in Threads, c \in Caches : inputs[d][c] <= cache[c]

(* Samples come in the order of the episodes.                              *)
FrameInv ==
  /\ seen.ep <= episode
  /\ \A d \in Threads : /\ frame[d].ep <= episode
                        /\ at[d] # "idle" => frame[d].ep > 0

IInv == TypeOK /\ LoadInv /\ EgoInv /\ LagInv /\ FrameInv

(* With one dispatch thread: what it decided upon is still so when it      *)
(* acts; the last pose is what the decimator remembers; and a pose of an   *)
(* older episode is older than all that was seen of this one.              *)
ShownInv == \A d \in Threads, c \in Caches : shown[c] <= inputs[d][c]

PoseInv ==
  /\ lastPub = pose.t
  /\ \A d \in Threads : at[d] = "publish" => ShouldPublish(frame[d].t)
  /\ \A d \in Threads : at[d] # "idle" => frame[d].ep >= seen.ep
  /\ pose.ep <= seen.ep
  /\ pose.ep # seen.ep => pose.t <= seen.first
  /\ seen.ep = 0 => seen.first = seen.last
  /\ seen.ep > 0 => seen.last - pose.t < Second
-------------------------------------------------------------------------------
(* One step of each part.                                                  *)

(* At the start nothing is loaded and nothing has been sent.               *)
LEMMA InitInv == Init => IInv /\ ShownInv /\ PoseInv
<1> SUFFICES ASSUME Init PROVE IInv /\ ShownInv /\ PoseInv
  OBVIOUS
<1> USE ExtensionConstants
<1>1. NoControl \in Controls /\ -Second \in Int
  BY DEF NoControl, Controls
<1>2. TypeOK
  <2>1. /\ allocated \in BOOLEAN /\ observer \in BOOLEAN /\ vtable \in BOOLEAN
        /\ versionOk \in BOOLEAN /\ mapKnown \in BOOLEAN
    BY Zenon DEF Init
  <2>2. /\ cache \in [Caches -> 0..MaxCommands] /\ shown \in [Caches -> 0..MaxCommands]
        /\ inputs \in [Threads -> [Caches -> 0..MaxCommands]]
    BY DEF Init
  <2>3. /\ at \in [Threads -> Reads \cup {"idle", "publish"}]
        /\ frame \in [Threads -> [t : Times, ep : 0..MaxEpisodes]]
    BY DEF Init, Times
  <2>4. /\ pose \in [t : Times \cup {-Second}, ep : 0..MaxEpisodes]
        /\ seen \in [ep : 0..MaxEpisodes, first : Times, last : Times]
        /\ lastPub \in Times \cup {-Second} /\ clock \in Times
    BY DEF Init, Times, NoPose
  <2> QED
    BY <1>1, <2>1, <2>2, <2>3, <2>4 DEF Init, TypeOK, Phases
<1>3. LoadInv /\ EgoInv
  BY DEF Init, LoadInv, EgoInv, NewestCommandDrives, NoControl
<1>4. LagInv /\ FrameInv /\ ShownInv
  BY DEF Init, LagInv, FrameInv, ShownInv
<1>5. PoseInv
  BY <1>1 DEF Init, PoseInv, NoPose
<1> QED
  BY <1>2, <1>3, <1>4, <1>5 DEF IInv

(* ext_on_status loads one cache after the other: a read moves its thread  *)
(* on, and gives it what the cache holds now.                              *)
LEMMA ReadStep ==
  ASSUME TypeOK, NEW d \in Threads, ReadCache(d)
  PROVE  /\ at' \in [Threads -> Reads \cup {"idle", "publish"}]
         /\ at[d] \in Reads /\ at'[d] \in Reads /\ \A e \in Threads : e # d => at'[e] = at[e]
         /\ inputs' \in [Threads -> [Caches -> 0..MaxCommands]]
         /\ \A e \in Threads, c \in Caches : inputs'[e][c] \in {inputs[e][c], cache[c]}
<1>1. at[d] \in Caches
  BY DEF ReadCache
<1>2. NextRead(at[d]) \in Reads /\ at[d] \in Reads
  BY <1>1 DEF NextRead, Reads, Caches
<1>3. at' = [at EXCEPT ![d] = NextRead(at[d])]
  BY DEF ReadCache
<1>4. inputs' = [inputs EXCEPT ![d] = [inputs[d] EXCEPT ![at[d]] = cache[at[d]]]]
  BY DEF ReadCache
<1>5. /\ inputs' \in [Threads -> [Caches -> 0..MaxCommands]]
      /\ \A e \in Threads, c \in Caches : inputs'[e][c] \in {inputs[e][c], cache[c]}
  BY <1>1, <1>4 DEF TypeOK
<1> QED
  BY <1>2, <1>3, <1>5 DEF TypeOK

(* Each step of each thread leaves every variable in its type.             *)
LEMMA TypeStep ==
  ASSUME TypeOK, EgoInv, [Next]_vars
  PROVE  TypeOK'
<1> USE ExtensionConstants
<1> USE DEF load, host, dds, dispatch, gnss, running,
           TypeOK, EgoInv, Phases, Times, Controls, NoControl, Reads
<1>1. CASE Reject
  BY <1>1 DEF Reject
<1>2. CASE AllocFails
  BY <1>2 DEF AllocFails
<1>3. CASE Alloc
  BY <1>3 DEF Alloc
<1>4. CASE \E s \in Inits : Create(s)
  BY <1>4 DEF Create
<1>5. CASE Register
  BY <1>5 DEF Register
<1>6. CASE Return
  BY <1>6 DEF Return
<1>7. CASE Teardown
  BY <1>7 DEF Teardown
<1>8. CASE OnShutdown
  BY <1>8 DEF OnShutdown
<1>9. CASE RegisterEgo
  BY <1>9 DEF RegisterEgo
<1>10. CASE \E t \in Times : NewEpisode(t)
  BY <1>10 DEF NewEpisode
<1>11. CASE \E t \in Times : Tick(t)
  BY <1>11 DEF Tick
<1>12. CASE SetFrame
  BY <1>12 DEF SetFrame
<1>13. CASE \E c \in Caches, parses \in BOOLEAN : CommandArrives(c, parses)
  BY <1>13 DEF CommandArrives
<1>14. CASE ControlDropped
  BY <1>14 DEF ControlDropped
<1>15. CASE ControlArrives
  BY <1>15 DEF ControlArrives
<1>16. CASE ControlApplied
  BY <1>16 DEF ControlApplied, Stages
<1>17. CASE \E d \in Threads : Dispatch(d)
  <2>1. PICK d \in Threads : Dispatch(d)
    BY <1>17
  <2>2. at' \in [Threads -> Reads \cup {"idle", "publish"}]
    BY <2>1 DEF Dispatch, Reads, Caches
  <2>3. frame' \in [Threads -> [t : 0..MaxTime, ep : 0..MaxEpisodes]]
    BY <2>1 DEF Dispatch
  <2> QED
    BY <2>1, <2>2, <2>3 DEF Dispatch
<1>18. CASE \E d \in Threads : ReadCache(d)
  <2>1. PICK d \in Threads : ReadCache(d)
    BY <1>18
  <2>2. at' \in [Threads -> Reads \cup {"idle", "publish"}]
    BY <2>1, ReadStep
  <2>3. inputs' \in [Threads -> [Caches -> 0..MaxCommands]]
    BY <2>1, ReadStep
  <2>4. shown' \in [Caches -> 0..MaxCommands]
    BY <2>1, <2>3 DEF ReadCache
  <2> QED
    BY <2>1, <2>2, <2>3, <2>4 DEF ReadCache
<1>19. CASE \E d \in Threads : Decimated(d)
  BY <1>19 DEF Decimated, Saw
<1>20. CASE \E d \in Threads : PoseDue(d)
  BY <1>20 DEF PoseDue
<1>21. CASE \E d \in Threads : PublishPose(d)
  BY <1>21 DEF PublishPose, Saw
<1>22. CASE UnregisterEgo
  BY <1>22 DEF UnregisterEgo
<1>23. CASE UNCHANGED vars
  BY <1>23 DEF vars
<1> QED
  BY <1>1, <1>2, <1>3, <1>4, <1>5, <1>6, <1>7, <1>8, <1>9, <1>10, <1>11, <1>12,
     <1>13, <1>14, <1>15, <1>16, <1>17, <1>18, <1>19, <1>20, <1>21, <1>22, <1>23
  DEF Next, Loader, GameThread, Listener, Observer

(* ControlSubscribers::Init copies the vtable before it subscribes.        *)
LEMMA HostFirst == "host_" \in Before("control_cmd")
<1> DEFINE Earlier == {j \in 1..9 : \A k \in 1..9 : Order[k] = "control_cmd" => j < k}
<1>1. Order[3] = "host_" /\ \A k \in 1..9 : Order[k] = "control_cmd" => k = 4
  BY DEF Order
<1>2. 3 \in Earlier
  BY <1>1
<1>3. Order[3] \in {Order[i] : i \in Earlier}
  BY <1>2
<1> QED
  BY <1>1, <1>3 DEF Before

(* The load and the unload keep their order, and the unload waits for the  *)
(* listener.                                                               *)
LEMMA LoadStep ==
  ASSUME TypeOK, LoadInv, [Next]_vars
  PROVE  LoadInv'
<1> USE DEF load, host, dds, dispatch, gnss, running, TypeOK, LoadInv, Inits
<1>1. CASE Reject
  BY <1>1 DEF Reject
<1>2. CASE AllocFails
  BY <1>2 DEF AllocFails
<1>3. CASE Alloc
  BY <1>3 DEF Alloc
<1>4. CASE \E s \in Inits : Create(s)
  <2>1. PICK s \in Inits : Create(s)
    BY <1>4
  <2>2. s = "control_cmd" => "host_" \in Before(s)
    BY HostFirst
  <2> QED
    BY <2>1, <2>2 DEF Create
<1>5. CASE Register
  BY <1>5 DEF Register
<1>6. CASE Return
  BY <1>6 DEF Return
<1>7. CASE Teardown
  BY <1>7 DEF Teardown
<1>8. CASE OnShutdown
  BY <1>8 DEF OnShutdown
<1>9. CASE RegisterEgo
  BY <1>9 DEF RegisterEgo
<1>10. CASE \E t \in Times : NewEpisode(t)
  BY <1>10 DEF NewEpisode
<1>11. CASE \E t \in Times : Tick(t)
  BY <1>11 DEF Tick
<1>12. CASE SetFrame
  BY <1>12 DEF SetFrame
<1>13. CASE \E c \in Caches, parses \in BOOLEAN : CommandArrives(c, parses)
  BY <1>13 DEF CommandArrives
<1>14. CASE ControlDropped
  BY <1>14 DEF ControlDropped
<1>15. CASE ControlArrives
  BY <1>15 DEF ControlArrives
<1>16. CASE ControlApplied
  BY <1>16 DEF ControlApplied, Stages
<1>17. CASE \E d \in Threads : Dispatch(d)
  BY <1>17 DEF Dispatch
<1>18. CASE \E d \in Threads : ReadCache(d)
  <2>1. PICK d \in Threads : ReadCache(d)
    BY <1>18
  <2>2. /\ at' \in [Threads -> Reads \cup {"idle", "publish"}]
        /\ at[d] \in Reads /\ at'[d] \in Reads /\ \A e \in Threads : e # d => at'[e] = at[e]
    BY <2>1, ReadStep
  <2>3. "idle" \notin Reads /\ "publish" \notin Reads
    BY DEF Reads, Caches
  <2>4. UNCHANGED <<phase, allocated, made, observer, listener>>
    BY <2>1 DEF ReadCache
  <2> QED
    BY <2>2, <2>3, <2>4
<1>19. CASE \E d \in Threads : Decimated(d)
  BY <1>19 DEF Decimated, Saw
<1>20. CASE \E d \in Threads : PoseDue(d)
  BY <1>20 DEF PoseDue
<1>21. CASE \E d \in Threads : PublishPose(d)
  BY <1>21 DEF PublishPose, Saw
<1>22. CASE UnregisterEgo
  BY <1>22 DEF UnregisterEgo
<1>23. CASE UNCHANGED vars
  BY <1>23 DEF vars
<1> QED
  BY <1>1, <1>2, <1>3, <1>4, <1>5, <1>6, <1>7, <1>8, <1>9, <1>10, <1>11, <1>12,
     <1>13, <1>14, <1>15, <1>16, <1>17, <1>18, <1>19, <1>20, <1>21, <1>22, <1>23
  DEF Next, Loader, GameThread, Listener, Observer

(* Whatever is staged, drained or dropped over a reload, the newest control *)
(* that found this ego drives it.                                          *)
LEMMA EgoStep ==
  ASSUME TypeOK, EgoInv, [Next]_vars
  PROVE  EgoInv'
<1> USE ExtensionConstants
<1> USE DEF load, host, dds, dispatch, gnss, running,
           TypeOK, EgoInv, Controls, NoControl, NewestCommandDrives
<1>1. CASE Reject
  BY <1>1 DEF Reject
<1>2. CASE AllocFails
  BY <1>2 DEF AllocFails
<1>3. CASE Alloc
  BY <1>3 DEF Alloc
<1>4. CASE \E s \in Inits : Create(s)
  BY <1>4 DEF Create
<1>5. CASE Register
  BY <1>5 DEF Register
<1>6. CASE Return
  BY <1>6 DEF Return
<1>7. CASE Teardown
  BY <1>7 DEF Teardown
<1>8. CASE OnShutdown
  BY <1>8 DEF OnShutdown
<1>9. CASE RegisterEgo
  BY <1>9 DEF RegisterEgo
<1>10. CASE \E t \in Times : NewEpisode(t)
  BY <1>10 DEF NewEpisode
<1>11. CASE \E t \in Times : Tick(t)
  BY <1>11 DEF Tick
<1>12. CASE SetFrame
  BY <1>12 DEF SetFrame
<1>13. CASE \E c \in Caches, parses \in BOOLEAN : CommandArrives(c, parses)
  BY <1>13 DEF CommandArrives
<1>14. CASE ControlDropped
  BY <1>14 DEF ControlDropped
<1>15. CASE ControlArrives
  BY <1>15 DEF ControlArrives
<1>16. CASE ControlApplied
  BY <1>16 DEF ControlApplied, Stages
<1>17. CASE \E d \in Threads : Dispatch(d)
  BY <1>17 DEF Dispatch
<1>18. CASE \E d \in Threads : ReadCache(d)
  BY <1>18 DEF ReadCache
<1>19. CASE \E d \in Threads : Decimated(d)
  BY <1>19 DEF Decimated, Saw
<1>20. CASE \E d \in Threads : PoseDue(d)
  BY <1>20 DEF PoseDue
<1>21. CASE \E d \in Threads : PublishPose(d)
  BY <1>21 DEF PublishPose, Saw
<1>22. CASE UnregisterEgo
  BY <1>22 DEF UnregisterEgo
<1>23. CASE UNCHANGED vars
  BY <1>23 DEF vars
<1> QED
  BY <1>1, <1>2, <1>3, <1>4, <1>5, <1>6, <1>7, <1>8, <1>9, <1>10, <1>11, <1>12,
     <1>13, <1>14, <1>15, <1>16, <1>17, <1>18, <1>19, <1>20, <1>21, <1>22, <1>23
  DEF Next, Loader, GameThread, Listener, Observer

(* A cache only ever takes a newer command.                                *)
LEMMA LagStep ==
  ASSUME TypeOK, LagInv, [Next]_vars
  PROVE  LagInv'
<1> USE ExtensionConstants
<1> USE DEF load, host, dds, dispatch, gnss, running, TypeOK, LagInv
<1>1. CASE Reject
  BY <1>1 DEF Reject
<1>2. CASE AllocFails
  BY <1>2 DEF AllocFails
<1>3. CASE Alloc
  BY <1>3 DEF Alloc
<1>4. CASE \E s \in Inits : Create(s)
  BY <1>4 DEF Create
<1>5. CASE Register
  BY <1>5 DEF Register
<1>6. CASE Return
  BY <1>6 DEF Return
<1>7. CASE Teardown
  BY <1>7 DEF Teardown
<1>8. CASE OnShutdown
  BY <1>8 DEF OnShutdown
<1>9. CASE RegisterEgo
  BY <1>9 DEF RegisterEgo
<1>10. CASE \E t \in Times : NewEpisode(t)
  BY <1>10 DEF NewEpisode
<1>11. CASE \E t \in Times : Tick(t)
  BY <1>11 DEF Tick
<1>12. CASE SetFrame
  BY <1>12 DEF SetFrame
<1>13. CASE \E c \in Caches, parses \in BOOLEAN : CommandArrives(c, parses)
  BY <1>13 DEF CommandArrives
<1>14. CASE ControlDropped
  BY <1>14 DEF ControlDropped
<1>15. CASE ControlArrives
  BY <1>15 DEF ControlArrives
<1>16. CASE ControlApplied
  BY <1>16 DEF ControlApplied, Stages
<1>17. CASE \E d \in Threads : Dispatch(d)
  BY <1>17 DEF Dispatch
<1>18. CASE \E d \in Threads : ReadCache(d)
  BY <1>18 DEF ReadCache
<1>19. CASE \E d \in Threads : Decimated(d)
  BY <1>19 DEF Decimated, Saw
<1>20. CASE \E d \in Threads : PoseDue(d)
  BY <1>20 DEF PoseDue
<1>21. CASE \E d \in Threads : PublishPose(d)
  BY <1>21 DEF PublishPose, Saw
<1>22. CASE UnregisterEgo
  BY <1>22 DEF UnregisterEgo
<1>23. CASE UNCHANGED vars
  BY <1>23 DEF vars
<1> QED
  BY <1>1, <1>2, <1>3, <1>4, <1>5, <1>6, <1>7, <1>8, <1>9, <1>10, <1>11, <1>12,
     <1>13, <1>14, <1>15, <1>16, <1>17, <1>18, <1>19, <1>20, <1>21, <1>22, <1>23
  DEF Next, Loader, GameThread, Listener, Observer

(* A sample is of an episode that has begun.                               *)
LEMMA FrameStep ==
  ASSUME TypeOK, EgoInv, FrameInv, [Next]_vars
  PROVE  FrameInv'
<1> USE ExtensionConstants
<1> USE DEF load, host, dds, dispatch, gnss, running, TypeOK, EgoInv, FrameInv
<1>1. CASE Reject
  BY <1>1 DEF Reject
<1>2. CASE AllocFails
  BY <1>2 DEF AllocFails
<1>3. CASE Alloc
  BY <1>3 DEF Alloc
<1>4. CASE \E s \in Inits : Create(s)
  BY <1>4 DEF Create
<1>5. CASE Register
  BY <1>5 DEF Register
<1>6. CASE Return
  BY <1>6 DEF Return
<1>7. CASE Teardown
  BY <1>7 DEF Teardown
<1>8. CASE OnShutdown
  BY <1>8 DEF OnShutdown
<1>9. CASE RegisterEgo
  BY <1>9 DEF RegisterEgo
<1>10. CASE \E t \in Times : NewEpisode(t)
  BY <1>10 DEF NewEpisode
<1>11. CASE \E t \in Times : Tick(t)
  BY <1>11 DEF Tick
<1>12. CASE SetFrame
  BY <1>12 DEF SetFrame
<1>13. CASE \E c \in Caches, parses \in BOOLEAN : CommandArrives(c, parses)
  BY <1>13 DEF CommandArrives
<1>14. CASE ControlDropped
  BY <1>14 DEF ControlDropped
<1>15. CASE ControlArrives
  BY <1>15 DEF ControlArrives
<1>16. CASE ControlApplied
  BY <1>16 DEF ControlApplied, Stages
<1>17. CASE \E d \in Threads : Dispatch(d)
  BY <1>17 DEF Dispatch
<1>18. CASE \E d \in Threads : ReadCache(d)
  <2>1. PICK d \in Threads : ReadCache(d)
    BY <1>18
  <2>2. /\ at' \in [Threads -> Reads \cup {"idle", "publish"}]
        /\ at[d] \in Reads /\ at'[d] \in Reads /\ \A e \in Threads : e # d => at'[e] = at[e]
    BY <2>1, ReadStep
  <2>3. "idle" \notin Reads /\ "publish" \notin Reads
    BY DEF Reads, Caches
  <2>4. UNCHANGED <<seen, episode, frame>>
    BY <2>1 DEF ReadCache
  <2> QED
    BY <2>2, <2>3, <2>4
<1>19. CASE \E d \in Threads : Decimated(d)
  BY <1>19 DEF Decimated, Saw
<1>20. CASE \E d \in Threads : PoseDue(d)
  BY <1>20 DEF PoseDue
<1>21. CASE \E d \in Threads : PublishPose(d)
  BY <1>21 DEF PublishPose, Saw
<1>22. CASE UnregisterEgo
  BY <1>22 DEF UnregisterEgo
<1>23. CASE UNCHANGED vars
  BY <1>23 DEF vars
<1> QED
  BY <1>1, <1>2, <1>3, <1>4, <1>5, <1>6, <1>7, <1>8, <1>9, <1>10, <1>11, <1>12,
     <1>13, <1>14, <1>15, <1>16, <1>17, <1>18, <1>19, <1>20, <1>21, <1>22, <1>23
  DEF Next, Loader, GameThread, Listener, Observer

(* One thread shows what it has read last.                                 *)
LEMMA ShownStep ==
  ASSUME NEW e, Threads = {e}, TypeOK, LagInv, ShownInv, [Next]_vars
  PROVE  ShownInv'
<1> USE ExtensionConstants
<1> USE DEF load, host, dds, dispatch, gnss, running, TypeOK, LagInv, ShownInv
<1>1. CASE Reject
  BY <1>1 DEF Reject
<1>2. CASE AllocFails
  BY <1>2 DEF AllocFails
<1>3. CASE Alloc
  BY <1>3 DEF Alloc
<1>4. CASE \E s \in Inits : Create(s)
  BY <1>4 DEF Create
<1>5. CASE Register
  BY <1>5 DEF Register
<1>6. CASE Return
  BY <1>6 DEF Return
<1>7. CASE Teardown
  BY <1>7 DEF Teardown
<1>8. CASE OnShutdown
  BY <1>8 DEF OnShutdown
<1>9. CASE RegisterEgo
  BY <1>9 DEF RegisterEgo
<1>10. CASE \E t \in Times : NewEpisode(t)
  BY <1>10 DEF NewEpisode
<1>11. CASE \E t \in Times : Tick(t)
  BY <1>11 DEF Tick
<1>12. CASE SetFrame
  BY <1>12 DEF SetFrame
<1>13. CASE \E c \in Caches, parses \in BOOLEAN : CommandArrives(c, parses)
  BY <1>13 DEF CommandArrives
<1>14. CASE ControlDropped
  BY <1>14 DEF ControlDropped
<1>15. CASE ControlArrives
  BY <1>15 DEF ControlArrives
<1>16. CASE ControlApplied
  BY <1>16 DEF ControlApplied, Stages
<1>17. CASE \E d \in Threads : Dispatch(d)
  BY <1>17 DEF Dispatch
<1>18. CASE \E d \in Threads : ReadCache(d)
  BY <1>18 DEF ReadCache
<1>19. CASE \E d \in Threads : Decimated(d)
  BY <1>19 DEF Decimated, Saw
<1>20. CASE \E d \in Threads : PoseDue(d)
  BY <1>20 DEF PoseDue
<1>21. CASE \E d \in Threads : PublishPose(d)
  BY <1>21 DEF PublishPose, Saw
<1>22. CASE UnregisterEgo
  BY <1>22 DEF UnregisterEgo
<1>23. CASE UNCHANGED vars
  BY <1>23 DEF vars
<1> QED
  BY <1>1, <1>2, <1>3, <1>4, <1>5, <1>6, <1>7, <1>8, <1>9, <1>10, <1>11, <1>12,
     <1>13, <1>14, <1>15, <1>16, <1>17, <1>18, <1>19, <1>20, <1>21, <1>22, <1>23
  DEF Next, Loader, GameThread, Listener, Observer

(* One thread's decimator: nobody writes last_pub_s_ between its test and  *)
(* its pose.                                                               *)
LEMMA PoseStep ==
  ASSUME NEW e, Threads = {e}, TypeOK, FrameInv, PoseInv, [Next]_vars
  PROVE  PoseInv'
<1> USE ExtensionConstants
<1> USE DEF load, host, dds, dispatch, gnss, running,
           TypeOK, FrameInv, PoseInv, ShouldPublish, Times
<1>1. CASE Reject
  BY <1>1 DEF Reject
<1>2. CASE AllocFails
  BY <1>2 DEF AllocFails
<1>3. CASE Alloc
  BY <1>3 DEF Alloc
<1>4. CASE \E s \in Inits : Create(s)
  BY <1>4 DEF Create
<1>5. CASE Register
  BY <1>5 DEF Register
<1>6. CASE Return
  BY <1>6 DEF Return
<1>7. CASE Teardown
  BY <1>7 DEF Teardown
<1>8. CASE OnShutdown
  BY <1>8 DEF OnShutdown
<1>9. CASE RegisterEgo
  BY <1>9 DEF RegisterEgo
<1>10. CASE \E t \in Times : NewEpisode(t)
  BY <1>10 DEF NewEpisode
<1>11. CASE \E t \in Times : Tick(t)
  BY <1>11 DEF Tick
<1>12. CASE SetFrame
  BY <1>12 DEF SetFrame
<1>13. CASE \E c \in Caches, parses \in BOOLEAN : CommandArrives(c, parses)
  BY <1>13 DEF CommandArrives
<1>14. CASE ControlDropped
  BY <1>14 DEF ControlDropped
<1>15. CASE ControlArrives
  BY <1>15 DEF ControlArrives
<1>16. CASE ControlApplied
  BY <1>16 DEF ControlApplied, Stages
<1>17. CASE \E d \in Threads : Dispatch(d)
  BY <1>17 DEF Dispatch
<1>18. CASE \E d \in Threads : ReadCache(d)
  <2>1. PICK d \in Threads : ReadCache(d)
    BY <1>18
  <2>2. /\ at' \in [Threads -> Reads \cup {"idle", "publish"}]
        /\ at[d] \in Reads /\ at'[d] \in Reads /\ \A o \in Threads : o # d => at'[o] = at[o]
    BY <2>1, ReadStep
  <2>3. "idle" \notin Reads /\ "publish" \notin Reads
    BY DEF Reads, Caches
  <2>4. UNCHANGED <<lastPub, pose, seen, frame>>
    BY <2>1 DEF ReadCache
  <2> QED
    BY <2>2, <2>3, <2>4
<1>19. CASE \E d \in Threads : Decimated(d)
  BY <1>19 DEF Decimated, Saw
<1>20. CASE \E d \in Threads : PoseDue(d)
  BY <1>20 DEF PoseDue
<1>21. CASE \E d \in Threads : PublishPose(d)
  BY <1>21 DEF PublishPose, Saw
<1>22. CASE UnregisterEgo
  BY <1>22 DEF UnregisterEgo
<1>23. CASE UNCHANGED vars
  BY <1>23 DEF vars
<1> QED
  BY <1>1, <1>2, <1>3, <1>4, <1>5, <1>6, <1>7, <1>8, <1>9, <1>10, <1>11, <1>12,
     <1>13, <1>14, <1>15, <1>16, <1>17, <1>18, <1>19, <1>20, <1>21, <1>22, <1>23
  DEF Next, Loader, GameThread, Listener, Observer

-------------------------------------------------------------------------------
(* The theorems.                                                           *)

(* For every number of dispatch threads.                                   *)
THEOREM Invariance == Spec => []IInv
<1>1. Init => IInv
  BY InitInv
<1>2. ASSUME IInv, [Next]_vars PROVE IInv'
  BY <1>2, TypeStep, LoadStep, EgoStep, LagStep, FrameStep DEF IInv
<1> QED
  BY <1>1, <1>2, PTL DEF Spec

(* Every variable keeps to its type.                                       *)
THEOREM TypeCorrect == Spec => []TypeOK
BY Invariance, PTL DEF IInv

(* ExtensionInit.cpp:115-118, 156-172: no callback of the listener         *)
(* outlives the state it works on or comes before it, through load and     *)
(* unload, and no sample is dispatched into an unfinished state.           *)
THEOREM StateOutlivesCallbacks == Spec => []CallbacksFindTheirState
<1>1. IInv => CallbacksFindTheirState
  BY DEF IInv, TypeOK, LoadInv, CallbacksFindTheirState
<1> QED
  BY Invariance, <1>1, PTL

(* ControlSubscribers.cpp:95-103: over any number of reloads the newest    *)
(* control that found the present ego drives it, or will with the next     *)
(* frame.                                                                  *)
THEOREM NewestDrives == Spec => []NewestCommandDrives
BY Invariance, PTL DEF IInv, EgoInv

(* Only a read changes what a thread has read or what is shown.            *)
LEMMA WhoWrites ==
  ASSUME [Next]_vars
  PROVE  UNCHANGED <<inputs, shown>> \/ \E d \in Threads : ReadCache(d)
BY DEF Next, Loader, GameThread, Listener, Observer, vars, load, host, dds, dispatch, gnss, running,
       Reject, AllocFails, Alloc, Create, Register, Return, Teardown, OnShutdown, RegisterEgo,
       UnregisterEgo, NewEpisode, Tick, SetFrame, CommandArrives, ControlDropped, ControlArrives, ControlApplied,
       Dispatch, ReadCache, Decimated, PoseDue, PublishPose

(* ExtensionInit.cpp:88-97: what one thread reads of a cache is never      *)
(* older than what that thread read before, however many there are.        *)
ThreadsReadForward == [][\A d \in Threads, c \in Caches : inputs'[d][c] >= inputs[d][c]]_vars

(* So it is in every behaviour: ext_on_status never reads backwards.       *)
THEOREM EachThreadForwards == Spec => ThreadsReadForward
<1>1. ASSUME IInv, [Next]_vars
      PROVE  [\A d \in Threads, c \in Caches : inputs'[d][c] >= inputs[d][c]]_vars
  <2> SUFFICES ASSUME NEW d \in Threads, NEW c \in Caches PROVE inputs'[d][c] >= inputs[d][c]
    OBVIOUS
  <2>1. inputs[d][c] \in Nat /\ cache[c] \in Nat /\ inputs[d][c] <= cache[c]
    BY <1>1 DEF IInv, TypeOK, LagInv
  <2>2. CASE \E e \in Threads : ReadCache(e)
    BY <1>1, <2>1, <2>2, ReadStep DEF IInv
  <2>3. CASE UNCHANGED inputs
    BY <2>1, <2>3
  <2> QED
    BY <1>1, <2>2, <2>3, WhoWrites
<1> QED
  BY <1>1, Invariance, PTL DEF Spec, ThreadsReadForward

(* With one dispatch thread.                                               *)
LEMMA OneThread ==
  ASSUME NEW e, Threads = {e}
  PROVE  Spec => [](IInv /\ ShownInv /\ PoseInv)
<1>1. Init => IInv /\ ShownInv /\ PoseInv
  BY InitInv
<1>2. ASSUME IInv /\ ShownInv /\ PoseInv, [Next]_vars PROVE (IInv /\ ShownInv /\ PoseInv)'
  BY <1>2, TypeStep, LoadStep, EgoStep, LagStep, FrameStep, ShownStep, PoseStep DEF IInv
<1> QED
  BY <1>1, <1>2, PTL DEF Spec

(* ExtensionInit.cpp:88-97: on one dispatch thread no status report shows  *)
(* an older command than the report before it.                             *)
THEOREM ReportsForward == ASSUME NEW e, Threads = {e} PROVE Spec => ReportsNeverGoBack
<1>1. ASSUME IInv /\ ShownInv /\ PoseInv, [Next]_vars
      PROVE  [\A c \in Caches : shown'[c] >= shown[c]]_vars
  <2>1. SUFFICES ASSUME NEW c \in Caches PROVE shown'[c] >= shown[c]
    OBVIOUS
  <2>2. shown[c] \in Nat /\ shown[c] <= inputs[e][c] /\ inputs[e][c] <= cache[c]
        /\ inputs[e][c] \in Nat /\ cache[c] \in Nat
    BY <1>1 DEF IInv, TypeOK, LagInv, ShownInv
  <2>3. CASE ReadCache(e)
    <3>1. inputs'[e][c] \in {inputs[e][c], cache[c]}
      BY <1>1, <2>3, ReadStep DEF IInv
    <3>2. shown' \in {inputs'[e], shown}
      BY <2>3 DEF ReadCache
    <3> QED
      BY <2>2, <3>1, <3>2
  <2>4. CASE UNCHANGED shown
    BY <2>2, <2>4
  <2> QED
    BY <1>1, <2>3, <2>4, WhoWrites
<1> QED
  BY <1>1, OneThread, PTL DEF Spec, ReportsNeverGoBack

(* GnssPosePublisher.cpp:39-45: on one dispatch thread the decimator is    *)
(* reload-safe, whatever the clock shows after the reload.                 *)
THEOREM FreshAfterReload == ASSUME NEW e, Threads = {e} PROVE Spec => []PoseIsFresh
<1>1. IInv /\ PoseInv => PoseIsFresh
  <2> SUFFICES ASSUME IInv, PoseInv, seen.last - seen.first >= Second
               PROVE  pose.ep = seen.ep /\ seen.last - pose.t < Second
    BY DEF PoseIsFresh
  <2>1. /\ seen.last \in Int /\ seen.first \in Int /\ pose.t \in Int
        /\ seen.ep \in Nat /\ pose.ep \in Nat /\ Second \in Nat \ {0}
    BY ExtensionConstants DEF IInv, TypeOK, Times
  <2>2. seen.ep > 0
    BY <2>1 DEF PoseInv
  <2> QED
    BY <2>1, <2>2 DEF PoseInv
<1> QED
  BY <1>1, OneThread, PTL
===============================================================================
