--------------------------- MODULE SlaveProtocol ---------------------------
(***************************************************************************)
(* What an FMI co-simulation slave library may be asked, in which order,   *)
(* by a master that keeps the lifecycle it documents: an instance is set   *)
(* up, initialised, used and freed once, nothing but its release follows a *)
(* failed initialisation, and the library outlives its instances.          *)
(***************************************************************************)
CONSTANT Instances

VARIABLES
    library,    \* "closed" or "open"
    slave       \* the state of each instance

protocolVars == <<library, slave>>

SlaveStates == {"absent", "created", "configured", "initializing", "failed", "stepping", "terminated", "freed"}
Alive == SlaveStates \ {"absent", "freed"}

ProtocolInit == library = "closed" /\ slave = [i \in Instances |-> "absent"]

Open == library = "closed" /\ library' = "open" /\ UNCHANGED slave

Moves(from, to) == \E i \in Instances : /\ library = "open"
                                        /\ slave[i] \in from
                                        /\ slave' = [slave EXCEPT ![i] = to]
                                        /\ UNCHANGED library

\* A master owns one instance at a time.
Create == Moves({"absent"}, "created") /\ \A i \in Instances : slave[i] \notin Alive
Setup == Moves({"created"}, "configured")
Enter == Moves({"configured"}, "initializing")
Exit == Moves({"initializing"}, "stepping")
Fail == Moves({"created", "configured", "initializing"}, "failed")
Terminate == Moves({"stepping"}, "terminated")
Free == Moves({"failed", "terminated"}, "freed")

Close == /\ library = "open"
         /\ \A i \in Instances : slave[i] \notin Alive
         /\ library' = "closed"
         /\ UNCHANGED slave

ProtocolNext == Open \/ Create \/ Setup \/ Enter \/ Exit \/ Fail \/ Terminate \/ Free \/ Close

ProtocolSpec == ProtocolInit /\ [][ProtocolNext]_protocolVars
=============================================================================
