--------------------------- MODULE ClientPrograms ---------------------------
(* The programs that drive one daemon from a workstation, one at a time: a  *)
(* caller of Robot, Arm and RobotAgent, examples/reset.py, and              *)
(* examples/joint_sysid.py; with the daemon, the network and the clock.     *)
EXTENDS ArmClient, ResetProgram, JointSysid

VARIABLE program

vars == <<cache, open, sent, waiting, effect, err, sensor, seen, now, calls, task, reset, sysid, heard, program>>

ProgramsInit ==
    /\ Init
    /\ task = NoTask
    /\ \/ program = "caller" /\ reset = ResetUnused /\ sysid = SysidUnused
       \/ program = "reset" /\ (\E o \in ResetOptions : reset = ResetStarts(o)) /\ sysid = SysidUnused
       \/ program = "sysid" /\ (\E o \in SysidOptions : sysid = SysidStarts(o)) /\ reset = ResetUnused
    /\ heard = Unheard
    /\ program # "caller" => ~sensor      \* neither of the others looks at the sensor

CallerStep == program = "caller" /\ CallerNext /\ UNCHANGED <<daemon, reset, sysid, heard, program>>

ResetStep == program = "reset" /\ ResetNext /\ UNCHANGED <<daemon, now, calls, task, sysid, heard, program>>

SysidStep == program = "sysid" /\ SysidNext /\ UNCHANGED <<daemon, now, calls, task, reset, heard, program>>

World ==
    /\ \/ (Deliver \/ Fault) /\ UNCHANGED heard
       \/ Tick /\ (program = "caller" => Timed) /\ UNCHANGED heard
       \/ IF program = "sysid" THEN Hears ELSE Receive /\ UNCHANGED heard
    /\ UNCHANGED <<task, reset, sysid, program>>

Next == CallerStep \/ ResetStep \/ SysidStep \/ World

Spec == ProgramsInit /\ [][Next]_vars
=============================================================================
