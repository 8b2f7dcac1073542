------------------------------- MODULE MCIpc -------------------------------
(* What runs in user space below the applications: the protocol between      *)
(* clients and window server, as a system of processes and, on its own, as   *)
(* an encoding, and the parts of the C library.  part selects one.           *)
EXTENDS Ipc, UserHeap, Stdio, CString, CFormat, CEnv

VARIABLE part

MCContents == {<<>>, <<1, 0, High, 4, 5>>}
MCCallocPairs == {[num |-> 3, size |-> 1300]}
MCPwLines == {<<1, 58, 2, 58, 3>>, <<1, 1, 58, 2, 58, 3, 3>>, <<2, 58, 58>>, <<2, 2, 2, 58, 3>>}

libvars == <<uh, io, cs, cf, env, pw>>

Init ==
    /\ part \in {"processes", "wire", "malloc", "stdio", "string", "format", "environ", "passwd"}
    /\ IpcInit /\ WireInit /\ EnvInit
    /\ IF part = "malloc" THEN UhInit ELSE uh = <<>>
    /\ IF part = "stdio" THEN IoInit ELSE io = <<>>
    /\ IF part = "string" THEN CsInit ELSE cs = [fn |-> "none"]
    /\ IF part = "format" THEN CfInit ELSE cf = [fn |-> "none"]
    /\ IF part = "passwd" THEN PwInit ELSE pw = <<>>

Next ==
    /\ UNCHANGED part
    /\ \/ part = "processes" /\ IpcNext /\ UNCHANGED <<wire, sent, libvars>>
       \/ part = "wire" /\ WireNext /\ UNCHANGED <<ipcvars, libvars>>
       \/ part = "malloc" /\ UhNext /\ UNCHANGED <<ipcvars, wire, sent, io, cs, cf, env, pw>>
       \/ part = "stdio" /\ IoNext /\ UNCHANGED <<ipcvars, wire, sent, uh, cs, cf, env, pw>>
       \/ part = "environ" /\ EnvNext /\ UNCHANGED <<ipcvars, wire, sent, uh, io, cs, cf, pw>>
       \/ part = "passwd" /\ PwNext /\ UNCHANGED <<ipcvars, wire, sent, uh, io, cs, cf, env>>

Spec ==
    /\ Init /\ [][Next]_<<part, ipcvars, wire, sent, libvars>>
    /\ (part = "processes" => IpcFairness)

-----------------------------------------------------------------------------
\* What a program keeps in the C library stays its own: memory from malloc,
\* the bytes of a stream, the environment, the lines of /etc/passwd.
LibcKeeps ==
    /\ part = "malloc" => HeldDisjoint /\ ChunksPartition
    /\ part = "stdio" => StreamIsFile /\ BufferLive
    /\ part = "environ" => EnvIsMap
    /\ part = "passwd" => LinesFound

\* The functions of the C library, and the kernel's copies of some of them, are
\* what the standard says: strings and memory, numbers and formats, sorting, dates.
LibcExact ==
    /\ part = "string" => StringsExact /\ MovesExact
    /\ part = "format" => /\ NumbersRoundTrip /\ StrtolExact /\ PrintfsAgree
                          /\ SortExact /\ CalendarExact
=============================================================================
