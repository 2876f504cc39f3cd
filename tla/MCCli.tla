-------------------------------- MODULE MCCli --------------------------------
(***************************************************************************)
(* Instances of Cli for TLC.                                               *)
(***************************************************************************)
EXTENDS Cli, TLC

Doc(genuine, issued, expires, features) ==
  [readable |-> TRUE, genuine |-> genuine, issued |-> issued, expires |-> expires,
   features |-> features]

\* In force from 1 to 1; granting one feature for ever; forged.
Brief == Doc(TRUE, 1, 1, Capability)
Production == Doc(TRUE, 0, None, {"commercial-production"})
Forged == Doc(FALSE, 0, None, Capability)

MCInlines == {Missing, Blank, Brief}
MCStored == {Missing, Production}

Op(tick, valid) == [tick |-> tick, valid |-> valid]
Cmd(kind, production, ns, ops) ==
  [kind |-> kind, production |-> production, ns |-> ns, ops |-> ops]

MCCommands ==
  {Cmd("write", TRUE, "n1", <<Op(1, TRUE)>>),
   Cmd("batch", FALSE, "n1", <<Op(0, TRUE), Op(2, TRUE)>>),
   Cmd("batch", FALSE, "n1", <<Op(2, TRUE), Op(0, FALSE)>>),
   Cmd("batch", FALSE, "n1", << >>),
   Cmd("write", FALSE, "n2", <<Op(0, TRUE)>>),
   Cmd("verify", FALSE, "none", << >>),
   Cmd("report", FALSE, "none", << >>),
   Cmd("show", FALSE, "none", << >>),
   Cmd("mode", FALSE, "none", << >>)}

Files(c, h, p) == [custom |-> c, home |-> h, project |-> p]
MCEarlierFiles ==
  {Files(Blank, Missing, Brief), Files(Missing, Production, Brief),
   Files(TooLarge, Forged, Production)}

MCEarlierLogs == {<< >>, <<[by |-> Nobody, ns |-> "n1", tick |-> 2]>>}

ProcSymmetry == Permutations(Procs)
=============================================================================
