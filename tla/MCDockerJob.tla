---------------------------- MODULE MCDockerJob ----------------------------
(***************************************************************************)
(* Small instances of DockerJob: one repository, hosts of a few containers *)
(* that differ in how their names, versions and labels are found.          *)
(***************************************************************************)
EXTENDS DockerJob

V12    == Release(FALSE, <<1, 2>>, "")
VV12   == Release(TRUE, <<1, 2>>, "")
V13    == Release(FALSE, <<1, 3>>, "")
V1     == Release(FALSE, <<1>>, "")
V13alp == Release(FALSE, <<1, 3>>, "-alpine")
VHuge  == Release(FALSE, <<1, 9>>, "")       \* beyond MaxInt
Latest == Word("latest")

Container(name, service, custom, repo, tag, version, labels) ==
  [name |-> name, service |-> service, custom |-> custom,
   repo |-> repo, tag |-> tag, version |-> version, labels |-> labels]

plain    == Container(1, 0, 0, "nginx", V12, Blank, {})
compose  == Container(2, 4, 0, "nginx", V12, V13, {"up2date.watch=true"})
twin     == Container(3, 4, 0, "nginx", V12, Blank, {"up2date.watch=true"})
digest   == Container(4, 0, 5, "nginx", Blank, V12, {"up2date.watch=true"})
foreign  == Container(5, 0, 0, "quay", V12, Blank, {"up2date.watch=true"})
optout   == Container(6, 0, 0, "nginx", V12, Blank, {"up2date.watch=false"})
ignored  == Container(7, 0, 0, "nginx", V12, Blank, {"up2date.ignore=true"})
moving   == Container(8, 0, 0, "nginx", Latest, V12, {"up2date.watch=true"})
huge     == Container(9, 0, 0, "nginx", VHuge, V12, {"up2date.watch=true"})
bare     == Container(11, 0, 0, "nginx", Blank, Blank, {})
enabled  == Container(10, 0, 0, "nginx", V13alp, Blank, {"up2date.enable=true"})

ahead    == Container(12, 0, 0, "nginx", V13, Blank, {})

MCHosts == {{plain, compose, twin}, {digest, moving, compose},
            {optout, ignored, huge, compose}, {foreign, enabled, bare, ahead}}

MCTags == {V12, VV12, V13, VHuge, V13alp}

MCSmallHosts == {{enabled, compose}, {enabled}}
MCSmallTags  == {V12}
=============================================================================
