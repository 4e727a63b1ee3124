---------------------------- MODULE MCHddInstall ----------------------------
EXTENDS HddInstall

MCBootHdd == {<<>>, <<"POWEROFF.ELF">>}

(* No programs, an empty folder, or a folder with one. *)
MCAppsHdd == {<<>>, <<Dir(Apps, "", "APP")>>, <<Dir(Apps, "", "APP"), File(Apps, "APP", "app.elf")>>}
=============================================================================
