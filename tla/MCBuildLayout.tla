---------------------------- MODULE MCBuildLayout ----------------------------
(***************************************************************************)
(* An instance of BuildLayout for TLC: the two scripts, two profiles, the  *)
(* ways to set the variables right and wrong, and two boards.              *)
(***************************************************************************)
EXTENDS BuildLayout, TLC

MCEnv(app, flash, ram_size, info_path) ==
    [vars |-> [APP_BASE |-> app, FLASH_SIZE |-> flash, RAM_BASE |-> None, RAM_SIZE |-> ram_size],
     info_path |-> info_path]

MCEnvironments ==
    {MCEnv(2, 8, None, None), MCEnv(2, 8, 0, None), MCEnv(8, 8, None, None),
     MCEnv(2, None, None, None), MCEnv(Junk, None, Junk, "given")}

\* A board's file, one whose second "App start" makes no sense, and one with a
\* line that has no colon.
MCFiles ==
    LET app   == [key |-> "App start", val |-> 1]
        flash == [key |-> "Flash size", val |-> 4]
        other == [key |-> "other", val |-> Junk]
    IN  {<<other, app, flash>>,
         <<app, flash, [app EXCEPT !.val = Junk]>>,
         <<app, flash, [other EXCEPT !.key = None]>>}

MCMountPaths == <<"media">>

\* Profiles are only compared.
MCSymmetry == Permutations(Profiles)
=============================================================================
