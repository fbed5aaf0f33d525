---------------------------- MODULE BuildLayout ----------------------------
(***************************************************************************)
(* The build scripts of the nice!nano firmwares: feather-fw/build.rs and   *)
(* radio-tx/build.rs, which is also radio-rx/build.rs.  They find out      *)
(* where the bootloader lets a program begin, and write it to a memory.x   *)
(* for the linker.  What they find is in environment variables or, for     *)
(* feather-fw, in a file of the bootloader's.                              *)
(*                                                                         *)
(* Cargo, which is modelled as far as the scripts rely on it, builds each  *)
(* profile with its own OUT_DIR, and runs a script again when a variable   *)
(* that it named has changed.                                              *)
(***************************************************************************)
EXTENDS Integers, Sequences, SequencesExt

CONSTANTS
    None,             \* no such variable, no such file, no colon on the line
    Junk,             \* what parse_hex_u32 takes for no number
    Profiles,         \* "debug" and "release"
    Scripts,          \* the scripts looked at: "feather", "radio"
    Environments,     \* bound: the environments of the builds
    Paths, Files,     \* bound: where an INFO_UF2.TXT may be, and what it may hold
    MountPaths,       \* the paths below /media/USER and /run/media/USER, in order
    DefaultRamBase,   \* 0x2000_0000
    DefaultRamSize    \* 0x0004_0000

Region == [origin : Nat, length : Nat]

Layout == [flash : Region, ram : Region]

Number == Nat \union {None, Junk}

Environment ==
    [vars : [{"APP_BASE", "FLASH_SIZE", "RAM_BASE", "RAM_SIZE"} -> Number],
     info_path : Paths \union {None}]

\* A line of a file, cut at its first colon.
Key == {"App start", "Flash size", "other"}

Line == [key : Key \union {None}, val : Nat \union {Junk}]

\* None and Junk are nothing that a program reads or writes.
ASSUME BuildAssumption ==
    /\ None \notin Nat /\ Junk \notin Nat /\ None # Junk
    /\ None \notin Paths /\ None \notin Files /\ None \notin Key
    /\ None \notin [app : Nat, flash : Nat] /\ None \notin Layout /\ None \notin Environment
    /\ Scripts \subseteq {"feather", "radio"}
    /\ Environments \subseteq Environment
    /\ Files \subseteq Seq(Line)
    /\ MountPaths \in Seq(Paths)
    /\ DefaultRamBase \in Nat /\ DefaultRamSize \in Nat

VARIABLES
    script,   \* the script of the crate that is built, in this run
    env,      \* the environment of the next build
    disk,     \* of each path the lines of the file, or None
    stamp,    \* cargo: of each profile what the script had named when it ran, or None
    out,      \* of each profile the memory.x in its OUT_DIR, or None
    root,     \* the memory.x in the crate's directory, or None
    image,    \* of each profile the layout it was last linked with, or None
    built,    \* history: of each profile the environment of the last good build
    read      \* history: of each profile the disk when its script last ran

buildVars == <<script, env, disk, stamp, out, root, image, built, read>>

-----------------------------------------------------------------------------
(* The scripts.                                                            *)

ParseHexU32(val) == IF val = Junk THEN None ELSE val

\* The last line of a key counts, and one line without a colon spoils the file.
LineValue(file, key) ==
    LET last == SelectLastInSeq(file, LAMBDA line : line.key = key)
    IN  IF last = 0 THEN None ELSE ParseHexU32(file[last].val)

ReadInfoFile(file) ==
    IF \E i \in DOMAIN file : file[i].key = None THEN None
    ELSE IF None \in {LineValue(file, "App start"), LineValue(file, "Flash size")} THEN None
    ELSE [app |-> LineValue(file, "App start"), flash |-> LineValue(file, "Flash size")]

CandidateInfoPaths ==
    (IF env.info_path # None THEN <<env.info_path>> ELSE <<>>) \o MountPaths

\* The first candidate that can be read.
FromInfo ==
    LET usable == SelectInSeq(CandidateInfoPaths, LAMBDA path :
                      disk[path] # None /\ ReadInfoFile(disk[path]) # None)
    IN  IF usable = 0 THEN None ELSE ReadInfoFile(disk[CandidateInfoPaths[usable]])

Var(name) == ParseHexU32(env.vars[name])

\* Where the program begins and the flash ends, or None: exit(1), or an expect.
Found ==
    LET app   == Var("APP_BASE")
        flash == Var("FLASH_SIZE")
    IN  IF app # None /\ flash # None THEN [app |-> app, flash |-> flash]
        ELSE IF script = "feather" /\ app = None /\ flash = None THEN FromInfo
        ELSE None

\* Mutant of NoRoom: a program of no bytes is let through.
NoRoomButEqual(found) == found.app > found.flash

NoRoom(found) == found.app >= found.flash

Refuses == IF Found = None THEN TRUE ELSE NoRoom(Found)

Or(val, default) == IF val = None THEN default ELSE val

MemoryX(found) ==
    [flash |-> [origin |-> found.app, length |-> found.flash - found.app],
     ram |-> [origin |-> Or(Var("RAM_BASE"), DefaultRamBase),
              length |-> Or(Var("RAM_SIZE"), DefaultRamSize)]]

\* Mutant of Named: RAM_SIZE is forgotten.
NamedButRamSize ==
    [vars |-> [env.vars EXCEPT !["RAM_SIZE"] = None],
     info_path |-> IF script = "feather" THEN env.info_path ELSE None]

\* What the script tells cargo to watch: neither USER nor the files themselves.
Named ==
    [vars |-> env.vars, info_path |-> IF script = "feather" THEN env.info_path ELSE None]

-----------------------------------------------------------------------------
(* Cargo, its user and the bootloader's disk.                              *)

Fresh(profile) == stamp[profile] = Named

\* The script fails: nothing is written, and it will run again.
BuildFails(profile) ==
    /\ ~ Fresh(profile)
    /\ Refuses
    /\ stamp' = [stamp EXCEPT ![profile] = None]
    /\ UNCHANGED <<script, env, disk, out, root, image, built, read>>

\* The script runs, and the linker finds the memory.x in OUT_DIR.
BuildRuns(profile) ==
    /\ ~ Fresh(profile)
    /\ ~ Refuses
    /\ out' = [out EXCEPT ![profile] = MemoryX(Found)]
    /\ root' = MemoryX(Found)
    /\ stamp' = [stamp EXCEPT ![profile] = Named]
    /\ image' = [image EXCEPT ![profile] = MemoryX(Found)]
    /\ built' = [built EXCEPT ![profile] = env]
    /\ read' = [read EXCEPT ![profile] = disk]
    /\ UNCHANGED <<script, env, disk>>

\* The script is not run, and what is linked again is what it wrote last time.
BuildSkips(profile) ==
    /\ Fresh(profile)
    /\ image' = [image EXCEPT ![profile] = out[profile]]
    /\ built' = [built EXCEPT ![profile] = env]
    /\ UNCHANGED <<script, env, disk, stamp, out, root, read>>

Export ==
    /\ env' \in Environments
    /\ UNCHANGED <<script, disk, stamp, out, root, image, built, read>>

\* A board is mounted, or another one, or none.
Mount ==
    /\ \E path \in Paths, file \in Files \union {None} : disk' = [disk EXCEPT ![path] = file]
    /\ UNCHANGED <<script, env, stamp, out, root, image, built, read>>

-----------------------------------------------------------------------------

BuildInit ==
    /\ script \in Scripts
    /\ env \in Environments
    /\ disk = [path \in Paths |-> None]
    /\ stamp = [profile \in Profiles |-> None]
    /\ out = stamp /\ root = None /\ image = stamp
    /\ built = stamp /\ read = stamp

BuildNext ==
    \/ \E profile \in Profiles :
          BuildFails(profile) \/ BuildRuns(profile) \/ BuildSkips(profile)
    \/ Export
    \/ Mount

BuildSpec == BuildInit /\ [][BuildNext]_buildVars

-----------------------------------------------------------------------------
(* Properties.                                                             *)

\* A program has room.
Linkable == {layout \in Layout : layout.flash.length > 0}

BuildTypeOK ==
    /\ script \in Scripts /\ env \in Environments
    /\ disk \in [Paths -> Files \union {None}]
    /\ root # None => root \in Linkable
    /\ \A profile \in Profiles :
          /\ out[profile] # None => out[profile] \in Linkable
          /\ image[profile] # None => image[profile] \in Linkable
          /\ stamp[profile] # None => out[profile] # None
          /\ image[profile] = None <=> built[profile] = None

\* The file states the number in one of its lines.
States(file, key, number) == \E i \in DOMAIN file : file[i] = [key |-> key, val |-> number]

\* A layout is what the variables or one of the files say.
AsTold(layout, told, files) ==
    LET flash == layout.flash
        end   == flash.origin + flash.length
        ram   == layout.ram
    IN  /\ \/ flash.origin = told["APP_BASE"] /\ end = told["FLASH_SIZE"]
           \/ /\ {told["APP_BASE"], told["FLASH_SIZE"]} \subseteq {None, Junk}
              /\ \E path \in Paths :
                    /\ files[path] # None
                    /\ States(files[path], "App start", flash.origin)
                    /\ States(files[path], "Flash size", end)
        /\ ram.origin = IF told["RAM_BASE"] \in {None, Junk}
                        THEN DefaultRamBase ELSE told["RAM_BASE"]
        /\ ram.length = IF told["RAM_SIZE"] \in {None, Junk}
                        THEN DefaultRamSize ELSE told["RAM_SIZE"]

\* Whatever is exported, mounted and built in between, in whichever profile: an
\* image lies where the environment of its build puts it, with both ends of its
\* flash from the environment, or both from one file that was there when the
\* script ran, and its RAM is the one the environment gives or else the default
\* (docs of the crates: "base must match APP_BASE", "override with
\* RAM_BASE/RAM_SIZE").
LinkedAsTold ==
    \A profile \in Profiles :
        image[profile] # None => AsTold(image[profile], built[profile].vars, read[profile])
=============================================================================
