------------------------------ MODULE Libraries ------------------------------
(***************************************************************************)
(* The parts of the program that compute without keeping state, together   *)
(* with the two that have little of it, each with the law that the rest of *)
(* the program relies on. A behaviour looks at one part: it draws subjects *)
(* for it, and every law is an invariant of what can be drawn.             *)
(***************************************************************************)
EXTENDS TimespecLaws, FileDescriptor, PropertyInfo, InFormats, Edid, Painting, ModeTiming

CONSTANTS
  NoSubject,       \* nothing was drawn yet
  Default,         \* the default that a property's reader asks for
  PropSubjects,    \* [src, props, KMS]: a table, an object's properties, KMS's descriptions
  FormatSubjects,  \* [idx, mods]: the place of XRGB8888, the modifiers of the blob
  EdidSubjects,    \* blobs of a monitor's EDID
  QuadSubjects,    \* [frame, N]
  RequestSubjects, \* [driver, screen, nomem]: the driver's properties, the screen, failed allocations
  ModeSubjects     \* [clock, htotal, vtotal]

ASSUME SubjectsOK ==
  /\ \A s \in PropSubjects : Described(s)
  /\ \A s \in FormatSubjects : s.idx \in Int /\ \A mod \in s.mods : mod.offset \in Int
  /\ QuadSubjects \subseteq [frame : Int, N : Nat]
  /\ EdidSubjects \subseteq Blobs
  /\ ModeSubjects \subseteq ModesOf(Nat)
  /\ \A s \in RequestSubjects, o \in DOMAIN Tables :
       Described([src |-> Tables[o], props |-> s.driver[o].props, KMS |-> s.driver[o].KMS])

VARIABLES lib, subject

libVars == <<a, b, n, fd, table, lost, lib, subject>>

Subjects ==
  [props |-> PropSubjects, formats |-> FormatSubjects, edid |-> EdidSubjects,
   quads |-> QuadSubjects, request |-> RequestSubjects, mode |-> ModeSubjects]

LibInit ==
  /\ Init /\ FdInit
  /\ lib \in DOMAIN Subjects \union {"time", "fd"}
  /\ subject = NoSubject

DrawTimes == lib = "time" /\ Draw /\ UNCHANGED <<fdVars, lib, subject>>

UseDescriptors == lib = "fd" /\ FdNext /\ UNCHANGED <<a, b, n, lib, subject>>

DrawSubject ==
  /\ lib \in DOMAIN Subjects /\ subject = NoSubject
  /\ subject' \in Subjects[lib]
  /\ UNCHANGED <<a, b, n, fdVars, lib>>

LibNext == DrawTimes \/ UseDescriptors \/ DrawSubject

LibSpec == LibInit /\ [][LibNext]_libVars

Drawn(l) == lib = l /\ subject # NoSubject
-----------------------------------------------------------------------------
\* The value of a property is found under its name, whatever order the driver
\* lists properties and enum values in and whichever it lacks; a value the
\* program has no name for is the default, never another value
\* (drm.hpp:119-132, 153: "the return value will be translated").
ValueFound ==
  Drawn("props") /\ Consistent(subject.src, subject.props, subject.KMS) =>
    LET info == drm_property_info_populate(subject.src, subject.props, subject.KMS) IN
      \A j \in DOMAIN subject.src :
        drm_property_get_value(info[j], subject.props, Default)
          = ValueByName(subject.src[j], subject.props, subject.KMS, Default)

\* As long as the place of XRGB8888 in an entry's window is below the width of
\* an int, the modifiers taken are those that KMS lists for it
\* (Display.cpp:463-473).
FormatsExact ==
  Drawn("formats") /\ ShiftFits(subject.idx, subject.mods) =>
    plane_formats_populate(subject.idx, subject.mods) = {Listed(subject.idx, subject.mods)}

\* Junk in a monitor's EDID does not reach what is printed of it: texts are
\* clean, come from a block that is a descriptor of their kind, and are left
\* unset only if there is none (Edid.cpp:37-59, 109-142: "we can't guarantee
\* it's null terminated or not junk").
EdidExact ==
  Drawn("edid") =>
    /\ \A i \in DOMAIN subject.blocks : CleanText(subject.blocks[i].text)
    /\ PnpExact(subject.pnp[1], subject.pnp[2])
    /\ \A e \in ParsedEdid(subject) :
         /\ e.monitor_name \in TextsOf(subject.blocks, "name", Unset)
         /\ e.eisa_id \in TextsOf(subject.blocks, "text", Unset)
         /\ e.serial_number \in TextsOf(subject.blocks, "serial",
                                       IF subject.serial = 0 THEN Unset ELSE Number)

\* The four quads of every frame of the animation tile the screen
\* (main.cpp:233-291).
QuadsTile == Drawn("quads") => Tiles(subject.frame, subject.N)

\* A request that passes the assertions shows the frame: it sets, under the ids
\* that the driver has for the names, just what the frame takes
\* (main.cpp:551-623, drm.hpp:49-62, PropertyInfo.hpp).
RequestShowsFrame ==
  Drawn("request") => ShowsFrame(subject.driver, subject.screen, subject.nomem)

\* The frame clock's interval is the mode's to within the rounding
\* (Display.cpp:84-91, time.hpp:252-257).
RefreshNearest == Drawn("mode") => Nearest(subject)
=============================================================================
