----------------------------- MODULE MCLibraries -----------------------------
(***************************************************************************)
(* Seconds of six nanoseconds, ints of four bits over masks of eight,      *)
(* texts of five characters: short enough to draw every operand, mask and   *)
(* text, and long enough to carry, to overflow and to be dropped.          *)
(***************************************************************************)
EXTENDS Libraries

DrawnSecs  == -2 .. 2
DrawnNsecs == -13 .. 13

\* An enum and a plain property, and drivers that have them in any order or
\* not at all, with one or two of three enum values.
Table == <<[name |-> "type", enums |-> <<"Primary", "Cursor">>], [name |-> "FB_ID", enums |-> <<>>]>>
Value == [name : {"Primary", "Cursor", "Other"}, value : 0 .. 2]
Enums == {<<v>> : v \in Value}
           \union {vw \in Value \X Value : vw[1].name # vw[2].name /\ vw[1].value # vw[2].value}
Known == {{[name |-> "type", enums |-> e]} : e \in Enums}
           \union {{}, {[name |-> "FB_ID", enums |-> <<>>]}, {[name |-> "zpos", enums |-> <<>>]},
                   {[name |-> "type", enums |-> <<>>]}}
DrawnProps ==
  {[src |-> Table, props |-> <<[id |-> 1, value |-> v], [id |-> 2, value |-> w]>>, KMS |-> <<p, q>>] :
     v, w \in 0 .. 2,
     <<p, q>> \in {pq \in Known \X Known :
                     \A x \in pq[1], y \in pq[2] : x.name # y.name}}

DrawnFormats ==
  {[idx |-> i, mods |-> {[offset |-> o, formats |-> f]}] :
     i \in 0 .. 10, o \in 0 .. 2, f \in SUBSET (0 .. 7)}

Block(timing, tag, text) == [timing |-> timing, tag |-> tag, text |-> text]
Plain(k) == [i \in 1 .. 5 |-> IF i = k THEN "eol" ELSE "ok"]
Blank == Block(TRUE, "none", Plain(1))
DrawnEdid ==
  {[blocks |-> <<Block(FALSE, "name", text), Blank, Blank, Blank>>, serial |-> 0, pnp |-> <<0, 1>>] :
     text \in Texts}
  \union
  {[blocks |-> [i \in 1 .. 4 |-> Block(tags[i] = "none", tags[i], Plain(i))],
    serial |-> s, pnp |-> <<4, 1>>] :
     s \in 0 .. 1, tags \in [1 .. 4 -> {"none", "other", "name", "serial", "text"}]}
  \union
  {[blocks |-> <<Blank, Blank, Blank, Blank>>, serial |-> 0, pnp |-> <<b0, b1>>] :
     b0 \in 0 .. 255, b1 \in {0, 1, 31, 32, 63, 224, 255}}

DrawnQuads == {[frame |-> f, N |-> m] : f \in 0 .. 6, m \in 1 .. 7}

\* Objects that have their properties in the order of the program's table or the
\* other way round, perhaps one that the program does not know and not one that
\* it does, under ids of their own.
ObjectOf(names, firstId) ==
  [props |-> [i \in DOMAIN names |-> [id |-> firstId + i, value |-> 0]],
   KMS   |-> [id \in {firstId + i : i \in DOMAIN names} |->
                {[name  |-> names[id - firstId],
                  enums |-> IF names[id - firstId] \in {"type", "DPMS"}
                            THEN <<[name |-> "Other", value |-> 0]>> ELSE <<>>]}]]
ObjectsOf(props, firstId) ==
  LET all     == [j \in DOMAIN props |-> props[j].name]
      without == {SelectSeq(all, LAMBDA x : x # gone) : gone \in {all[j] : j \in DOMAIN all} \union {""}}
      other(s) == [i \in DOMAIN s |-> s[Len(s) + 1 - i]]
  IN {ObjectOf(s, firstId) : s \in UNION {{w, other(w), <<"zpos">> \o w} : w \in without}}

Usual == [o \in DOMAIN Tables |-> ObjectOf([j \in DOMAIN Tables[o] |-> Tables[o][j].name], 0)]
Drivers == UNION {{[Usual EXCEPT ![o] = x] : x \in ObjectsOf(Tables[o], 20)} : o \in DOMAIN Tables}
Screens ==
  {[crtc_id |-> 31, fb_id |-> 32, mode_blob_id |-> 33, fence_ptr |-> 34,
    width |-> w, height |-> 3, hdisplay |-> 4, vdisplay |-> h] : w \in {4, 5}, h \in {2, 3}}
DrawnRequests ==
  [driver : Drivers, screen : Screens,
   nomem : {{}, {<<"plane", 10>>}, {<<"crtc", 3>>}, {<<"connector", 3>>}}]

DrawnModes == [clock : 0 .. 12, htotal : 1 .. 5, vtotal : 1 .. 7]
=============================================================================
