------------------------------ MODULE Painting -------------------------------
(***************************************************************************)
(* What repaint_one_output puts together for a frame: the four quads of    *)
(* the animation (fill_verts) and the atomic request that shows the buffer *)
(* (output_add_atomic_req), with the driver's own ids for the properties   *)
(* that the program knows by name.                                         *)
(***************************************************************************)
EXTENDS PropertyInfo

\* A coordinate x stands for x / NUM_ANIM_FRAMES, so that -1.0f and 1.0f are
\* -N and N.
factor(frame_num, N) == 2 * frame_num - N

\* Mutant: the second quad begins at the left edge.
QuadOf_left(loc, frame_num, N) ==
  LET f == factor(frame_num, N) IN
    CASE loc = 0 -> [left |-> -N, right |-> f, top |-> -N, bottom |-> f]
      [] loc = 1 -> [left |-> -N, right |-> N, top |-> -N, bottom |-> f]
      [] loc = 2 -> [left |-> -N, right |-> f, top |-> f,  bottom |-> N]
      [] loc = 3 -> [left |-> f,  right |-> N, top |-> f,  bottom |-> N]

QuadOf(loc, frame_num, N) ==
  LET f == factor(frame_num, N) IN
    CASE loc = 0 -> [left |-> -N, right |-> f, top |-> -N, bottom |-> f]
      [] loc = 1 -> [left |-> f,  right |-> N, top |-> -N, bottom |-> f]
      [] loc = 2 -> [left |-> -N, right |-> f, top |-> f,  bottom |-> N]
      [] loc = 3 -> [left |-> f,  right |-> N, top |-> f,  bottom |-> N]

\* The corners, in the order of a triangle fan.
fill_verts(loc, frame_num, N) ==
  LET q == QuadOf(loc, frame_num, N) IN
    <<[x |-> q.left, y |-> q.bottom], [x |-> q.left, y |-> q.top],
      [x |-> q.right, y |-> q.top], [x |-> q.right, y |-> q.bottom]>>

\* The square from (x, y) to (x + 1, y + 1) is inside the quad.
Covers(verts, x, y) ==
  /\ verts[1].x <= x /\ x < verts[3].x
  /\ verts[2].y <= y /\ y < verts[4].y

\* Whatever the frame, each spot of the screen belongs to exactly one quad,
\* and the corners of a quad go round it.
Tiles(frame_num, N) ==
  /\ \A x, y \in -N .. N - 1 :
       \E loc \in 0 .. 3 :
         /\ Covers(fill_verts(loc, frame_num, N), x, y)
         /\ \A other \in 0 .. 3 :
              Covers(fill_verts(other, frame_num, N), x, y) => other = loc
  /\ \A loc \in 0 .. 3 :
       LET v == fill_verts(loc, frame_num, N) IN
         v[1].x = v[2].x /\ v[2].y = v[3].y /\ v[3].x = v[4].x /\ v[4].y = v[1].y
-----------------------------------------------------------------------------
\* The static tables of the names the program knows (PropertyInfo.hpp).
Property(name) == [name |-> name, enums |-> <<>>]

\* Mutant: two entries of the table in the wrong order.
plane_props_swapped ==
  <<[name |-> "type", enums |-> <<"Primary", "Cursor", "Overlay">>],
    Property("SRC_X"), Property("SRC_Y"), Property("SRC_W"), Property("SRC_H"),
    Property("CRTC_X"), Property("CRTC_Y"), Property("CRTC_W"), Property("CRTC_H"),
    Property("CRTC_ID"), Property("FB_ID"), Property("IN_FORMATS"), Property("IN_FENCE_FD")>>

plane_props ==
  <<[name |-> "type", enums |-> <<"Primary", "Cursor", "Overlay">>],
    Property("SRC_X"), Property("SRC_Y"), Property("SRC_W"), Property("SRC_H"),
    Property("CRTC_X"), Property("CRTC_Y"), Property("CRTC_W"), Property("CRTC_H"),
    Property("FB_ID"), Property("CRTC_ID"), Property("IN_FORMATS"), Property("IN_FENCE_FD")>>

crtc_props == <<Property("MODE_ID"), Property("ACTIVE"), Property("OUT_FENCE_PTR")>>

connector_props ==
  <<Property("EDID"), [name |-> "DPMS", enums |-> <<"Off", "On", "Standby", "Suspend">>],
    Property("CRTC_ID"), Property("non-desktop")>>

\* The enums the entries are known by, counted from 1 here.
wdrm_plane_property ==
  [SRC_X |-> 2, SRC_Y |-> 3, SRC_W |-> 4, SRC_H |-> 5, CRTC_X |-> 6, CRTC_Y |-> 7,
   CRTC_W |-> 8, CRTC_H |-> 9, FB_ID |-> 10, CRTC_ID |-> 11, IN_FENCE_FD |-> 13]
wdrm_crtc_property      == [MODE_ID |-> 1, ACTIVE |-> 2, OUT_FENCE_PTR |-> 3]
wdrm_connector_property == [CRTC_ID |-> 3]

\* The tables of the three objects that a request is about. driver[o] has the
\* properties of the object and what KMS says of them.
Tables == [plane |-> plane_props, crtc |-> crtc_props, connector |-> connector_props]

Populated(driver) ==
  [o \in DOMAIN Tables |-> drm_property_info_populate(Tables[o], driver[o].props, driver[o].KMS)]

\* Display::Display asks for fences on both sides.
explicitFencing(info) ==
  /\ info.plane[wdrm_plane_property.IN_FENCE_FD].prop_id # 0
  /\ info.crtc[wdrm_crtc_property.OUT_FENCE_PTR].prop_id # 0

Change(on, prop, val) == [on |-> on, prop |-> prop, val |-> val]

\* The source of a plane is measured in 16.16 fixed point. Modes are less than
\* 2^16 wide and high, so a buffer that is as large fits.
FIXED_ONE == 65536

\* What output_add_atomic_req asks for, for a screen's buffer and mode. The render
\* fence is never handed to KMS (&& false, main.cpp:569).
Changes(info, screen) ==
  LET P == wdrm_plane_property
      C == wdrm_crtc_property
  IN {Change("plane", P.CRTC_ID, screen.crtc_id),
      Change("plane", P.FB_ID, screen.fb_id),
      Change("plane", P.SRC_X, 0),
      Change("plane", P.SRC_Y, 0),
      Change("plane", P.SRC_W, screen.width * FIXED_ONE),
      Change("plane", P.SRC_H, screen.height * FIXED_ONE),
      Change("plane", P.CRTC_X, 0),
      Change("plane", P.CRTC_Y, 0),
      Change("plane", P.CRTC_W, screen.width),
      Change("plane", P.CRTC_H, screen.height),
      Change("crtc", C.MODE_ID, screen.mode_blob_id),
      Change("crtc", C.ACTIVE, 1),
      Change("connector", wdrm_connector_property.CRTC_ID, screen.crtc_id)}
     \union (IF explicitFencing(info)
             THEN {Change("crtc", C.OUT_FENCE_PTR, screen.fence_ptr)} ELSE {})

\* plane_add_prop, crtc_add_prop, connector_add_prop: fails if the driver does not
\* have the property or memory is short.
add_prop_fails(info, change, nomem) ==
  info[change.on][change.prop].prop_id = 0 \/ <<change.on, change.prop>> \in nomem

\* The request that output_add_atomic_req puts together, if its assertions hold.
output_add_atomic_req(driver, screen, nomem) ==
  LET info    == Populated(driver)
      changes == Changes(info, screen)
      fails   == {c \in changes : add_prop_fails(info, c, nomem)}
  IN [passes |-> /\ screen.width = screen.hdisplay /\ screen.height = screen.vdisplay
                 /\ fails = {},
      adds   |-> {[on |-> c.on, id |-> info[c.on][c.prop].prop_id, val |-> c.val] : c \in changes \ fails}]
-----------------------------------------------------------------------------
\* What a request sets, by the driver's names for the ids.
Applied(driver, adds) ==
  UNION {{<<x.on, p.name, x.val>> : p \in driver[x.on].KMS[x.id]} : x \in adds}

Has(object, name) == Matching(name, object.props, object.KMS) # {}

\* What the frame takes: the plane shows the whole buffer on the CRTC, unscaled and
\* from corner to corner of the mode, the CRTC is on and has the mode, the
\* connector has the CRTC, and there is a fence if the driver has both kinds.
Intended(driver, screen) ==
  {<<"plane", "CRTC_ID", screen.crtc_id>>, <<"plane", "FB_ID", screen.fb_id>>,
   <<"plane", "SRC_X", 0>>, <<"plane", "SRC_W", screen.hdisplay * FIXED_ONE>>,
   <<"plane", "SRC_Y", 0>>, <<"plane", "SRC_H", screen.vdisplay * FIXED_ONE>>,
   <<"plane", "CRTC_X", 0>>, <<"plane", "CRTC_W", screen.hdisplay>>,
   <<"plane", "CRTC_Y", 0>>, <<"plane", "CRTC_H", screen.vdisplay>>,
   <<"crtc", "MODE_ID", screen.mode_blob_id>>, <<"crtc", "ACTIVE", 1>>,
   <<"connector", "CRTC_ID", screen.crtc_id>>}
  \union (IF Has(driver.plane, "IN_FENCE_FD") /\ Has(driver.crtc, "OUT_FENCE_PTR")
          THEN {<<"crtc", "OUT_FENCE_PTR", screen.fence_ptr>>} ELSE {})

\* A request that passes sets exactly that, whatever order the driver lists its
\* properties in, whichever it lacks and wherever memory runs out.
ShowsFrame(driver, screen, nomem) ==
  LET request == output_add_atomic_req(driver, screen, nomem)
      constructed == \A o \in DOMAIN Tables : Consistent(Tables[o], driver[o].props, driver[o].KMS)
  IN constructed /\ request.passes => Applied(driver, request.adds) = Intended(driver, screen)
=============================================================================
