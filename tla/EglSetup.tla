------------------------------ MODULE EglSetup -------------------------------
(***************************************************************************)
(* The constructor of EGLDevice: it connects to EGL, makes a context that  *)
(* needs no surface, looks for the GL extensions that drawing into KMS     *)
(* buffers needs and builds the one GL program.                            *)
(*                                                                         *)
(* EGL's answers are external. An extension string that is read in two     *)
(* places is asked for different extensions, so each answer is free.       *)
(***************************************************************************)
VARIABLES
  step,              \* the EGL or GL call that comes next
  gl_core,           \* an OpenGL core profile was asked for, not OpenGL ES
  explicit_fencing,  \* EGL can exchange fences with the kernel
  ctx,               \* "none", "live" or "destroyed"
  gl_exts            \* those of GlExts that the context's GL has

eglVars == <<step, gl_core, explicit_fencing, ctx, gl_exts>>

\* The extensions the constructor tests.
FenceExts   == {"EGL_KHR_fence_sync", "EGL_KHR_wait_sync", "EGL_ANDROID_native_fence_sync"}
DisplayExts == FenceExts \union {"EGL_KHR_surfaceless_context"}
GlExts      == {"GL_OES_EGL_image", "GL_OES_EGL_sync"}

EglInit ==
  /\ step = "display"
  /\ gl_core = FALSE /\ explicit_fencing = FALSE
  /\ ctx = "none" /\ gl_exts = {}

\* eglGetPlatformDisplayEXT or eglGetDisplay, then eglInitialize.
initializeDisplay ==
  /\ step = "display"
  /\ step' = "extensions"
  /\ UNCHANGED <<gl_core, explicit_fencing, ctx, gl_exts>>

\* The display's extensions; without surfaceless contexts EglThrows.
QueryExtensions ==
  /\ step = "extensions"
  /\ \E exts \in SUBSET DisplayExts :
       /\ "EGL_KHR_surfaceless_context" \in exts
       /\ explicit_fencing' = (FenceExts \subseteq exts)
  /\ gl_core' \in BOOLEAN
  /\ step' = "config"
  /\ UNCHANGED <<ctx, gl_exts>>

\* initializeConfig, whose failure to find one is only reported, and
\* eglBindAPI. A high-priority context is tried first where EGL knows it.
ChooseConfig ==
  /\ step = "config"
  /\ step' \in {"priority", "plain"}
  /\ UNCHANGED <<gl_core, explicit_fencing, ctx, gl_exts>>

\* initializeContext: eglCreateContext succeeds, and the context is made current.
CreateContext ==
  /\ step \in {"priority", "plain", "es2"}
  /\ ctx' = "live"
  /\ gl_exts' \in SUBSET GlExts
  /\ step' = "context"
  /\ UNCHANGED <<gl_core, explicit_fencing>>

\* eglCreateContext fails: without the priority, then as OpenGL ES 2.
FallBack ==
  /\ \/ step = "priority" /\ step' = "plain"
     \/ step = "plain" /\ ~gl_core /\ step' = "es2"
  /\ UNCHANGED <<gl_core, explicit_fencing, ctx, gl_exts>>

\* No display, no surfaceless contexts, or no context of any kind.
EglThrows ==
  /\ \/ step \in {"display", "extensions", "es2"}
     \/ step = "plain" /\ gl_core
  /\ step' = "thrown"
  /\ UNCHANGED <<gl_core, explicit_fencing, ctx, gl_exts>>

\* An entry point that is not there, an answer EGL must not give, a context
\* that cannot be made current, or shaders that do not compile or link.
EglAsserts ==
  /\ step \in {"display", "extensions", "config", "priority", "plain", "es2", "program"}
  /\ step' = "aborted"
  /\ UNCHANGED <<gl_core, explicit_fencing, ctx, gl_exts>>

\* What drawing into an imported buffer, and fences if they are used, need.
Missing ==
  \/ "GL_OES_EGL_image" \notin gl_exts
  \/ explicit_fencing /\ "GL_OES_EGL_sync" \notin gl_exts

\* Mutant: the missing extension is reported and nothing else.
CheckExtensions_report ==
  /\ step = "context"
  /\ step' = "program"
  /\ UNCHANGED <<gl_core, explicit_fencing, ctx, gl_exts>>

\* A missing extension is reported and the context destroyed, and the
\* constructor goes on. As the context is current, GL can still be called.
CheckExtensions ==
  /\ step = "context"
  /\ ctx' = IF Missing THEN "destroyed" ELSE ctx
  /\ step' = "program"
  /\ UNCHANGED <<gl_core, explicit_fencing, gl_exts>>

\* initializeShader for both shaders, the program and the vertex buffer.
BuildProgram ==
  /\ step = "program"
  /\ step' = "built"
  /\ UNCHANGED <<gl_core, explicit_fencing, ctx, gl_exts>>

EglNext ==
  \/ initializeDisplay \/ QueryExtensions \/ ChooseConfig
  \/ CreateContext \/ FallBack \/ CheckExtensions \/ BuildProgram
  \/ EglThrows \/ EglAsserts
=============================================================================
