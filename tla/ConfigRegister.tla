--------------------------- MODULE ConfigRegister ---------------------------
(* What singbox.WriteConfig promises its callers about sing-box.json
   (internal/core/singbox/config.go): a call that has the file to itself either
   replaces the whole content by its own rendering, if sing-box accepts it, or
   leaves the content alone.  Nothing is promised for calls that overlap: the
   content is unknown from the second entry until a later call, with the file
   to itself, succeeds.

   ConfigFile.tla implements this register with a shared temporary file;
   Panel.tla runs the request handlers on top of it. *)

CONSTANTS
  Writers,      \* goroutines that may call WriteConfig
  Configs,      \* the configurations that may be rendered
  Acceptable(_),  \* may this one be installed?
  None,         \* nothing installed, no call under way
  Unknown       \* content nobody vouches for

VARIABLES
  content,  \* what sing-box.json holds
  arg,      \* [Writers -> Configs \cup {None}]: the rendering of a call under way
  inside,   \* the calls under way
  sole      \* those among them that have met no other

register == <<content, arg, inside, sole>>

RegisterTypeOK ==
  /\ content \in Configs \cup {None, Unknown}
  /\ arg \in [Writers -> Configs \cup {None}]
  /\ inside \subseteq Writers
  /\ sole \subseteq inside

RegisterInit ==
  /\ content = None
  /\ arg = [w \in Writers |-> None]
  /\ inside = {}
  /\ sole = {}

Enter(w, c) ==
  /\ w \notin inside
  /\ arg' = [arg EXCEPT ![w] = c]
  /\ inside' = inside \cup {w}
  /\ IF inside = {}
       THEN sole' = {w} /\ UNCHANGED content
       ELSE sole' = {} /\ content' = Unknown

Leave(w) ==
  /\ w \in inside
  /\ arg' = [arg EXCEPT ![w] = None]
  /\ inside' = inside \ {w}
  /\ sole' = sole \ {w}

(* WriteConfig returns no error. *)
Commit(w) ==
  /\ Leave(w)
  /\ IF w \in sole
       THEN Acceptable(arg[w]) /\ content' = arg[w]
       ELSE UNCHANGED content

(* WriteConfig returns an error. *)
Abort(w) == Leave(w) /\ UNCHANGED content

(* The process dies: its calls end where they are. *)
Die ==
  /\ arg' = [w \in Writers |-> None]
  /\ inside' = {}
  /\ sole' = {}
  /\ UNCHANGED content

RegisterNext ==
  \/ \E w \in Writers : \/ \E c \in Configs : Enter(w, c)
                        \/ Commit(w)
                        \/ Abort(w)
  \/ Die

RegisterSpec == RegisterInit /\ [][RegisterNext]_register
=============================================================================
