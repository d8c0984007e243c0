------------------------------ MODULE MCInput ------------------------------
(* Sessions of the client, each with what the user has at hand.             *)
EXTENDS Input

Base ==
  [control |-> TRUE, otg |-> FALSE, video |-> TRUE, kp |-> "sdk", mp |-> "sdk", mode |-> "mixed",
   forwardRepeat |-> TRUE, autosync |-> TRUE, legacy |-> FALSE, hover |-> TRUE,
   pri |-> "back", sec |-> "click",
   keys |-> {}, buttons |-> {}, touch |-> FALSE, pads |-> {}]

With2(base, more) == [f \in DOMAIN base |-> IF f \in DOMAIN more THEN more[f] ELSE base[f]]
Sessions(S) == {With2(Base, s) : s \in S}

MCSettings == Sessions({
  [keys |-> {"lctrl", "lshift"}, buttons |-> {"left", "right"}],
  [keys |-> {"lctrl", "lalt", "z"}, buttons |-> {"left"}, touch |-> TRUE, hover |-> FALSE],
  [mp |-> "uhid", keys |-> {"lalt"}, buttons |-> {"left", "right"}, pri |-> "click"],
  [keys |-> {"lalt", "lshift", "h", "up"}, buttons |-> {"right"}, pri |-> "home"],
  [keys |-> {"lctrl", "v", "1"}, forwardRepeat |-> FALSE],
  [keys |-> {"lctrl", "v", "1"}, legacy |-> TRUE],
  [keys |-> {"lshift", "a", "1", "kp1", "num"}],
  [keys |-> {"lshift", "lctrl", "a", "1", "kp1", "num"}, mode |-> "text"],
  [keys |-> {"lshift", "a", "1", "kp1", "num"}, mode |-> "raw"],
  [kp |-> "uhid", keys |-> {"a", "h", "v", "lalt"}],
  [kp |-> "uhid", keys |-> {"a", "lshift", "caps"}],
  [kp |-> "uhid", keys |-> {"a", "lctrl", "lalt"}],
  [kp |-> "uhid", keys |-> {"a", "h", "caps"}],
  [kp |-> "uhid", keys |-> {"a", "lalt", "caps"}],
  [kp |-> "uhid", keys |-> {"a", "lshift", "lalt", "z"}],
  [kp |-> "aoa", keys |-> {"a", "v", "lctrl", "caps"}],
  [keys |-> {"lalt", "z"}, pads |-> {"p1", "p2", "p3"}],
  [otg |-> TRUE, kp |-> "aoa", mp |-> "aoa", keys |-> {"lalt", "a", "caps"},
   buttons |-> {"left", "right"}],
  [otg |-> TRUE, kp |-> "aoa", mp |-> "none", keys |-> {"lalt"}, buttons |-> {"left"},
   pads |-> {"p1"}],
  [control |-> FALSE, kp |-> "none", mp |-> "none", keys |-> {"a", "lalt", "z"},
   buttons |-> {"left"}]})

MCPinch == Sessions({[keys |-> {"lctrl", "lalt", "z"}, buttons |-> {"left"}]})

=============================================================================
