-------------------------------- MODULE Keys --------------------------------
(***************************************************************************)
(* What a key means: the modifier flags of keyboard.c, get_keymap and the  *)
(* four tables of key_maps.c.  The characters of the tables fall into four *)
(* kinds, of which one key each stands for all: letters, symbols with a    *)
(* second one above, characters that are always the same, and the minus of *)
(* the keypad; F stands for the keys F1 to F3.  What becomes of the        *)
(* characters is the subject of LineInput.  The state is                   *)
(*   held                 the modifier keys that are down                  *)
(*   ctrl ... caps_lock   the flags of keyboard.c                          *)
(*   key, with            the last key pressed, and those then held        *)
(*   did                  what it did: a character, or a command           *)
(***************************************************************************)
EXTENDS UserProgram

Modifiers == {"ctrl", "alt", "l_shift", "r_shift"}
None == "none"

KeysInit ==
    /\ pc = "keys"
    /\ m = [prog |-> "keys", held |-> {}, ctrl |-> FALSE, alt |-> FALSE, l_shift |-> FALSE,
            r_shift |-> FALSE, caps_lock |-> FALSE, key |-> None, with |-> {}, did |-> None]

\* the four rows of tables: no shift, shift, caps lock, both
reg_key_map == [letter |-> "lower", symbol |-> "low", same |-> "only", minus |-> "low"]
shift_key_map == [letter |-> "upper", symbol |-> "high", same |-> "only", minus |-> "high"]
caps_key_map == [letter |-> "upper", symbol |-> "low", same |-> "only", minus |-> "high"]
caps_shift_key_map == [letter |-> "lower", symbol |-> "high", same |-> "only", minus |-> "high"]

KindOf(k) == CASE k = "l" -> "letter" [] k = "four" -> "symbol" [] OTHER -> k

get_keymap(k) ==
    LET shift == m.l_shift \/ m.r_shift
        map == CASE shift /\ m.caps_lock -> caps_shift_key_map
                 [] shift /\ ~m.caps_lock -> shift_key_map
                 [] ~shift /\ m.caps_lock -> caps_key_map
                 [] ~shift /\ ~m.caps_lock -> reg_key_map
    IN  map[KindOf(k)]

Keyboard == pc = "keys" /\ UNCHANGED pc

\* a modifier; a key that is held sends its code again and again
ModifierDown(k) ==
    /\ Keyboard
    /\ m' = [m EXCEPT ![k] = TRUE, !.held = @ \cup {k}, !.key = None, !.with = {}, !.did = None]

CapsDown ==
    /\ Keyboard
    /\ m' = [m EXCEPT !.caps_lock = ~@, !.key = None, !.with = {}, !.did = None]

Pressed(k, did) == Keyboard /\ m' = [m EXCEPT !.key = k, !.with = m.held, !.did = did]

\* Ctrl+L and Ctrl+4, without Ctrl ordinary characters
ControlDown(k) == Pressed(k, IF m.ctrl THEN "command" ELSE get_keymap(k))
FunctionDown == Pressed("F", IF m.alt THEN "command" ELSE None)
CharacterDown(k) == Pressed(k, get_keymap(k))

\* Faulty: either shift key that is released clears both flags.
Released_Both(k) ==
    IF k \in {"l_shift", "r_shift"} THEN [m EXCEPT !.l_shift = FALSE, !.r_shift = FALSE]
    ELSE IF k = "ctrl" THEN [m EXCEPT !.ctrl = FALSE] ELSE m

\* the codes of released keys; Alt is not among them
Released(k) == IF k \in {"ctrl", "l_shift", "r_shift"} THEN [m EXCEPT ![k] = FALSE] ELSE m

ModifierUp(k) ==
    /\ Keyboard
    /\ k \in m.held
    /\ m' = [Released(k) EXCEPT !.held = @ \ {k}, !.key = None, !.with = {}, !.did = None]

KeysNext ==
    \/ \E k \in Modifiers : ModifierDown(k) \/ ModifierUp(k)
    \/ \E k \in {"l", "four"} : ControlDown(k)
    \/ \E k \in {"letter", "symbol", "same", "minus"} : CharacterDown(k)
    \/ CapsDown
    \/ FunctionDown

-----------------------------------------------------------------------------
(* Properties *)

ShiftHeld == {"l_shift", "r_shift"} \cap m.with # {}

\* A key does what the keys held with it make of it, whatever was pressed and
\* released before, both shift keys in any order included: a letter is upper
\* case under exactly one of shift and caps lock, a symbol is the upper one
\* under shift and not under caps lock, Ctrl makes a command of L and 4 and
\* Alt of F1 to F3 (process_input and get_keymap).  The keypad's minus under
\* caps lock alone is the exception: its table has '_'.
KeyMeaning ==
    m.prog = "keys" /\ m.key # None
      => CASE m.key \in {"l", "four"} /\ "ctrl" \in m.with -> m.did = "command"
           [] m.key = "F" -> "alt" \in m.with => m.did = "command"
           [] KindOf(m.key) = "letter" /\ "ctrl" \notin m.with
                -> m.did = IF ShiftHeld # m.caps_lock THEN "upper" ELSE "lower"
           [] KindOf(m.key) = "symbol" /\ "ctrl" \notin m.with
                -> m.did = IF ShiftHeld THEN "high" ELSE "low"
           [] m.key = "minus" /\ ~m.caps_lock
                -> m.did = IF ShiftHeld THEN "high" ELSE "low"
           [] OTHER -> m.did \in {"only", "upper", "lower", "high", "low"}

\* "Flags for whether certain special keys are pressed" (keyboard.c 39): a
\* terminal is switched only while Alt is down.
AltHeld == m.prog = "keys" /\ m.key = "F" /\ m.did = "command" => "alt" \in m.with
=============================================================================
