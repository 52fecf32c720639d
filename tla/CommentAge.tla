---------------------------- MODULE CommentAge ----------------------------
(***************************************************************************)
(* The age that a row of CommentVC gives for its comment.                  *)
(*                                                                         *)
(* inputPressed stamps a comment with the wall clock of the phone, without *)
(* its time zone; getTimeDifferentWith reads the stamp as Taipei time and  *)
(* turns the difference to now into a number of minutes, hours, days or    *)
(* weeks.  The clock starts when the comment is sent.                      *)
(***************************************************************************)
EXTENDS Integers

CONSTANTS
  Zone,      \* offsets from UTC, in seconds, of the zones phones are in
  Step,      \* seconds between two looks at a row
  MaxAge     \* bound: seconds a row is looked at

ASSUME AgeConstants == Zone \subseteq Int /\ Step \in Nat \ {0} /\ MaxAge \in Nat

Taipei == 8 * 3600

(* The seconds after which a row is looked at.                             *)
Age == {s \in 0..MaxAge : s % Step = 0}

-----------------------------------------------------------------------------
(* Division of Swift integers drops the fraction.                          *)
Quotient(a, b) == IF a >= 0 THEN a \div b ELSE -((-a) \div b)

(* The stamp of a comment sent at the given second, and its reading.       *)
Stamp(sent, z) == sent + z

Parsed(stamp) == stamp - Taipei

(* The age a row takes a comment to have.                                  *)
ReadAge(z, now) == now - Parsed(Stamp(0, z))

Minutes(z, now) == Quotient(ReadAge(z, now), 60)

(* The units, in minutes.                                                  *)
Hour == 60
Day == 60 * 24
Week == 60 * 24 * 7

Unit(time) ==
  IF time <= Hour THEN 1
  ELSE IF time <= Day THEN Hour
  ELSE IF time <= Week THEN Day
  ELSE Week

(* Mutant: the hours are counted in days.                                  *)
NumberOfDays(time) ==
  IF time <= Hour THEN time ELSE IF time <= Day THEN time \div Day
  ELSE Quotient(time, Unit(time))

(* Mutant: days are rounded up.                                            *)
NumberRoundedUp(time) ==
  IF time > Day /\ time <= Week THEN (time + Day - 1) \div Day
  ELSE Quotient(time, Unit(time))

(* The text of the row is Number, with the name of Unit.                   *)
Number(time) == Quotient(time, Unit(time))

Shown(time) == Number(time) * Unit(time)

-----------------------------------------------------------------------------
(* The age that Taipei reads off the stamp: the true one of a comment that *)
(* was stamped in Taipei's time, and off by the difference of the zones    *)
(* otherwise, so that a comment from further east seems yet to come.       *)
TaipeiAge(zone, age) == age + (Taipei - zone)

(* "Number units ago" rounds that age down to the unit, and is never 0     *)
(* hours, days or weeks, on either side of the switch between two units    *)
(* ("the difference in minutes from the given time to now", CommentVC); an *)
(* age below 0 is given in minutes, none of them above 0.                  *)
RoundsDown(time, seconds) ==
  IF seconds >= 0
    THEN /\ Shown(time) * 60 <= seconds
         /\ seconds < (Shown(time) + Unit(time)) * 60
         /\ Unit(time) > 1 => Number(time) >= 1
    ELSE /\ Unit(time) = 1 /\ Number(time) <= 0
         /\ Number(time) * 60 < seconds + 60 /\ seconds <= Number(time) * 60

AgeRounds ==
  \A zone \in Zone, age \in Age :
    RoundsDown(Minutes(zone, age), TaipeiAge(zone, age))

(* A comment never gets younger on screen, also when the unit changes.     *)
AgeGrows ==
  \A zone \in Zone, age \in Age :
    Shown(Minutes(zone, age)) <= Shown(Minutes(zone, age + Step))

=============================================================================
