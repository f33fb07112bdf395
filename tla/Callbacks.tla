----------------------------- MODULE Callbacks -----------------------------
(***************************************************************************)
(* What the callbacks of the dialogs (core/sysctrl.c) read from their      *)
(* dialog: the spin boxes findWidget is asked for, in order.  A callback   *)
(* not named here reads no widget.                                         *)
(***************************************************************************)
EXTENDS Sequences

set_systime == <<"UTC_OFFSET", "YEAR", "MONTH", "DAY", "HOUR", "MINUTE">>
change_lastday == <<"YEAR", "MONTH", "DAY">>

use_user_obloc ==
    <<"MGRS_ZONE_DIGIT4", "MGRS_ZONE_DIGIT3", "MGRS_ZONE_DIGIT2",
      "MGRS_ZONE_DIGIT1", "MGRS_ZONE_DIGIT0",
      "MGRS_EASTING_DIGIT4", "MGRS_EASTING_DIGIT3", "MGRS_EASTING_DIGIT2",
      "MGRS_EASTING_DIGIT1", "MGRS_EASTING_DIGIT0",
      "MGRS_NORTHING_DIGIT4", "MGRS_NORTHING_DIGIT3", "MGRS_NORTHING_DIGIT2",
      "MGRS_NORTHING_DIGIT1", "MGRS_NORTHING_DIGIT0",
      "ALTITUDE_DIGIT3", "ALTITUDE_DIGIT2", "ALTITUDE_DIGIT1",
      "ALTITUDE_DIGIT0", "ALTITUDE_SIGN">>
use_user_range == <<"RANGE_DIGIT3", "RANGE_DIGIT2", "RANGE_DIGIT1", "RANGE_DIGIT0">>
use_user_gridvar ==
    <<"GRIDVAR_DIGIT2", "GRIDVAR_DIGIT1", "GRIDVAR_DIGIT0", "GRIDVAR_SIGN">>

\* The three distances have the same boxes.
distance_guiid ==
    <<"DIST_SIGN_A", "DIST_CORRECT_DIGITA0", "DIST_CORRECT_DIGITA1",
      "DIST_CORRECT_DIGITA2", "DIST_CORRECT_DIGITA3", "DIST_CORRECT_DIGITA4",
      "DIST_CORRECT_DIGITA5", "DIST_CORRECT_DIGITA6",
      "DIST_SIGN_B", "DIST_CORRECT_DIGITB0", "DIST_CORRECT_DIGITB1",
      "DIST_CORRECT_DIGITB2", "DIST_CORRECT_DIGITB3", "DIST_CORRECT_DIGITB4",
      "DIST_CORRECT_DIGITB5", "DIST_CORRECT_DIGITB6">>
save_short_dist_correct  == distance_guiid
save_middle_dist_correct == distance_guiid
(* Mutant: the copy reads one box more than its dialog has. *)
save_long_past_the_boxes == Append(distance_guiid, "DIST_CORRECT_DIGITB7")
save_long_dist_correct   == distance_guiid

save_azimuth_correct ==
    <<"AZIMUTH_SIGN", "AZIMUTH_DIGIT0", "AZIMUTH_DIGIT1", "AZIMUTH_DIGIT2",
      "AZIMUTH_DIGIT3", "AZIMUTH_DIGIT4">>
save_altitude_correct ==
    <<"ALTITUDE_SIGN", "ALTITUDE_DIGIT0", "ALTITUDE_DIGIT1", "ALTITUDE_DIGIT2",
      "ALTITUDE_DIGIT3", "ALTITUDE_DIGIT4">>
save_sensor_correct ==
    <<"SENSOR_DIGITA0", "SENSOR_DIGITA1", "SENSOR_DIGITA2",
      "SENSOR_DIGITB0", "SENSOR_DIGITB1", "SENSOR_DIGITB2">>

Reading ==
    [set_systime |-> set_systime, change_lastday |-> change_lastday,
     use_user_obloc |-> use_user_obloc, use_user_range |-> use_user_range,
     use_user_gridvar |-> use_user_gridvar,
     save_short_dist_correct |-> save_short_dist_correct,
     save_middle_dist_correct |-> save_middle_dist_correct,
     save_long_dist_correct |-> save_long_dist_correct,
     save_azimuth_correct |-> save_azimuth_correct,
     save_altitude_correct |-> save_altitude_correct,
     save_sensor_correct |-> save_sensor_correct]

\* The spin boxes a callback looks up.
Reads(callback) ==
    IF callback \in DOMAIN Reading THEN Reading[callback] ELSE <<>>
=============================================================================
