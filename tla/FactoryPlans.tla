---------------------------- MODULE FactoryPlans ---------------------------
(***************************************************************************)
(* The dialogs of the factory menu: the corrections entered digit by digit *)
(* in spin boxes, their check pages, and the questions of the array, scale *)
(* and update items (gui_dialog_creator.c).  A correction dialog is built  *)
(* in two halves: the captions and buttons, then one box per digit of the  *)
(* value printed and the caption that names it.                            *)
(***************************************************************************)
EXTENDS Widgets

SaveOrCancel(save) == <<Button("SAVE", save), Button("CANCEL", NULL)>>

digits_A == <<"DIST_SIGN_A", "DIST_CORRECT_DIGITA0", "DIST_CORRECT_DIGITA1",
              "DIST_CORRECT_DIGITA2", "DIST_CORRECT_DIGITA3",
              "DIST_CORRECT_DIGITA4", "DIST_CORRECT_DIGITA5",
              "DIST_CORRECT_DIGITA6">>
digits_B == <<"DIST_SIGN_B", "DIST_CORRECT_DIGITB0", "DIST_CORRECT_DIGITB1",
              "DIST_CORRECT_DIGITB2", "DIST_CORRECT_DIGITB3",
              "DIST_CORRECT_DIGITB4", "DIST_CORRECT_DIGITB5",
              "DIST_CORRECT_DIGITB6">>
azimuth_digits  == <<"AZIMUTH_SIGN", "AZIMUTH_DIGIT0", "AZIMUTH_DIGIT1",
                     "AZIMUTH_DIGIT2", "AZIMUTH_DIGIT3", "AZIMUTH_DIGIT4">>
altitude_digits == <<"ALTITUDE_SIGN", "ALTITUDE_DIGIT0", "ALTITUDE_DIGIT1",
                     "ALTITUDE_DIGIT2", "ALTITUDE_DIGIT3", "ALTITUDE_DIGIT4">>
sensor_digits   == <<"SENSOR_DIGITA0", "SENSOR_DIGITA1", "SENSOR_DIGITA2",
                     "SENSOR_DIGITB0", "SENSOR_DIGITB1", "SENSOR_DIGITB2">>

DistanceLabels ==
    Captions(<<"A", "B", "DECIMAL_POINT_A", "DECIMAL_POINT_B">>)
AngleLabels == Captions(<<"ANGLE_UNIT", "DECIMAL_POINT">>)
OnCancel == <<"BUTTON", "CANCEL">>

\* The three distance corrections: labels and buttons, then the digits.
short_labels  == DistanceLabels \o SaveOrCancel("save_short_dist_correct")
middle_labels == DistanceLabels \o SaveOrCancel("save_middle_dist_correct")
long_labels   == DistanceLabels \o SaveOrCancel("save_long_dist_correct")
short_boxes   == Spinboxes(digits_A \o digits_B) \o Captions(<<"SHORTDIST">>)
middle_boxes  == Spinboxes(digits_A \o digits_B) \o Captions(<<"MIDDIST">>)
long_boxes    == Spinboxes(digits_A \o digits_B) \o Captions(<<"LONGDIST">>)

short_distance_correct  == Plan("SHORTDIST", short_labels \o short_boxes, OnCancel)
middle_distance_correct == Plan("MIDDIST", middle_labels \o middle_boxes, OnCancel)
long_distance_correct   == Plan("LONGDIST", long_labels \o long_boxes, OnCancel)

\* The two angle corrections and the sensor correction.
azimuth_labels  == AngleLabels \o SaveOrCancel("save_azimuth_correct")
altitude_labels == AngleLabels \o SaveOrCancel("save_altitude_correct")
sensor_labels   == Captions(<<"A", "B">>) \o SaveOrCancel("save_sensor_correct")
azimuth_boxes   == Spinboxes(azimuth_digits) \o Captions(<<"AZM">>)
altitude_boxes  == Spinboxes(altitude_digits) \o Captions(<<"ALTT">>)
sensor_boxes    == Spinboxes(sensor_digits) \o Captions(<<"SENSOR">>)

azimuth_correct  == Plan("AZM", azimuth_labels \o azimuth_boxes, OnCancel)
altitude_correct == Plan("ALTT", altitude_labels \o altitude_boxes, OnCancel)
sensor_correct   == Plan("SENSOR", sensor_labels \o sensor_boxes, OnCancel)

\* The pages that show what is stored.
CheckPlan(id, captions) ==
    Plan(id, <<Button("CONFIRM", NULL)>> \o Captions(captions),
         <<"BUTTON", "CONFIRM">>)

short_and_middle_values ==
    <<"SHORTDIST", "SHORTDIST_VAL_A", "SHORTDIST_VAL_B",
      "MIDDIST", "MIDDIST_VAL_A", "MIDDIST_VAL_B">>
long_values == <<"LONGDIST", "LONGDIST_VAL_A", "LONGDIST_VAL_B", "DISTCHECK">>

distance_correct_check ==
    CheckPlan("DISTCHECK", short_and_middle_values \o long_values)
angle_correct_check ==
    CheckPlan("ANGLECHECK",
              <<"AZM", "AZIMUTH_VAL", "ALTT", "ALTITUDE_VAL", "ANGLECHECK">>)
sensor_correct_check == CheckPlan("SENSORCHECK", <<"A", "B", "SENSORCHECK">>)
ir_array_check ==
    CheckPlan("IRCHECK",
              <<"VERTICAL", "VERTICAL_VAL", "HORIZONTAL", "HORIZONTAL_VAL",
                "IRSCALEINPUT", "IRSCALEINPUT_VAL", "IRCHECK">>)

\* The array item asks to start while the preview stands and to save and end
\* while it runs.
ir_array(running) ==
    ChoicePlan("IRARRAY",
               Button(IF running THEN "SAVE_END" ELSE "YES", "toggle_obmode"),
               Button("CANCEL", NULL), "IRARRAY", "CANCEL")
ir_move ==
    Plan("MOVE_IR", <<Widget("QSEL", "TAQSEL", "irarray_end")>>,
         <<"QSEL", "TAQSEL">>)
ir_scale_input ==
    ChoicePlan("IRSCALEINPUT", Button("ON", NULL), Button("OFF", NULL),
               "IRSCALEINPUT", "OFF")
firmware_update ==
    ChoicePlan("FWUPDATE", Button("YES", NULL), Button("CANCEL", NULL),
               "FWUPDATE", "CANCEL")
correct_init ==
    ChoicePlan("INIT", Button("YES", "init_correct"), Button("CANCEL", NULL),
               "INIT", "CANCEL")
=============================================================================
