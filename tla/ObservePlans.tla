---------------------------- MODULE ObservePlans ---------------------------
(***************************************************************************)
(* The dialogs of the observation modes: settings of camera and display,   *)
(* compass compensation, positions, times and ranges entered by hand, the  *)
(* target list and the transmissions (gui_dialog_creator.c).  What a       *)
(* creator reads from a device or a manager to choose its widgets or its   *)
(* focus is its parameter.                                                 *)
(***************************************************************************)
EXTENDS Widgets

OnButton(name) == <<"BUTTON", name>>

\* Settings.
dispbr == Slider("DISPBR", "dispbr")
display_adjust(running) ==
    Plan("ADJUST",
         IF running
           THEN <<dispbr, Slider("IRBR", "irbr"), Slider("IRCONT", "ircont"),
                  Slider("IREDGE", "iredge")>>
           ELSE <<dispbr>>,
         <<"SLIDER", "DISPBR">>)
obmode ==
    ChoicePlan("OBMODE", Button("YES", "toggle_obmode"), Button("NO", NULL),
               "OBMODE", "NO")
ireis(enabled) ==
    ChoicePlan("IREIS", Button("ON", "enable_ireis"),
               Button("OFF", "disable_ireis"), "IREIS",
               IF enabled THEN "ON" ELSE "OFF")
irclr(colour) ==
    Plan("IRCLR",
         <<Button("MONO", "set_irclr_mono"), Button("SEPIA", "set_irclr_sepia"),
           Button("SPECTRUM", "set_irclr_spectrum"),
           Button("ISOTHERM", "set_irclr_isotherm"), Caption("IRCLR")>>,
         OnButton(colour))
irglv ==
    Plan("IRGLV", <<Slider("IRGAIN", "irgain"), Slider("IRLEVEL", "irlevel")>>,
         <<"SLIDER", "IRGAIN">>)
irheq(global) ==
    ChoicePlan("IRHEQ", Button("GHEQ", "enable_gheq"),
               Button("LHEQ", "enable_lheq"), "IRHEQ",
               IF global THEN "GHEQ" ELSE "LHEQ")
\* The focus asked for is that of the histogram dialog, absent here.
select_shutter(internal) ==
    ChoicePlan("SELECT_SHUTTER", Button("INTSHTR", "select_internal_shutter"),
               Button("EXTSHTR", "select_external_shutter"), "SELECT_SHUTTER",
               IF internal THEN "GHEQ" ELSE "LHEQ")
cover_irlens ==
    Plan("COVER_IRLENS", <<Caption("COVER_IRLENS"), Button("CONFIRM", "update_nuc")>>,
         OnButton("CONFIRM"))
evout ==
    Plan("EXTERN_VOUT", <<Caption("EVOUT"), Button("ON", "enable_evout"),
                          Button("OFF", "disable_evout")>>, OnButton("OFF"))
coordsys_selection(coordsys) ==
    Plan("SET_COORDSYS",
         <<Button("GEODETIC", "set_coordsys_geodetic"),
           Button("UTM", "set_coordsys_utm"), Button("MGRS", "set_coordsys_mgrs"),
           Caption("COORDSYS")>>, OnButton(coordsys))
gnss_status ==
    Plan("GNSS_STATUS", <<Button("CONFIRM", NULL), Widget("SVPLOT", "GNSS", NULL)>>,
         OnButton("CONFIRM"))
auto_xmit(on) ==
    ChoicePlan("XMIT_DATA", Button("ON", "enable_auto_xmit"),
               Button("OFF", "disable_auto_xmit"), "AUTO_XMIT_DATA",
               IF on THEN "ON" ELSE "OFF")
standby_mode ==
    ChoicePlan("SLEEP", Button("CONFIRM", "enter_standby_mode"),
               Button("CANCEL", NULL), "ENTER_STANDBY_MODE", "CANCEL")
exec_bit ==
    ChoicePlan("EXEC_BIT", Button("CONFIRM", NULL), Button("CANCEL", NULL),
               "EXEC_BIT", "CANCEL")
dmif_test ==
    ChoicePlan("DMIF_TEST", Button("CONFIRM", "test_dmif"),
               Button("CANCEL", NULL), "DMIF_TEST", "CONFIRM")

\* Compass compensation.
enter_magcompmode(dmcOnline) ==
    IF dmcOnline
      THEN ChoicePlan("ENTER_MAGCOMPMODE", Button("CONFIRM", "enter_magcompmode"),
                      Button("CANCEL", NULL), "ENTER_MAGCOMPMODE", "CANCEL")
      ELSE NoticePlan("ERROR_DMC_OFFLINE", "ERROR_DMC_OFFLINE")
exit_magcompmode ==
    ChoicePlan("EXIT_MAGCOMPMODE", Button("CONFIRM", "exit_magcompmode"),
               Button("CANCEL", NULL), "EXIT_MAGCOMPMODE", "CANCEL")
apply_magparm ==
    ChoicePlan("APPLY_MAGPARM", Button("CONFIRM", "apply_magparm"),
               Button("CANCEL", "exit_magcompmode"), "APPLY_MAGPARM", "CANCEL")
retry_magcomp ==
    ChoicePlan("RETRY_MAGCOMP", Button("CONFIRM", "retry_magcomp"),
               Button("CANCEL", "exit_magcompmode"), "RETRY_MAGCOMP", "CANCEL")

\* Values entered by hand.
gridvar_digits == <<"GRIDVAR_SIGN", "GRIDVAR_DIGIT2", "GRIDVAR_DIGIT1",
                    "GRIDVAR_DIGIT0">>
input_gridvar ==
    Plan("INPUT_GRIDVAR",
         <<Button("APPLY", "use_user_gridvar"), Button("CANCEL", NULL)>>
           \o Spinboxes(gridvar_digits) \o Captions(<<"GRIDVAR_UNIT">>),
         OnButton("CANCEL"))

mgrs_digit ==
    <<"MGRS_ZONE_DIGIT4", "MGRS_ZONE_DIGIT3", "MGRS_ZONE_DIGIT2",
      "MGRS_ZONE_DIGIT1", "MGRS_ZONE_DIGIT0",
      "MGRS_EASTING_DIGIT4", "MGRS_EASTING_DIGIT3", "MGRS_EASTING_DIGIT2",
      "MGRS_EASTING_DIGIT1", "MGRS_EASTING_DIGIT0",
      "MGRS_NORTHING_DIGIT4", "MGRS_NORTHING_DIGIT3", "MGRS_NORTHING_DIGIT2",
      "MGRS_NORTHING_DIGIT1", "MGRS_NORTHING_DIGIT0">>
altitude_digit == <<"ALTITUDE_SIGN", "ALTITUDE_DIGIT3", "ALTITUDE_DIGIT2",
                    "ALTITUDE_DIGIT1", "ALTITUDE_DIGIT0">>
input_obloc ==
    Plan("INPUT_OBLOC",
         <<Button("APPLY", "use_user_obloc"), Button("CANCEL", "use_auto_obloc")>>
           \o Spinboxes(mgrs_digit) \o Spinboxes(altitude_digit)
           \o Captions(<<"ALTITUDE_UNIT">>),
         OnButton("CANCEL"))

range_digits == <<"RANGE_DIGIT3", "RANGE_DIGIT2", "RANGE_DIGIT1", "RANGE_DIGIT0">>
input_range ==
    Plan("INPUT_RANGE",
         <<Button("APPLY", "use_user_range"), Button("CANCEL", "use_auto_range")>>
           \o Spinboxes(range_digits) \o Captions(<<"RANGE_UNIT">>),
         OnButton("CANCEL"))

\* The clock: nothing but the buttons when the time cannot be broken down.
time_buttons == <<Button("CONFIRM", "set_systime"), Button("CANCEL", NULL)>>
date_boxes ==
    <<Widget("SPINBOX", "YEAR", "change_lastday"), Caption("DELIMIT_YEAR"),
      Widget("SPINBOX", "MONTH", "change_lastday"), Caption("DELIMIT_MONTH"),
      Spinbox("DAY")>>
clock_boxes == <<Spinbox("HOUR"), Caption("DELIMIT_TIME"), Spinbox("MINUTE"),
                 Caption("UTC"), Spinbox("UTC_OFFSET")>>
timeset(tm) ==
    IF tm THEN Plan("TIME_CONFIG", time_buttons \o date_boxes \o clock_boxes,
                    OnButton("CANCEL"))
          ELSE GivesUp("TIME_CONFIG", time_buttons)

\* Target acquisition, the target list and its transmissions.
taqsel ==
    Plan("TAQSEL", <<Widget("QSEL", "TAQSEL", "taqsel")>>, <<"QSEL", "TAQSEL">>)
termtaq(inProcess) ==
    IF inProcess
      THEN ChoicePlan("TERMTAQ", Button("CONFIRM", "terminate_target_acquisition"),
                      Button("CANCEL", NULL), "TERMTAQ", "CANCEL")
      ELSE NoPlan

list_buttons == <<Button("DETAIL_INFO", "check_target_list"),
                  Button("XMIT_TARGET", "check_target_list"),
                  Button("DELETE_TARGET", "check_target_list"),
                  Button("CLOSE", NULL)>>
list_grid   == <<Widget("GRID", "TARGET_LIST", NULL)>>
target_list == Plan("TARGET_LIST", list_buttons \o list_grid, OnButton("CLOSE"))

observer_values == <<"OBLOC_TAG", "OBLOC_MGRS", "OBLOC_UTM", "OBLOC_GEODETIC",
                     "OBALT_TAG", "OBALT_VAL">>
bearing_values  == <<"FWDAZ_TAG", "FWDAZ_VAL", "FWDEL_TAG", "FWDEL_VAL",
                     "HDIST_TAG", "HDIST_VAL", "SDIST_TAG", "SDIST_VAL">>
location_values == <<"TGTLOC_TAG", "TGTLOC_MGRS", "TGTLOC_UTM", "TGTLOC_GEODETIC",
                     "TGTALT_TAG", "TGTALT_VAL">>
shape_values    == <<"CIRCULAR_TARGET_TAG", "CIRCULAR_TARGET_VAL",
                     "SQUARE_TARGET_TAG", "SQUARE_TARGET_VAL",
                     "SQUARE_TARGET_TAG", "ATTITUDE_VAL",
                     "ADJUSTMENT_TAG", "ADJUSTMENT_VAL",
                     "ADJUSTED_AZIMUTH_TAG", "ADJUSTED_AZIMUTH_VAL">>
target_detail ==
    Plan("TARGET_DETAIL",
         <<Button("CONFIRM", NULL)>>
           \o Captions(observer_values \o bearing_values
                         \o location_values \o shape_values),
         OnButton("CONFIRM"))
delete_target ==
    ChoicePlan("DELETE_TARGET", Button("CONFIRM", "delete_target"),
               Button("CANCEL", NULL), "DELETE_TARGET", "CANCEL")

\* Without a position of either kind only the button that closes remains.
xmit_obloc(userInput, online) ==
    IF userInput \/ online
      THEN ChoicePlan("XMIT_OBLOC", Button("CONFIRM", "xmit_observer_location"),
                      Button("CANCEL", NULL), "XMIT_OBLOC", "CONFIRM")
      ELSE Plan("XMIT_OBLOC", <<Button("CONFIRM", NULL), Caption("XMIT_OBLOC")>>,
                OnButton("CONFIRM"))
xmit_taloc ==
    ChoicePlan("XMIT_TALOC", Button("CONFIRM", "xmit_target_location"),
               Button("CANCEL", NULL), "XMIT_TALOC", "CONFIRM")
xmit_taloc_at_list ==
    ChoicePlan("XMIT_TALOC_TLIST",
               Button("CONFIRM", "xmit_target_location_at_list"),
               Button("CANCEL", NULL), "XMIT_TALOC", "CONFIRM")

\* Both leave the focus identifier at 0, which no widget has.
XmitInfo(id, location, shift) ==
    Plan(id, <<Button("TARGET_LOCATION", location), Button("TARGET_SHIFT", shift),
               Button("CANCEL", NULL), Caption("SELECT_XMITINFO")>>, <<>>)
select_xmitifno ==
    XmitInfo("SELECT_XMITINFO", "xmit_target_location", "xmit_target_shift")
select_xmitifno_at_list ==
    XmitInfo("SELECT_XMITINFO_TLIST", "xmit_target_location_at_list",
             "xmit_target_shift_at_list")

version_values == <<"APP_VERSION", "APP_VERSION_VALUE", "APP_CRC32",
                    "APP_CRC32_VALUE", "APP_BUILD_DATE", "APP_BUILD_DATE_VALUE">>
parameter_values == <<"RCC_PARAM", "RCC_PARAM_VALUE0", "RCC_PARAM_VALUE1",
                      "ANGULAR_OFFSET", "ANGULAR_OFSSET_VALUE", "EOSYSTEM">>
system_info ==
    Plan("SYSTEM_INFO",
         Captions(version_values \o parameter_values)
           \o <<Button("CONFIRM", NULL)>>, OnButton("CONFIRM"))
=============================================================================
