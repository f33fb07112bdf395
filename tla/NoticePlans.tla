---------------------------- MODULE NoticePlans ----------------------------
(***************************************************************************)
(* The dialogs that only tell something: a caption and a CONFIRM button    *)
(* without callback, one creator each (gui_dialog_creator.c).              *)
(* invalid_gridvar and the four answers of a firmware update borrow the    *)
(* caption identifier of another dialog.                                   *)
(***************************************************************************)
EXTENDS Widgets

success_magcomp == NoticePlan("MAGCOMP_OK", "MAGCOMP_OK")
magcomp_errfom == NoticePlan("MAGCOMP_ERRFOM", "MAGCOMP_ERRFOM")
magcomp_errcalc == NoticePlan("MAGCOMP_ERRCALC", "MAGCOMP_ERRCALC")
magcomp_errdaq == NoticePlan("MAGCOMP_ERRDAQ", "MAGCOMP_ERRDAQ")
user_obloc == NoticePlan("USER_OBLOC", "USER_OBLOC")
auto_obloc == NoticePlan("AUTO_OBLOC", "AUTO_OBLOC")
invalid_obloc == NoticePlan("INVALID_OBLOC", "INVALID_OBLOC")
user_range == NoticePlan("USER_RANGE", "USER_RANGE")
auto_range == NoticePlan("AUTO_RANGE", "AUTO_RANGE")
invalid_range == NoticePlan("INVALID_RANGE", "INVALID_RANGE")
user_gridvar == NoticePlan("USER_GRIDVAR", "USER_GRIDVAR")
auto_gridvar == NoticePlan("AUTO_GRIDVAR", "AUTO_GRIDVAR")
low_voltage == NoticePlan("LOW_VOLTAGE", "LOW_VOLTAGE")
invalid_gridvar == NoticePlan("INVALID_GRIDVAR", "INVALID_RANGE")
ircamctrl_error == NoticePlan("ERROR_IRCAM_CTRL", "ERROR_IRCAM_CTRL")
ircampwr_error == NoticePlan("ERROR_IRCAM_POWER", "ERROR_IRCAM_POWER")
dispctrl_error == NoticePlan("ERROR_DISP_CTRL", "ERROR_DISP_CTRL")
evoutctrl_error == NoticePlan("ERROR_EVOUT_CTRL", "ERROR_EVOUT_CTRL")
shtrctrl_error == NoticePlan("ERROR_SHTR_CTRL", "ERROR_SHTR_CTRL")
lrfctrl_error == NoticePlan("ERROR_LRF_CTRL", "ERROR_LRF_CTRL")
angle_error == NoticePlan("ERROR_ANGLE_LIMIT", "ERROR_ANGLE_LIMIT")
unknown_error == NoticePlan("UNKNOWN_ERROR", "UNKNOWN_ERROR")
magcomp_initerr == NoticePlan("MAGCOMP_ERRINIT", "FAIL_INIT_MAGCOMP")
error_zero_range == NoticePlan("ERROR_ZERO_RANGE", "ERROR_ZERO_RANGE")
error_target_shift == NoticePlan("ERROR_TARGET_SHIFT", "ERROR_TARGET_SHIFT")
error_target_size == NoticePlan("ERROR_TARGET_SIZE", "ERROR_TARGET_SIZE")
error_geodcalc == NoticePlan("ERROR_GEODCALC", "ERROR_GEODCALC")
error_dmc_offline == NoticePlan("ERROR_DMC_OFFLINE", "ERROR_DMC_OFFLINE")
error_gnss_offline == NoticePlan("ERROR_GNSS_OFFLINE", "ERROR_GNSS_OFFLINE")
error_taq == NoticePlan("ERROR_TAQ", "ERROR_TAQ")
success_xmit == NoticePlan("SUCCESS_XMIT", "SUCCESS_XMIT")
success_dmif_test == NoticePlan("SUCCESS_DMIF_TEST", "SUCCESS_DMIF_TEST")
timeout == NoticePlan("ERROR_TIMEOUT", "ERROR_TIMEOUT")
nack_cantpro2 == NoticePlan("ERROR_NACK_CANPRO2", "ERROR_NACK_CANPRO2")
nack_cantpro15 == NoticePlan("ERROR_NACK_CANPRO15", "ERROR_NACK_CANPRO15")
nack_cantpro19 == NoticePlan("ERROR_NACK_CANPRO19", "ERROR_NACK_CANPRO19")
nack_cantpro25 == NoticePlan("ERROR_NACK_CANPRO25", "ERROR_NACK_CANPRO25")
error_gridvar == NoticePlan("ERROR_GRIDVAR", "ERROR_GRIDVAR")
bit_pass == NoticePlan("BIT_PASS", "BIT_PASS")
bit_fail == NoticePlan("BIT_FAIL", "BIT_FAIL")
fwupdate_nofile == NoticePlan("NOFILE", "FWUPDATE_ERROR")
fwupdate_success == NoticePlan("SUCCESS_FWUPDATE", "FWUPDATE_ERROR")
fwupdate_fail == NoticePlan("FAIL_FWUPDATE", "FWUPDATE_ERROR")
fwupdate_nosdcard == NoticePlan("NOSDCARD", "FWUPDATE_ERROR")
=============================================================================
