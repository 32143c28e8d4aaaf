SPECIFICATION JobSpec
CONSTANTS
    WfEnforcing = {"check_standard", "check_teardown_can_identify"}
    WfAdvisory = {"check_pool_owns_teardown"}
    DirEnforcing = {"check_dereg_backstop", "check_backstop_covers_producers"}
    DirAdvisory = {"check_reaper_schedule"}
INVARIANTS
    GreenIsJudged
    NothingIsSilent
CHECK_DEADLOCK FALSE
