SPECIFICATION FairSpec
CONSTANT Conditions = {"unreliable"}
PROPERTY LossAndReorderingHandled
CHECK_DEADLOCK FALSE
