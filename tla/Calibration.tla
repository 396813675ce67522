----------------------------- MODULE Calibration -----------------------------
(* A camera from its calibration to the node that reads it: the chessboards  *)
(* of intrinsic_calib, the estimate of the intrinsics, their optimisation as *)
(* a vector, the YAML file, and CameraFactory::generateCameraFromYamlFile.   *)
(* A value is known by the parameter it is a value of and by where it comes  *)
(* from; of numbers only that remains.                                       *)
EXTENDS Integers, Sequences, FiniteSets

CONSTANTS
  MaxViews,    \* bound: images given to the calibration
  MinViews,    \* chessboards it asks for (10)
  Corners      \* corners of the chessboard

VARIABLES
  calPc,     \* the call intrinsic_calib makes next
  camera,    \* m_camera: model, parameters and what is derived from them
  views,     \* m_imagePoints and m_scenePoints: the points of every chessboard
  poses,     \* m_cameraPoses: the parameters each pose was computed with
  file,      \* the YAML file: model_type and the values of its sections
  data,      \* the chessboard data file, a sequence of numbers
  setsPut,   \* sets of points written to it of the two, 0 before their number
  node,      \* the camera another program generates from the file
  session,   \* what another calibration reads from the data file
  sessionPc, \* the loop readChessboardData is in
  cursor,    \* numbers it has read
  setsDue    \* the number of sets the loop reads

calVars == <<calPc, camera, views, poses, file, data, setsPut, node, session, sessionPc, cursor, setsDue>>
sessionVars == <<session, sessionPc, cursor, setsDue>>

Value(name, from) == [of |-> name, from |-> from]
Zero == Value("none", "zero")

\* The members of Parameters of each model.
KannalaBrandt == {"k2", "k3", "k4", "k5", "mu", "mv", "u0", "v0"}
Pinhole == {"k1", "k2", "p1", "p2", "fx", "fy", "cx", "cy"}
Mei == {"xi", "k1", "k2", "p1", "p2", "gamma1", "gamma2", "u0", "v0"}
\* SCARAMUZZA_POLY_SIZE is 5, SCARAMUZZA_INV_POLY_SIZE 20: three and two here.
Poly == <<"poly0", "poly1", "poly2">>
InvPoly == <<"inv_poly0", "inv_poly1">>
Scaramuzza == {"C", "D", "E", "center_x", "center_y", "poly0", "poly1", "poly2", "inv_poly0", "inv_poly1"}
Members == [KANNALA_BRANDT |-> KannalaBrandt, PINHOLE |-> Pinhole, MEI |-> Mei, SCARAMUZZA |-> Scaramuzza]
Models == DOMAIN Members
\* nIntrinsics; SCARAMUZZA_CAMERA_NUM_PARAMS is 30, for 25 coefficients; 5 here.
Count == [KANNALA_BRANDT |-> 8, PINHOLE |-> 8, MEI |-> 9, SCARAMUZZA |-> 10]

\* writeParameters: the member at every position of the vector.
KannalaBrandtWrites == <<"k2", "k3", "k4", "k5", "mu", "mv", "u0", "v0">>
PinholeWrites == <<"k1", "k2", "p1", "p2", "fx", "fy", "cx", "cy">>
MeiWrites == <<"xi", "k1", "k2", "p1", "p2", "gamma1", "gamma2", "u0", "v0">>
ScaramuzzaWrites == <<"C", "D", "E", "center_x", "center_y">> \o Poly \o InvPoly
Writes == [KANNALA_BRANDT |-> KannalaBrandtWrites, PINHOLE |-> PinholeWrites,
           MEI |-> MeiWrites, SCARAMUZZA |-> ScaramuzzaWrites]
\* readParameters: the member every position goes to.
KannalaBrandtReads == <<"k2", "k3", "k4", "k5", "mu", "mv", "u0", "v0">>
PinholeReads == <<"k1", "k2", "p1", "p2", "fx", "fy", "cx", "cy">>
\* Mutant: gamma2 and u0 change places when the vector is read.
MeiShifted == <<"xi", "k1", "k2", "p1", "p2", "gamma1", "u0", "gamma2", "v0">>
MeiReads == <<"xi", "k1", "k2", "p1", "p2", "gamma1", "gamma2", "u0", "v0">>
ScaramuzzaReads == <<"C", "D", "E", "center_x", "center_y">> \o Poly \o InvPoly
ReadBy == [KANNALA_BRANDT |-> KannalaBrandtReads, PINHOLE |-> PinholeReads,
           MEI |-> MeiReads, SCARAMUZZA |-> ScaramuzzaReads]
\* The static spaceToPlane the residuals call: what it takes a position for. The
\* residual of SCARAMUZZA calls LiftToSphere too, which leaves out poly(1).
KannalaBrandtProjects == <<"k2", "k3", "k4", "k5", "mu", "mv", "u0", "v0">>
PinholeProjects == <<"k1", "k2", "p1", "p2", "fx", "fy", "cx", "cy">>
MeiProjects == <<"xi", "k1", "k2", "p1", "p2", "gamma1", "gamma2", "u0", "v0">>
Unread == "unread"
ScaramuzzaProjects == <<"C", "D", "E", "center_x", "center_y", "poly0", Unread, "poly2">> \o InvPoly
Projects == [KANNALA_BRANDT |-> KannalaBrandtProjects, PINHOLE |-> PinholeProjects,
             MEI |-> MeiProjects, SCARAMUZZA |-> ScaramuzzaProjects]

\* setParameters and the constructors: the inverse of the projection matrix, and
\* whether there is a distortion, follow from these members.
KannalaBrandtDerives == <<"mu", "u0", "mv", "v0">>
PinholeDerives == <<"k1", "k2", "p1", "p2", "fx", "cx", "fy", "cy">>
MeiDerives == <<"k1", "k2", "p1", "p2", "gamma1", "u0", "gamma2", "v0">>
ScaramuzzaDerives == <<"C", "D", "E">>
Derives == [KANNALA_BRANDT |-> KannalaBrandtDerives, PINHOLE |-> PinholeDerives,
            MEI |-> MeiDerives, SCARAMUZZA |-> ScaramuzzaDerives]
Derived(model, params) == [i \in DOMAIN Derives[model] |-> params[Derives[model][i]]]
WithParameters(cam, params) == [cam EXCEPT !.params = params, !.derived = Derived(cam.model, params)]

\* A section of the file: its keys and their members.
Section(section, keys, members) == {<<section, keys[i], members[i]>> : i \in DOMAIN keys}
Same(section, names) == Section(section, names, names)
Distortion == Same("distortion_parameters", <<"k1", "k2", "p1", "p2">>)
\* writeToYamlFile.
KannalaBrandtToFile == Same("projection_parameters", KannalaBrandtWrites)
PinholeToFile == Distortion \cup Same("projection_parameters", <<"fx", "fy", "cx", "cy">>)
MeiToFile == Same("mirror_parameters", <<"xi">>) \cup Distortion
               \cup Same("projection_parameters", <<"gamma1", "gamma2", "u0", "v0">>)
ScaramuzzaToFile ==
  Section("poly_parameters", <<"p0", "p1", "p2">>, Poly) \cup Section("inv_poly_parameters", <<"p0", "p1">>, InvPoly)
    \cup Section("affine_parameters", <<"ac", "ad", "ae", "cx", "cy">>, <<"C", "D", "E", "center_x", "center_y">>)
ToFile == [KANNALA_BRANDT |-> KannalaBrandtToFile, PINHOLE |-> PinholeToFile,
           MEI |-> MeiToFile, SCARAMUZZA |-> ScaramuzzaToFile]
\* readFromYamlFile.
KannalaBrandtFromFile == Same("projection_parameters", <<"k2", "k3", "k4", "k5", "mu", "mv", "u0", "v0">>)
PinholeFromFile == Distortion \cup Same("projection_parameters", <<"fx", "fy", "cx", "cy">>)
MeiFromFile == Same("mirror_parameters", <<"xi">>) \cup Distortion
                 \cup Same("projection_parameters", <<"gamma1", "gamma2", "u0", "v0">>)
ScaramuzzaFromFile ==
  Section("poly_parameters", <<"p0", "p1", "p2">>, Poly) \cup Section("inv_poly_parameters", <<"p0", "p1">>, InvPoly)
    \cup Section("affine_parameters", <<"ac", "ad", "ae", "cx", "cy">>, <<"C", "D", "E", "center_x", "center_y">>)
FromFile == [KANNALA_BRANDT |-> KannalaBrandtFromFile, PINHOLE |-> PinholeFromFile,
             MEI |-> MeiFromFile, SCARAMUZZA |-> ScaramuzzaFromFile]

\* A camera of a model with the parameters of its default constructor; the factory
\* passes them to setParameters after it has changed the name and the image size.
Default(model) ==
  WithParameters([model |-> model, params |-> <<>>, derived |-> <<>>], [n \in Members[model] |-> Zero])
NoCamera == [model |-> "none"]
NoFile == [type |-> "none"]
NoSession == [views |-> <<>>, scene |-> <<>>, poses |-> <<>>]

CalInit ==
  /\ calPc = "options"
  /\ camera = NoCamera
  /\ views = <<>>
  /\ poses = <<>>
  /\ file = NoFile
  /\ data = <<>>
  /\ setsPut = 0
  /\ node = NoCamera
  /\ session = NoSession
  /\ sessionPc = "file"
  /\ cursor = 0
  /\ setsDue = 0

\* The camera model of the options, and generateCamera.
GenerateCamera ==
  /\ calPc = "options"
  /\ camera' \in {Default(m) : m \in Models}
  /\ calPc' = "images"
  /\ UNCHANGED <<views, poses, file, data, setsPut, node, sessionVars>>

\* The loop over the images: a chessboard that is found adds its points, one for
\* each corner, a point known by a number of its own.
AddChessboardData ==
  /\ calPc = "images"
  /\ Len(views) < MaxViews
  /\ views' = Append(views, [c \in 1..Corners |-> 10 * (Len(views) + 1) + c])
  /\ UNCHANGED <<calPc, camera, poses, file, data, setsPut, node, sessionVars>>

EnoughChessboards ==
  /\ calPc = "images"
  /\ calPc' = IF Len(views) < MinViews THEN "insufficient" ELSE "estimate"
  /\ UNCHANGED <<camera, views, poses, file, data, setsPut, node, sessionVars>>

All(model, from) == [n \in Members[model] |-> Value(n, from)]

\* estimateIntrinsics. A pinhole camera and Scaramuzza's are always given an
\* estimate; the two others try candidates, the best of which is kept, and may
\* find none: they return as they came and the calibration goes on all the same.
PinholeEstimates == camera' = WithParameters(camera, All("PINHOLE", "estimated"))
ScaramuzzaEstimates == camera' = WithParameters(camera, All("SCARAMUZZA", "estimated"))
KannalaBrandtEstimates ==
  \/ camera' = WithParameters(camera, All("KANNALA_BRANDT", "estimated"))
  \/ UNCHANGED camera
MeiEstimates ==
  \/ camera' = WithParameters(camera, All("MEI", "estimated"))
  \/ UNCHANGED camera

EstimateIntrinsics ==
  /\ calPc = "estimate"
  /\ \/ camera.model = "PINHOLE" /\ PinholeEstimates
     \/ camera.model = "SCARAMUZZA" /\ ScaramuzzaEstimates
     \/ camera.model = "KANNALA_BRANDT" /\ KannalaBrandtEstimates
     \/ camera.model = "MEI" /\ MeiEstimates
  /\ calPc' = "extrinsics"
  /\ UNCHANGED <<views, poses, file, data, setsPut, node, sessionVars>>

\* estimateExtrinsics for every view, which lifts its points with the camera.
EstimateExtrinsics ==
  /\ calPc = "extrinsics"
  /\ poses' = [i \in DOMAIN views |-> camera.params]
  /\ calPc' = "optimize"
  /\ UNCHANGED <<camera, views, file, data, setsPut, node, sessionVars>>

\* ceres::Solve: a position of the vector ends as the optimum of what the
\* residuals take it for.
Solved(model, vector) ==
  [i \in DOMAIN vector |-> IF Projects[model][i] = Unread THEN vector[i]
                           ELSE Value(Projects[model][i], "optimized")]
ReadParameters(cam, vector) ==
  IF Len(vector) # Count[cam.model] THEN cam
  ELSE WithParameters(cam, [n \in Members[cam.model] |->
         vector[CHOOSE i \in DOMAIN vector : ReadBy[cam.model][i] = n]])

\* optimize, and the poses calibrate takes from it.
Optimize ==
  /\ calPc = "optimize"
  /\ LET vector == [i \in 1..Count[camera.model] |-> camera.params[Writes[camera.model][i]]]
     IN  camera' = ReadParameters(camera, Solved(camera.model, vector))
  /\ poses' = [i \in DOMAIN views |-> camera'.params]
  /\ calPc' = "writeParams"
  /\ UNCHANGED <<views, file, data, setsPut, node, sessionVars>>

\* The names the models have in a file.
TypeName == [KANNALA_BRANDT |-> "KANNALA_BRANDT", PINHOLE |-> "PINHOLE", MEI |-> "MEI", SCARAMUZZA |-> "scaramuzza"]
WriteParams ==
  /\ calPc = "writeParams"
  /\ file' = [type |-> TypeName[camera.model],
              values |-> [k \in {<<e[1], e[2]>> : e \in ToFile[camera.model]} |->
                            camera.params[(CHOOSE e \in ToFile[camera.model] : <<e[1], e[2]>> = k)[3]]]]
  /\ calPc' = "writeData"
  /\ UNCHANGED <<camera, views, poses, data, setsPut, node, sessionVars>>

\* writeChessboardData: header and poses; a pose is the number of its view here.
WriteHeader ==
  /\ calPc = "writeData"
  /\ data' = <<Len(poses)>> \o [i \in DOMAIN poses |-> i]
  /\ calPc' = "imagePoints"
  /\ UNCHANGED <<camera, views, poses, file, setsPut, node, sessionVars>>

\* Its loops over m_imagePoints and m_scenePoints, which hold a set for every view:
\* the number of sets, then the points of each behind their number.
WriteNumberOfSets ==
  /\ calPc \in {"imagePoints", "scenePoints"}
  /\ setsPut = 0
  /\ data' = Append(data, Len(views))
  /\ setsPut' = 1
  /\ UNCHANGED <<calPc, camera, views, poses, file, node, sessionVars>>
WriteSet ==
  /\ calPc \in {"imagePoints", "scenePoints"}
  /\ setsPut \in DOMAIN views
  /\ data' = data \o (<<Len(views[setsPut])>> \o views[setsPut])
  /\ setsPut' = setsPut + 1
  /\ UNCHANGED <<calPc, camera, views, poses, file, node, sessionVars>>
SetsWritten ==
  /\ calPc \in {"imagePoints", "scenePoints"}
  /\ setsPut > Len(views)
  /\ setsPut' = 0
  /\ calPc' = IF calPc = "imagePoints" THEN "scenePoints" ELSE "written"
  /\ UNCHANGED <<camera, views, poses, file, data, node, sessionVars>>

\* readChessboardData: rows and poses, and the number of sets of image points.
ReadHeader ==
  /\ calPc = "written"
  /\ sessionPc = "file"
  /\ LET rows == data[1]
     IN  /\ session' = [session EXCEPT !.poses = [i \in 1..rows |-> data[1 + i]]]
         /\ setsDue' = data[rows + 2]
         /\ cursor' = rows + 2
  /\ sessionPc' = "views"
  /\ UNCHANGED <<calPc, camera, views, poses, file, data, setsPut, node>>

\* A set of points, into m_imagePoints or m_scenePoints.
ReadSet(loop) ==
  /\ sessionPc = loop
  /\ Len(session[loop]) < setsDue
  /\ LET n == data[cursor + 1]
     IN  /\ session' = [session EXCEPT ![loop] = Append(session[loop], [i \in 1..n |-> data[cursor + 1 + i]])]
         /\ cursor' = cursor + 1 + n
  /\ UNCHANGED <<calPc, camera, views, poses, file, data, setsPut, node, sessionPc, setsDue>>

\* All image points are read: the number of sets of scene points.
ImagePointsRead ==
  /\ sessionPc = "views"
  /\ Len(session.views) = setsDue
  /\ setsDue' = data[cursor + 1]
  /\ cursor' = cursor + 1
  /\ sessionPc' = "scene"
  /\ UNCHANGED <<calPc, camera, views, poses, file, data, setsPut, node, session>>
ScenePointsRead ==
  /\ sessionPc = "scene"
  /\ Len(session.scene) = setsDue
  /\ sessionPc' = "read"
  /\ UNCHANGED <<calPc, camera, views, poses, file, data, setsPut, node, session, cursor, setsDue>>

\* Someone writes the model's name in another case, or takes it out.
EditFile ==
  /\ file # NoFile
  /\ node = NoCamera
  /\ \E type \in {"other case", "absent", "unknown"} : file' = [file EXCEPT !.type = type]
  /\ file.type \in {TypeName[m] : m \in Models}
  /\ UNCHANGED <<calPc, camera, views, poses, data, setsPut, node, sessionVars>>

\* The model the factory takes the file for, whatever the case; MEI without one.
FactoryModel ==
  CASE file.type = "absent" -> "MEI"
    [] file.type = "other case" -> camera.model
    [] OTHER -> CHOOSE m \in Models : TypeName[m] = file.type
\* readFromYamlFile wants the very name, but for Scaramuzza; the factory does not
\* look at what it returns, and a key that is not there is read as zero.
Accepted(model) == file.type \in {TypeName[model], "absent"} \/ model = "SCARAMUZZA"
Parsed(model) ==
  LET member(n) == CHOOSE e \in FromFile[model] : e[3] = n
      key(n) == <<member(n)[1], member(n)[2]>>
  IN  [n \in Members[model] |-> IF key(n) \in DOMAIN file.values THEN file.values[key(n)] ELSE Zero]

GenerateCameraFromYamlFile ==
  /\ file # NoFile
  /\ node = NoCamera
  /\ file.type # "unknown"        \* the factory returns no camera
  /\ node' = IF Accepted(FactoryModel) THEN WithParameters(Default(FactoryModel), Parsed(FactoryModel))
                                       ELSE Default(FactoryModel)
  /\ UNCHANGED <<calPc, camera, views, poses, file, data, setsPut, sessionVars>>

CalNext ==
  \/ GenerateCamera \/ AddChessboardData \/ EnoughChessboards
  \/ EstimateIntrinsics \/ EstimateExtrinsics
  \/ Optimize \/ WriteParams
  \/ WriteHeader \/ WriteNumberOfSets \/ WriteSet \/ SetsWritten
  \/ ReadHeader \/ ReadSet("views") \/ ReadSet("scene") \/ ImagePointsRead \/ ScenePointsRead
  \/ EditFile \/ GenerateCameraFromYamlFile

CalSpec == CalInit /\ [][CalNext]_calVars
-----------------------------------------------------------------------------
\* A node that is given the file of a calibration has that calibration's camera:
\* its model, every parameter with the optimum found for that very parameter
\* (poly(1) of Scaramuzza's model, which no residual reads, keeps its estimate),
\* derived quantities that belong to them, and poses computed with them; and the
\* chessboards read from the data file are those it was computed from. A file
\* whose model_type someone wrote in another case is left out: the factory takes
\* it and the parameters do not, so that the camera is all zero
\* (CameraFactory.cc:114-135, PinholeCamera.cc:157-162).
CalibrationReachesNode ==
  /\ node # NoCamera /\ file.type = TypeName[camera.model] =>
       /\ node = camera
       /\ \A n \in Members[node.model] :
            node.params[n] = Value(n, IF n = "poly1" THEN "estimated" ELSE "optimized")
       /\ node.derived = Derived(node.model, node.params)
       /\ \A i \in DOMAIN poses : poses[i] = node.params
  /\ sessionPc = "read" =>
       session.views = views /\ session.scene = views /\ session.poses = [i \in DOMAIN poses |-> i]
=============================================================================
